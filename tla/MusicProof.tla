----------------------------- MODULE MusicProof -----------------------------
(***************************************************************************)
(* Proofs about Music, for files of any number of chunks, of any sizes and *)
(* cut anywhere, any sample rate and any notes: that the header is read as *)
(* its chunks mean it, that every frame is played once, that the melody    *)
(* lasts as long, that the arrays are kept and that gaps are bridged.      *)
(***************************************************************************)
EXTENDS Music, WellFoundedInduction, TLAPS

-----------------------------------------------------------------------------
(* Numbers *)

LEMMA MaxOfTwo ==
  ASSUME NEW a \in Int, NEW b \in Int
  PROVE  Max({a, b}) = IF a < b THEN b ELSE a
<1> DEFINE m == IF a < b THEN b ELSE a
<1>1. m \in {a, b} /\ \A y \in {a, b} : m >= y
  OBVIOUS
<1>2. \A x \in {a, b} : (\A y \in {a, b} : x >= y) => x = m
  OBVIOUS
<1> HIDE DEF m
<1>3. Max({a, b}) = m
  BY <1>1, <1>2 DEF Max
<1>4. QED
  BY <1>3 DEF m

LEMMA MinOfTwo ==
  ASSUME NEW a \in Int, NEW b \in Int
  PROVE  Min({a, b}) = IF a < b THEN a ELSE b
<1> DEFINE m == IF a < b THEN a ELSE b
<1>1. m \in {a, b} /\ \A y \in {a, b} : m =< y
  OBVIOUS
<1>2. \A x \in {a, b} : (\A y \in {a, b} : x =< y) => x = m
  OBVIOUS
<1> HIDE DEF m
<1>3. Min({a, b}) = m
  BY <1>1, <1>2 DEF Min
<1>4. QED
  BY <1>3 DEF m

(* Any set of numbers has a least one, and Min is in it. *)
LEMMA LeastIn ==
  ASSUME NEW T \in SUBSET Nat, T # {}
  PROVE  Min(T) \in T /\ \A y \in T : Min(T) <= y
<1> DEFINE R == {p \in Nat \X Nat : p[1] < p[2]}
<1>1. IsWellFoundedOn(R, Nat)
  BY NatLessThanWellFounded DEF OpToRel
<1>2. PICK x \in T : \A y \in T : ~(<<y, x>> \in R)
  <2> HIDE DEF R
  <2>1. QED
    BY <1>1, WFMin
<1>3. ASSUME NEW y \in T PROVE x <= y
  <2>1. x \in Nat /\ y \in Nat
    OBVIOUS
  <2>2. y < x => <<y, x>> \in R
    BY <2>1, SMT
  <2>3. QED
    BY <1>2, <2>1, <2>2
<1>4. QED
  BY <1>3 DEF Min

-----------------------------------------------------------------------------
(* Lengths *)

LEMMA SamplesForType ==
  ASSUME NEW rate \in Nat, NEW ms \in Nat, NEW lo \in Nat, NEW hi \in Nat
  PROVE  /\ SamplesFor(rate, ms, lo, hi) \in 0..hi
         /\ lo <= hi => SamplesFor(rate, ms, lo, hi) >= lo
<1>1. PICK n \in Int : n = (rate * ms + 999) \div 1000
  OBVIOUS
<1>2. PICK m \in Int : m = Max({n, lo}) /\ m >= lo
  BY MaxOfTwo
<1>3. SamplesFor(rate, ms, lo, hi) = Least(m, hi)
  BY <1>1, <1>2 DEF SamplesFor
<1>4. QED
  BY <1>2, <1>3 DEF Least

LEMMA WindowType ==
  ASSUME NEW rate \in Nat
  PROVE  \E w \in Nat : w = WindowSamples(rate) /\ 768 <= w /\ w <= 4096
<1>1. PICK ms \in Nat, lo \in Nat, hi \in Nat : ms = 96 /\ lo = 768 /\ hi = 4096
  OBVIOUS
<1>2. WindowSamples(rate) = SamplesFor(rate, ms, lo, hi)
  BY <1>1 DEF WindowSamples
<1>3. WindowSamples(rate) \in 0..hi
  BY <1>2, SamplesForType
<1>4. lo <= hi => WindowSamples(rate) >= lo
  BY <1>2, SamplesForType
<1>5. PICK w \in 0..hi : w = WindowSamples(rate)
  BY <1>3
<1>6. w \in Nat /\ w <= 4096
  BY <1>1
<1>7. 768 <= w
  BY <1>1, <1>4, <1>5
<1>8. QED
  BY <1>5, <1>6, <1>7

(* A hop is not empty and shorter than a window.                           *)
LEMMA HopType ==
  ASSUME NEW rate \in Nat
  PROVE  \E h \in Nat : h = HopSamples(rate) /\ 1 <= h /\ h < WindowSamples(rate)
<1>1. PICK w \in Nat : w = WindowSamples(rate) /\ 768 <= w /\ w <= 4096
  BY WindowType
<1>2. PICK ms \in Nat, lo \in Nat : ms = 20 /\ lo = 128
  OBVIOUS
<1>3. SamplesFor(rate, ms, lo, w) \in 0..w
  BY SamplesForType
<1>4. lo <= w => SamplesFor(rate, ms, lo, w) >= lo
  BY SamplesForType
<1>5. PICK h \in 0..w : h = SamplesFor(rate, ms, lo, w)
  BY <1>3
<1>6. h >= 128
  BY <1>1, <1>2, <1>4, <1>5
<1>7. HopSamples(rate) = IF h >= w THEN w \div 2 ELSE h
  BY <1>1, <1>2, <1>5 DEF HopSamples
<1>8. CASE h >= w
  <2>1. PICK k \in Nat : k = w \div 2
    OBVIOUS
  <2>2. QED
    BY <1>1, <1>7, <1>8, <2>1
<1>9. CASE ~(h >= w)
  BY <1>1, <1>6, <1>7, <1>9
<1>10. QED
  BY <1>8, <1>9

LEMMA DurationType ==
  ASSUME NEW n \in Nat, NEW rate \in Nat, rate # 0
  PROVE  DurationMs(n, rate) \in Nat
<1>1. (n * 1000 + rate - 1) \div rate \in Int
  OBVIOUS
<1>2. QED
  BY <1>1, MaxOfTwo DEF DurationMs

(* After whole hops, one more hop is one more, whole or not.               *)
LEMMA OneMoreHop ==
  ASSUME NEW h \in Nat, 1 <= h, NEW p \in Nat, p % h = 0, NEW n \in 1..h
  PROVE  /\ (p + n + h - 1) \div h = (p + h - 1) \div h + 1
         /\ n = h => (p + n) % h = 0
<1>1. PICK k \in Nat : k = p \div h
  OBVIOUS
<1>2. p = k * h
  BY <1>1
<1>3. (p + h - 1) \div h = k
  BY <1>2
<1>4. (p + n + h - 1) \div h = k + 1
  BY <1>2
<1>5. n = h => (p + n) % h = 0
  BY <1>2
<1>6. QED
  BY <1>3, <1>4, <1>5

(* samples_to_duration_ms rounds up, by less than a millisecond.           *)
LEMMA DurationRoundsUp ==
  ASSUME NEW n \in Nat, n > 0, NEW rate \in Nat, rate > 0
  PROVE  \E ms \in Nat : /\ ms = DurationMs(n, rate)
                         /\ ms * rate >= n * 1000
                         /\ ms * rate < n * 1000 + rate
<1>1. PICK q \in Int : q = (n * 1000 + rate - 1) \div rate
  OBVIOUS
<1>2. q * rate <= n * 1000 + rate - 1 /\ n * 1000 <= q * rate
  BY <1>1
<1>3. q >= 1
  BY <1>2
<1>4. DurationMs(n, rate) = q
  BY <1>1, <1>3, MaxOfTwo DEF DurationMs
<1>5. QED
  BY <1>2, <1>3, <1>4

(* A hop is at most 128 samples, or 20 ms.                                 *)
LEMMA HopIsShort ==
  ASSUME NEW rate \in Nat, rate > 0
  PROVE  \E h \in Nat : h = HopSamples(rate) /\ h * 1000 <= 128000 * rate
<1>1. PICK w \in Nat : w = WindowSamples(rate) /\ 768 <= w /\ w <= 4096
  BY WindowType
<1>2. PICK n \in Nat : n = (rate * 20 + 999) \div 1000 /\ n * 1000 <= rate * 20 + 999
  OBVIOUS
<1>3. PICK m \in Nat : m = Max({n, 128}) /\ (m = n \/ m = 128)
  BY MaxOfTwo
<1>4. m * 1000 <= 128000 * rate
  BY <1>2, <1>3
<1>5. PICK s \in Nat : s = SamplesFor(rate, 20, 128, w) /\ s <= m
  BY <1>1, <1>2, <1>3 DEF SamplesFor, Least
<1>6. HopSamples(rate) = IF s >= w THEN w \div 2 ELSE s
  BY <1>1, <1>5 DEF HopSamples
<1>7. PICK h \in Nat : h = HopSamples(rate) /\ h <= s
  BY <1>1, <1>5, <1>6
<1>8. QED
  BY <1>4, <1>5, <1>7

(* The duration of a hop, or of a shorter last one, is an unsigned int.    *)
LEMMA HopFitsUInt ==
  ASSUME NEW rate \in Nat, rate > 0, NEW n \in Nat, n > 0, n <= HopSamples(rate)
  PROVE  DurationMs(n, rate) \in 0..(UIntMod - 1)
<1>1. PICK h \in Nat : h = HopSamples(rate) /\ h * 1000 <= 128000 * rate
  BY HopIsShort
<1>2. PICK ms \in Nat : ms = DurationMs(n, rate) /\ ms * rate < n * 1000 + rate
  BY DurationRoundsUp
<1>3. ms * rate < 128001 * rate
  BY <1>1, <1>2
<1>4. ms < 128001
  BY <1>3
<1>5. QED
  BY <1>2, <1>4, MusicConstants

(* One more hop: its duration is added to what lasted long enough.         *)
LEMMA HopLasts ==
  ASSUME NEW t \in Nat, NEW ms \in Nat, NEW rate \in Nat, NEW p \in Nat,
         NEW n \in Nat, NEW hops \in Int,
         t * rate >= p * 1000, t * rate <= p * 1000 + hops * rate,
         ms * rate >= n * 1000, ms * rate <= n * 1000 + rate
  PROVE  /\ (t + ms) * rate >= (p + n) * 1000
         /\ (t + ms) * rate <= (p + n) * 1000 + (hops + 1) * rate
<1>1. (t + ms) * rate = t * rate + ms * rate /\ (hops + 1) * rate = hops * rate + rate
  OBVIOUS
<1>2. PICK a \in Int, b \in Int, c \in Int :
        a = t * rate /\ b = ms * rate /\ c = hops * rate
  OBVIOUS
<1>3. QED
  BY <1>1, <1>2

-----------------------------------------------------------------------------
(* The turns of unsigned ints *)

LEMMA UIntModType == UIntMod \in Nat \ {0}
BY MusicConstants

LEMMA MoreTurns ==
  ASSUME NEW m \in Nat, NEW turns \in Nat, NEW more \in Nat
  PROVE  /\ turns * m \in Nat /\ more * m \in Nat
         /\ (turns + more) * m = turns * m + more * m
OBVIOUS

LEMMA DivMod ==
  ASSUME NEW t \in Nat, NEW m \in Nat \ {0}
  PROVE  \E q \in Nat, rest \in Nat : rest < m /\ rest = t % m /\ t = q * m + rest
<1>1. t % m \in 0..(m - 1)
  OBVIOUS
<1>2. PICK rest \in Nat : rest = t % m /\ rest < m
  BY <1>1
<1>3. PICK q \in Nat : q = t \div m
  OBVIOUS
<1>4. t = (t % m) + (t \div m) * m
  OBVIOUS
<1>5. t = q * m + rest
  BY <1>2, <1>3, <1>4
<1>6. QED
  BY <1>2, <1>5

LEMMA RestOfTurns ==
  ASSUME NEW k \in Nat, NEW m \in Nat, NEW rest \in Nat, rest < m
  PROVE  (k * m + rest) % m = rest
OBVIOUS

(* Whole turns do not show in what is left of them.                        *)
LEMMA TurnsVanish ==
  ASSUME NEW t \in Nat, NEW m \in Nat \ {0}, NEW turns \in Nat
  PROVE  /\ t + turns * m >= t
         /\ (t + turns * m) % m = t % m
<1>1. PICK q \in Nat, rest \in Nat : rest < m /\ rest = t % m /\ t = q * m + rest
  BY DivMod
<1>2. PICK k \in Nat : k = q + turns
  OBVIOUS
<1>3. t + turns * m = k * m + rest
  <2>1. (q + turns) * m = q * m + turns * m
    OBVIOUS
  <2>2. QED
    BY <1>1, <1>2, <2>1
<1>4. (k * m + rest) % m = rest
  BY <1>1, RestOfTurns, Zenon
<1>5. turns * m \in Nat
  OBVIOUS
<1>6. QED
  BY <1>1, <1>3, <1>4, <1>5

-----------------------------------------------------------------------------
(* Frames *)

(* A frame is one, two or four bytes, a sample of it one or two.           *)
LEMMA FrameType ==
  ASSUME NEW fmt \in WavFmt, Supported(fmt)
  PROVE  /\ FrameSize(fmt) \in {1, 2, 4} /\ fmt.channels \in {1, 2}
         /\ FrameSize(fmt) \div fmt.channels \in {1, 2}
         /\ FrameSize(fmt) >= FrameSize(fmt) \div fmt.channels
         /\ fmt.sample_rate \in Nat \ {0}
<1>1. PICK c \in {1, 2} : c = fmt.channels
  BY DEF Supported
<1>2. PICK b \in {1, 2} : fmt.bits_per_sample = 8 * b
  BY DEF Supported
<1>3. FrameSize(fmt) = c * b
  BY <1>1, <1>2 DEF FrameSize
<1>4. QED
  BY <1>1, <1>2, <1>3 DEF Supported, WavFmt

(* What is left of the data of the file and of the chunk.                  *)
LEMMA FramesFromIs ==
  ASSUME NEW fmt, NEW fs \in {1, 2, 4}, fs = FrameSize(fmt), NEW f,
         f.length \in Nat, NEW p \in Nat, NEW left \in Nat
  PROVE  LET a == IF left < f.length - p THEN left ELSE f.length - p
         IN FramesFrom(f, fmt, p, left) = (IF a < 0 THEN 0 ELSE a) \div fs
<1>1. PICK n \in Nat : n = f.length
  OBVIOUS
<1>2. PICK a \in Int : a = IF left < n - p THEN left ELSE n - p
  <2>1. (IF left < n - p THEN left ELSE n - p) \in Int
    OBVIOUS
  <2>2. QED
    BY <2>1
<1>3. Min({left, f.length - p}) = a
  BY <1>1, <1>2, MinOfTwo
<1>4. Max({0, Min({left, f.length - p})}) = IF a < 0 THEN 0 ELSE a
  BY <1>3, MaxOfTwo
<1>5. QED
  BY <1>1, <1>2, <1>4 DEF FramesFrom

LEMMA FramesType ==
  ASSUME NEW fmt \in WavFmt, Supported(fmt), NEW f, f.length \in Nat,
         NEW p \in Nat, NEW left \in Nat
  PROVE  FramesFrom(f, fmt, p, left) \in Nat
<1>1. PICK fs \in {1, 2, 4} : fs = FrameSize(fmt)
  BY FrameType
<1>2. PICK n \in Nat : n = f.length
  OBVIOUS
<1>3. PICK a \in Nat : a = IF (IF left < n - p THEN left ELSE n - p) < 0 THEN 0
                          ELSE (IF left < n - p THEN left ELSE n - p)
  OBVIOUS
<1>4. FramesFrom(f, fmt, p, left) = a \div fs
  BY <1>1, <1>2, <1>3, FramesFromIs
<1>5. QED
  BY <1>1, <1>3, <1>4

(* A read takes whole frames, at most as many as it is asked for, and what *)
(* it leaves is what it did not take; it takes fewer only when it leaves    *)
(* none.                                                                   *)
LEMMA ReadTakes ==
  ASSUME NEW fmt \in WavFmt, Supported(fmt), NEW f, f.length \in Nat,
         NEW p \in Nat, NEW max \in Nat, NEW left \in Nat
  PROVE  LET r == ReadSamples(f, fmt, p, max, left)
         IN /\ r.frames \in 0..max /\ r.pos \in Nat /\ r.remaining \in Nat
            /\ r.frames + FramesFrom(f, fmt, r.pos, r.remaining)
                 = FramesFrom(f, fmt, p, left)
            /\ r.frames < max => FramesFrom(f, fmt, r.pos, r.remaining) = 0
<1>1. PICK fs \in {1, 2, 4} : fs = FrameSize(fmt)
  BY FrameType
<1>2. PICK sample \in {1, 2} : sample = fs \div fmt.channels /\ sample <= fs
  BY <1>1, FrameType
<1>3. PICK n \in Nat : n = f.length
  OBVIOUS
<1>4. PICK a \in Int : a = IF left < n - p THEN left ELSE n - p
  <2>1. (IF left < n - p THEN left ELSE n - p) \in Int
    OBVIOUS
  <2>2. QED
    BY <2>1
<1>5. PICK all \in Nat : all = (IF a < 0 THEN 0 ELSE a) \div fs
  OBVIOUS
<1>6. FramesFrom(f, fmt, p, left) = all
  BY <1>1, <1>3, <1>4, <1>5, FramesFromIs
<1>7. PICK frames \in 0..max : frames = (IF max < all THEN max ELSE all)
  OBVIOUS
<1>8. Min({max, FramesFrom(f, fmt, p, left)}) = frames
  BY <1>6, <1>7, MinOfTwo
<1>9. PICK whole \in Nat : whole = left \div fs
  OBVIOUS
<1>10. Min({max, left \div FrameSize(fmt)}) = IF max < whole THEN max ELSE whole
  BY <1>1, <1>9, MinOfTwo
<1>11. PICK used \in Nat : used = frames * fs
  OBVIOUS
<1>12. PICK part \in Nat :
         part = (IF n - p - used < 0 THEN 0 ELSE n - p - used) \div sample
  OBVIOUS
<1>13. Max({0, f.length - p - used}) \div sample = part
  <2>1. Max({0, f.length - p - used}) = IF n - p - used < 0 THEN 0 ELSE n - p - used
    BY <1>3, MaxOfTwo
  <2>2. QED
    BY <1>12, <2>1
<1>14. PICK end \in Nat : end = (IF p < n THEN n ELSE p) /\ Max({p, f.length}) = end
  BY <1>3, MaxOfTwo
<1>15. CASE frames < (IF max < whole THEN max ELSE whole)
  <2>1. frames = all /\ max # 0 /\ all < whole
    BY <1>7, <1>15
  <2>6. used + part * sample <= left
    <3>1. CASE a < 0
      BY <1>2, <1>4, <1>5, <1>11, <1>12, <2>1, <3>1
    <3>2. CASE a >= 0
      BY <1>2, <1>4, <1>5, <1>9, <1>11, <1>12, <2>1, <3>2
    <3>3. QED
      BY <3>1, <3>2
  <2>7. PICK rest \in Nat : rest = left - used - part * sample
    BY <2>6
  <2>2. ReadSamples(f, fmt, p, max, left)
          = [frames |-> frames, pos |-> end, remaining |-> rest]
    BY <1>1, <1>2, <1>8, <1>10, <1>11, <1>13, <1>14, <1>15, <2>7 DEF ReadSamples
  <2>4. FramesFrom(f, fmt, end, rest) = 0
    BY <1>1, <1>3, <1>14, FramesFromIs
  <2>5. QED
    BY <1>6, <2>1, <2>2, <2>4
<1>16. CASE ~(frames < (IF max < whole THEN max ELSE whole))
  <2>1. PICK rest \in Nat : rest = left - used
    BY <1>4, <1>5, <1>7, <1>11
  <2>2. ReadSamples(f, fmt, p, max, left)
          = [frames |-> frames, pos |-> p + used, remaining |-> rest]
    BY <1>1, <1>8, <1>10, <1>11, <1>16, <2>1 DEF ReadSamples
  <2>3. FramesFrom(f, fmt, p + used, rest) = all - frames
    <3>1. PICK q \in Nat : q = p + used
      OBVIOUS
    <3>2. PICK b \in Int : b = a - used
      OBVIOUS
    <3>3. b = IF rest < n - q THEN rest ELSE n - q
      BY <1>4, <2>1, <3>1, <3>2
    <3>4. FramesFrom(f, fmt, q, rest) = (IF b < 0 THEN 0 ELSE b) \div fs
      BY <1>1, <1>3, <3>3, FramesFromIs
    <3>5. (IF b < 0 THEN 0 ELSE b) \div fs = all - frames
      <4>1. CASE a < 0
        BY <1>5, <1>7, <1>11, <3>2, <4>1
      <4>2. CASE a >= 0
        <5>1. all * fs <= a /\ a < all * fs + fs
          BY <1>5, <4>2
        <5>2. frames <= all /\ used <= a
          BY <1>7, <1>11, <5>1
        <5>3. fs = 1 => b \div fs = all - frames
          BY <1>5, <1>11, <3>2, <4>2
        <5>4. fs = 2 => b \div fs = all - frames
          BY <1>5, <1>11, <3>2, <4>2, <5>1
        <5>5. fs = 4 => b \div fs = all - frames
          BY <1>5, <1>11, <3>2, <4>2, <5>1
        <5>6. QED
          BY <3>2, <5>2, <5>3, <5>4, <5>5
      <4>3. QED
        BY <4>1, <4>2
    <3>6. QED
      BY <3>1, <3>4, <3>5
  <2>4. QED
    BY <1>6, <1>7, <2>2, <2>3
<1>17. QED
  BY <1>15, <1>16

-----------------------------------------------------------------------------
(* Notes *)

LEMMA NoteType ==
  /\ NoNote \notin Note
  /\ \A n \in Note : n \in Nat /\ Hz(n) \in Nat /\ Hz(n) > 0
  /\ Hz(NoNote) = 0
BY NotesAscend DEF Hz, NoNote

LEMMA DetectedType ==
  ASSUME NEW rate, NEW n \in Detections(rate)
  PROVE  n \in Note \cup {NoNote}
<1>1. PICK l \in BOOLEAN, score \in [Audible(rate) -> Score] :
        n = DetectNote(l, score, rate)
  BY DEF Detections
<1> DEFINE heards == {m \in Audible(rate) : score[m] >= MinScore}
           best == {m \in heards : \A k \in Audible(rate) : score[k] <= score[m]}
<1>2. best \in SUBSET Note /\ best \in SUBSET Nat
  BY NotesAscend DEF Audible
<1>3. n = IF l /\ best # {} THEN Min(best) ELSE NoNote
  BY <1>1 DEF DetectNote
<1> HIDE DEF best
<1>4. QED
  BY <1>2, <1>3, LeastIn

Tracker == [stable : Note \cup {NoNote}, missing : 0..HoldHops,
            pending : Note \cup {NoNote}, hops : Nat]

(* The tracker knows the last note heard and how long ago that was.        *)
Follows(t, h, g) ==
  IF t.stable = NoNote THEN h = NoNote \/ g > HoldHops
  ELSE h # NoNote /\ g = t.missing /\ AreClose(Hz(h), Hz(t.stable))

LEMMA PlayingType ==
  ASSUME NEW n \in Note \cup {NoNote}, NEW k \in 0..HoldHops
  PROVE  /\ Playing(n, k) \in Tracker
         /\ Playing(n, k).stable = n /\ Playing(n, k).missing = k
BY DEF Playing, Tracker

LEMMA CloseToItself == \A n \in Note : AreClose(Hz(n), Hz(n))
<1> SUFFICES ASSUME NEW n \in Note PROVE AreClose(Hz(n), Hz(n))
  OBVIOUS
<1>1. PICK h \in Nat : h = Hz(n) /\ h > 0
  BY NoteType
<1>2. AreClose(h, h)
  BY <1>1 DEF AreClose, JitterPercent
<1>3. QED
  BY <1>1, <1>2

(* One update keeps this, whatever is detected.                            *)
LEMMA UpdateFollows ==
  ASSUME NEW t \in Tracker, NEW n \in Note \cup {NoNote},
         NEW h \in Note \cup {NoNote}, NEW g \in Nat, Follows(t, h, g)
  PROVE  /\ Update(t, n) \in Tracker
         /\ Follows(Update(t, n), IF n = NoNote THEN h ELSE n,
                    IF n = NoNote THEN g + 1 ELSE 0)
<1>0. /\ t.stable \in Note \cup {NoNote} /\ t.missing \in 0..HoldHops
      /\ t.hops \in Nat /\ 0 \in 0..HoldHops
  BY DEF Tracker, HoldHops
<1>1. CASE n = NoNote /\ t.stable # NoNote /\ t.missing < HoldHops
  <2>1. Update(t, n) = Playing(t.stable, t.missing + 1)
    BY <1>1 DEF Update, HoldOrSilence
  <2>2. t.missing + 1 \in 0..HoldHops
    BY <1>0, <1>1 DEF HoldHops
  <2>3. QED
    BY <1>0, <1>1, <2>1, <2>2, PlayingType DEF Follows
<1>2. CASE n = NoNote /\ ~(t.stable # NoNote /\ t.missing < HoldHops)
  <2>1. Update(t, n) = Playing(NoNote, 0)
    BY <1>2 DEF Update, HoldOrSilence
  <2>2. h = NoNote \/ g + 1 > HoldHops
    BY <1>0, <1>2 DEF Follows, HoldHops
  <2>3. QED
    BY <1>0, <1>2, <2>1, <2>2, PlayingType DEF Follows
<1>3. CASE n # NoNote /\ t.stable # NoNote
             /\ (n = t.stable \/ AreClose(Hz(n), Hz(t.stable)))
  <2>1. Update(t, n) = Playing(t.stable, 0)
    BY <1>3 DEF Update, Keep
  <2>2. AreClose(Hz(n), Hz(t.stable))
    BY <1>3, CloseToItself
  <2>3. QED
    BY <1>0, <1>3, <2>1, <2>2, PlayingType DEF Follows
<1>4. CASE n # NoNote /\ ~(t.stable # NoNote
             /\ (n = t.stable \/ AreClose(Hz(n), Hz(t.stable))))
  <2>1. Update(t, n) = Confirm(t, n)
    BY <1>4 DEF Update
  <2>2. (IF n = t.pending THEN t.hops + 1 ELSE 1) >= ConfirmHops
    BY <1>0 DEF ConfirmHops
  <2>3. Update(t, n) = Playing(n, 0)
    BY <2>1, <2>2 DEF Confirm
  <2>4. QED
    BY <1>0, <1>4, <2>3, PlayingType, CloseToItself DEF Follows
<1>5. QED
  BY <1>1, <1>2, <1>3, <1>4

-----------------------------------------------------------------------------
(* Chunks *)

(* A file's fields.                                                        *)
LEMMA FileType ==
  ASSUME NEW f \in WavFile
  PROVE  /\ f.riff \in BOOLEAN /\ f.length \in Nat /\ f.chunks \in Seq(WavChunk)
         /\ Len(f.chunks) \in Nat /\ f.start[1] = RiffSize
         /\ DOMAIN f.start = 1..(Len(f.chunks) + 1)
         /\ \A i \in 1..(Len(f.chunks) + 1) : f.start[i] \in Nat
         /\ \A i \in 1..Len(f.chunks) :
              /\ f.chunks[i] \in WavChunk /\ f.chunks[i].size \in Nat
              /\ f.chunks[i].size % 2 \in Nat
              /\ f.start[i + 1] = f.start[i] + HeaderSize + f.chunks[i].size
                                  + (f.chunks[i].size % 2)
         /\ f.length <= f.start[Len(f.chunks) + 1]
<1>1. IsWavFile(f)
  BY MusicConstants
<1>2. f.chunks \in Seq(WavChunk) /\ Len(f.chunks) \in Nat
  BY <1>1 DEF IsWavFile
<1>3. \A c \in WavChunk : c.size \in Nat /\ c.size % 2 \in Nat
  BY DEF WavChunk
<1>4. \A i \in 1..Len(f.chunks) : f.chunks[i] \in WavChunk
  BY <1>2
<1>5. /\ f.riff \in BOOLEAN /\ f.length \in Nat /\ f.start[1] = RiffSize
      /\ f.start \in [1..(Len(f.chunks) + 1) -> Nat]
      /\ f.length <= f.start[Len(f.chunks) + 1]
  BY <1>1 DEF IsWavFile
<1>6. \A i \in 1..Len(f.chunks) :
        f.start[i + 1] = f.start[i] + HeaderSize + f.chunks[i].size
                         + (f.chunks[i].size % 2)
  BY <1>1, <1>2 DEF IsWavFile
<1>7. QED
  BY <1>2, <1>3, <1>4, <1>5, <1>6

LEMMA LengthType ==
  ASSUME NEW f \in WavFile
  PROVE  /\ Len(f.chunks) \in Nat /\ DOMAIN f.chunks = 1..Len(f.chunks)
         /\ f.length \in Nat
BY MusicConstants DEF IsWavFile

LEMMA Starts ==
  ASSUME NEW f \in WavFile, NEW i \in 1..(Len(f.chunks) + 1)
  PROVE  \E z \in Nat : z = f.start[i]
BY FileType

LEMMA NextChunk ==
  ASSUME NEW f \in WavFile, NEW i \in 1..Len(f.chunks)
  PROVE  \E a \in Nat, b \in Nat, s \in Nat, r \in Nat :
           /\ a = f.start[i] /\ b = f.start[i + 1] /\ s = f.chunks[i].size
           /\ r = s % 2 /\ b = a + HeaderSize + s + r
<1>1. i \in 1..(Len(f.chunks) + 1) /\ i + 1 \in 1..(Len(f.chunks) + 1)
  BY FileType
<1>2. f.start[i] \in Nat /\ f.start[i + 1] \in Nat
  BY <1>1, FileType
<1>3. f.chunks[i].size \in Nat /\ f.chunks[i].size % 2 \in Nat
  BY FileType
<1>4. f.start[i + 1] = f.start[i] + HeaderSize + f.chunks[i].size
                      + (f.chunks[i].size % 2)
  BY FileType
<1>5. QED
  BY <1>2, <1>3, <1>4, Zenon

(* The chunks of a file follow each other.                                 *)
LEMMA LayoutRises ==
  ASSUME NEW f \in WavFile, NEW i \in 1..(Len(f.chunks) + 1),
         NEW j \in i..(Len(f.chunks) + 1)
  PROVE  f.start[i] <= f.start[j]
<1> DEFINE T == {k \in Nat : k \in i..(Len(f.chunks) + 1) /\ ~(f.start[i] <= f.start[k])}
<1>0. Len(f.chunks) \in Nat
  BY FileType
<1>1. SUFFICES ASSUME T # {} PROVE FALSE
  BY <1>0
<1>2. PICK m \in T : \A y \in T : m <= y
  <2>1. T \in SUBSET Nat
    OBVIOUS
  <2> HIDE DEF T
  <2>2. QED
    BY <1>1, <2>1, LeastIn
<1>3. m # i
  BY FileType
<1>4. m - 1 \in i..(Len(f.chunks) + 1) /\ m - 1 \in 1..Len(f.chunks) /\ m - 1 \in Nat
  BY <1>0, <1>3
<1>5. f.start[i] <= f.start[m - 1]
  BY <1>2, <1>4
<1>6. PICK k \in 1..Len(f.chunks) : k = m - 1
  BY <1>4
<1>7. k + 1 = m
  BY <1>0, <1>6
<1>8. PICK a \in Nat, b \in Nat, s \in Nat, r \in Nat :
        /\ a = f.start[k] /\ b = f.start[k + 1] /\ s = f.chunks[k].size
        /\ r = s % 2 /\ b = a + HeaderSize + s + r
  BY NextChunk
<1>9. PICK z \in Nat : z = f.start[i]
  BY Starts
<1>10. z <= a /\ a <= b
  <2>1. z <= a
    BY <1>5, <1>6, <1>8, <1>9
  <2>2. b = a + HeaderSize + s + r
    BY <1>8
  <2>3. a <= b
    BY <2>2 DEF HeaderSize
  <2>4. QED
    BY <2>1, <2>3
<1>11. b = f.start[m]
  BY <1>7, <1>8
<1>12. f.start[i] <= f.start[m]
  BY <1>9, <1>10, <1>11
<1>13. QED
  BY <1>12

(* A chunk's payload is over before the next chunk begins.                 *)
LEMMA ChunksApart ==
  ASSUME NEW f \in WavFile, NEW i \in 1..Len(f.chunks),
         NEW j \in (i + 1)..(Len(f.chunks) + 1)
  PROVE  f.start[i] + HeaderSize + f.chunks[i].size <= f.start[j]
<1>1. i + 1 \in 1..(Len(f.chunks) + 1) /\ j \in 1..(Len(f.chunks) + 1)
  BY FileType
<1>2. f.start[i + 1] <= f.start[j]
  BY <1>1, LayoutRises
<1>3. PICK z \in Nat : z = f.start[j]
  BY <1>1, Starts
<1>4. PICK a \in Nat, b \in Nat, s \in Nat, r \in Nat :
        /\ a = f.start[i] /\ b = f.start[i + 1] /\ s = f.chunks[i].size
        /\ r = s % 2 /\ b = a + HeaderSize + s + r
  BY NextChunk
<1>5. b <= z /\ b = a + HeaderSize + s + r
  BY <1>2, <1>3, <1>4
<1>6. a + HeaderSize + s <= z
  BY <1>5 DEF HeaderSize
<1>7. QED
  BY <1>3, <1>4, <1>6

(* At the start of a chunk read_chunk_header sees that chunk, if it is     *)
(* there.                                                                  *)
LEMMA HeadersHere ==
  ASSUME NEW f \in WavFile, NEW k \in 1..(Len(f.chunks) + 1), NEW stray,
         NEW c \in HeadersAt(f, f.start[k], stray)
  PROVE  k \in 1..Len(f.chunks) /\ c = f.chunks[k]
         /\ f.start[k] + HeaderSize <= f.length
<1>1. f.start[k] + HeaderSize <= f.length
  BY FileType DEF HeadersAt, HeaderSize
<1>2. k \in 1..Len(f.chunks)
  BY <1>1, FileType DEF HeaderSize
<1> DEFINE here == {i \in DOMAIN f.chunks : f.start[i] = f.start[k]}
<1>3. \A i \in here : i = k
  <2>1. Len(f.chunks) \in Nat /\ DOMAIN f.chunks = 1..Len(f.chunks)
    BY FileType
  <2>2. ASSUME NEW i \in 1..Len(f.chunks), NEW j \in (i + 1)..Len(f.chunks)
        PROVE  f.start[i] # f.start[j]
    <3>0. j \in (i + 1)..(Len(f.chunks) + 1)
      BY <2>1
    <3>1. f.start[i] + HeaderSize + f.chunks[i].size <= f.start[j]
      BY <3>0, ChunksApart
    <3>2. PICK a \in Nat, q \in Nat, s \in Nat, r \in Nat :
            /\ a = f.start[i] /\ q = f.start[i + 1] /\ s = f.chunks[i].size
            /\ r = s % 2 /\ q = a + HeaderSize + s + r
      BY NextChunk
    <3>3. PICK b \in Nat : b = f.start[j]
      BY <2>1, Starts
    <3>4. a + HeaderSize + s <= b
      BY <3>1, <3>2, <3>3
    <3>6. a # b
      BY <3>4 DEF HeaderSize
    <3>5. QED
      BY <3>2, <3>3, <3>6
  <2>3. QED
    BY <2>1, <2>2, <1>2
<1>4. k \in here
  BY <1>2, FileType
<1>5. c \in {f.chunks[i] : i \in here}
  BY <1>1, <1>4, FileType DEF HeadersAt, HeaderSize
<1>6. QED
  BY <1>1, <1>2, <1>3, <1>5

LEMMA HeaderType ==
  ASSUME NEW f \in WavFile, NEW p, NEW c \in HeadersAt(f, p, StrayHeader)
  PROVE  c \in WavChunk /\ c.size \in Nat /\ c.fmt \in WavFmt
         /\ c.id \in {"fmt", "data", "other"}
<1>1. c \in WavChunk
  BY FileType, MusicConstants DEF HeadersAt
<1>2. QED
  BY <1>1 DEF WavChunk

(* The format that counts is that of the last fmt chunk.                   *)
LEMMA FmtsNext ==
  ASSUME NEW f \in WavFile, NEW k \in 1..Len(f.chunks)
  PROVE  /\ f.chunks[k].id # "fmt" => FmtsBefore(f, k + 1) = FmtsBefore(f, k)
         /\ f.chunks[k].id = "fmt" => /\ k \in FmtsBefore(f, k + 1)
                                     /\ Max(FmtsBefore(f, k + 1)) = k
<1>1. FmtsBefore(f, k + 1) = {i \in 1..k : f.chunks[i].id = "fmt"}
  BY FileType DEF FmtsBefore
<1>2. FmtsBefore(f, k) = {i \in 1..k : i # k /\ f.chunks[i].id = "fmt"}
  BY FileType DEF FmtsBefore
<1>3. ASSUME f.chunks[k].id = "fmt" PROVE Max(FmtsBefore(f, k + 1)) = k
  <2>0. k \in Nat /\ k >= 1
    BY LengthType
  <2>1. k \in FmtsBefore(f, k + 1) /\ \A i \in FmtsBefore(f, k + 1) : k >= i
    BY <1>1, <1>3, <2>0
  <2>2. \A x \in FmtsBefore(f, k + 1) :
          (\A y \in FmtsBefore(f, k + 1) : x >= y) => x = k
    BY <1>1, <2>0, <2>1
  <2>3. QED
    BY <2>1, <2>2 DEF Max
<1>4. QED
  BY <1>1, <1>2, <1>3

(* The first data chunk is one, and none is before it.                     *)
LEMMA FirstDataIs ==
  ASSUME NEW f \in WavFile, HasData(f)
  PROVE  /\ FirstData(f) \in 1..Len(f.chunks)
         /\ f.chunks[FirstData(f)].id = "data"
         /\ \A i \in 1..Len(f.chunks) : f.chunks[i].id = "data" => FirstData(f) <= i
<1> DEFINE D == {i \in DOMAIN f.chunks : f.chunks[i].id = "data"}
<1>1. DOMAIN f.chunks = 1..Len(f.chunks) /\ Len(f.chunks) \in Nat
  BY FileType
<1>2. D \in SUBSET Nat /\ D # {}
  BY <1>1 DEF HasData
<1>3. FirstData(f) = Min(D)
  BY DEF FirstData
<1>4. FirstData(f) \in D /\ \A y \in D : FirstData(f) <= y
  <2> HIDE DEF D
  <2>1. QED
    BY <1>2, <1>3, LeastIn
<1>5. QED
  BY <1>1, <1>4

(* A file that can be played holds its first twelve bytes.                 *)
LEMMA PlayableIsLong ==
  ASSUME NEW f \in WavFile, IsPlayable(f)
  PROVE  f.riff /\ f.length >= RiffSize
<1>1. HasData(f)
  BY DEF IsPlayable
<1>2. PICK d \in 1..Len(f.chunks) : d = FirstData(f)
  BY <1>1, FirstDataIs
<1>3. PICK one \in 1..(Len(f.chunks) + 1) : one = 1 /\ d \in one..(Len(f.chunks) + 1)
  BY FileType
<1>4. f.start[one] = RiffSize /\ f.start[one] <= f.start[d]
  BY <1>3, FileType, LayoutRises
<1>5. PICK z \in Nat : z = f.start[d]
  BY <1>3, Starts
<1>6. z + HeaderSize <= f.length
  BY <1>2, <1>5 DEF IsPlayable
<1>7. RiffSize <= z
  BY <1>4, <1>5
<1>8. f.length \in Nat
  BY FileType
<1>9. QED
  BY <1>6, <1>7, <1>8 DEF IsPlayable, HeaderSize, RiffSize

-----------------------------------------------------------------------------
(* The header *)

(* The chunks before the k-th of a file with no odd fmt chunk were read;   *)
(* what the file means is then a matter of the others.                     *)
LEMMA ReadUpToPlayable ==
  ASSUME TypeOK, NEW k \in 1..(Len(file.chunks) + 1), ReadUpTo(k), IsPlayable(file)
  PROVE  /\ HasData(file) /\ FirstData(file) \in k..Len(file.chunks)
         /\ pos + HeaderSize <= file.length
         /\ \A i \in 1..Len(file.chunks) :
              i >= k /\ i < FirstData(file) =>
                file.start[i] + HeaderSize + file.chunks[i].size <= file.length
<1>1. file \in WavFile /\ HasData(file) /\ pos = file.start[k]
  <2>1. file \in WavFile
    BY DEF TypeOK
  <2>2. HasData(file)
    BY DEF IsPlayable
  <2>3. pos = file.start[k]
    BY DEF ReadUpTo
  <2>4. QED
    BY <2>1, <2>2, <2>3
<1>2. PICK d \in 1..Len(file.chunks) : d = FirstData(file) /\ file.chunks[d].id = "data"
  BY <1>1, FirstDataIs
<1>3. PICK n \in Nat : n = Len(file.chunks)
  BY <1>1, FileType
<1>4. ~(d < k)
  BY <1>2, <1>3 DEF ReadUpTo
<1>5. d \in k..Len(file.chunks) /\ d \in k..(Len(file.chunks) + 1)
  BY <1>2, <1>3, <1>4
<1>6. PICK z \in Nat : z = file.start[d]
  BY <1>1, <1>2, <1>3, Starts
<1>7. PICK l \in Nat : l = file.length
  BY <1>1, FileType
<1>8. z + HeaderSize <= l
  BY <1>2, <1>6, <1>7 DEF IsPlayable
<1>9. pos + HeaderSize <= file.length
  <2>1. PICK a \in Nat : a = file.start[k]
    BY <1>1, Starts
  <2>2. a <= z
    BY <1>1, <1>5, <1>6, <2>1, LayoutRises
  <2>3. a + HeaderSize <= l
    BY <1>8, <2>2 DEF HeaderSize
  <2>4. QED
    BY <1>1, <1>7, <2>1, <2>3
<1>10. ASSUME NEW i \in 1..Len(file.chunks), i >= k, i < d
       PROVE  file.start[i] + HeaderSize + file.chunks[i].size <= file.length
  <2>1. d \in (i + 1)..(Len(file.chunks) + 1)
    BY <1>2, <1>3, <1>10
  <2>2. file.start[i] + HeaderSize + file.chunks[i].size <= z
    BY <1>1, <1>6, <2>1, ChunksApart
  <2>3. PICK a \in Nat, s \in Nat :
          a = file.start[i] /\ s = file.chunks[i].size
    <3>1. file.start[i] \in Nat /\ file.chunks[i].size \in Nat
      BY <1>1, <1>3, FileType
    <3>2. QED
      BY <3>1
  <2>4. a + HeaderSize + s <= z
    BY <2>2, <2>3
  <2>5. a + HeaderSize + s <= l
    BY <1>8, <2>4 DEF HeaderSize
  <2>6. QED
    BY <1>7, <2>3, <2>5
<1>11. QED
  BY <1>1, <1>2, <1>5, <1>9, <1>10

(* A step that reads on: the next chunk is the (k + 1)-th.                 *)
LEMMA ReadsOn ==
  ASSUME TypeOK, NEW k \in 1..Len(file.chunks), ReadUpTo(k), file' = file,
         pos' = file.start[k + 1], file.chunks[k].id # "data",
         IF file.chunks[k].id = "fmt"
         THEN /\ file.chunks[k].size >= FmtSize /\ info'.hasFmt
              /\ info'.fmt = file.chunks[k].fmt
         ELSE info' = info
  PROVE  \E j \in DOMAIN file.start : ReadUpTo(j)'
<1>1. file \in WavFile
  BY DEF TypeOK
<1>2. PICK n \in Nat : n = Len(file.chunks)
  BY <1>1, FileType
<1>3. PICK j \in 1..(n + 1) : j = k + 1
  BY <1>2
<1>4. DOMAIN file.start = 1..(n + 1)
  BY <1>1, <1>2, FileType
<1>5. ASSUME NEW i \in 1..(j - 1)
      PROVE  /\ file.chunks[i].id # "data"
             /\ file.chunks[i].id = "fmt" => file.chunks[i].size >= FmtSize
  <2>1. CASE i = k
    BY <2>1
  <2>2. CASE i # k
    <3>1. i \in 1..(k - 1)
      BY <1>2, <1>3, <2>2
    <3>2. QED
      BY <3>1 DEF ReadUpTo
  <2>3. QED
    BY <2>1, <2>2
<1>6. /\ info'.hasFmt <=> FmtsBefore(file, j) # {}
      /\ info'.hasFmt => info'.fmt = file.chunks[Max(FmtsBefore(file, j))].fmt
  <2>1. CASE file.chunks[k].id = "fmt"
    <3>1. k \in FmtsBefore(file, j) /\ Max(FmtsBefore(file, j)) = k
      BY <1>1, <1>3, <2>1, FmtsNext
    <3>2. QED
      BY <2>1, <3>1
  <2>2. CASE file.chunks[k].id # "fmt"
    <3>1. FmtsBefore(file, j) = FmtsBefore(file, k)
      BY <1>1, <1>3, <2>2, FmtsNext
    <3>2. QED
      BY <2>2, <3>1 DEF ReadUpTo
  <2>3. QED
    BY <2>1, <2>2
<1>7. ReadUpTo(j)'
  BY <1>3, <1>5, <1>6 DEF ReadUpTo
<1>8. QED
  BY <1>3, <1>4, <1>7

(* Where the payload of a chunk and its pad end.                           *)
LEMMA AfterChunk ==
  ASSUME NEW f \in WavFile, NEW k \in 1..Len(f.chunks)
  PROVE  /\ f.start[k] + HeaderSize + Padded(f.chunks[k].size) = f.start[k + 1]
         /\ f.chunks[k].size >= FmtSize
              /\ ~(f.chunks[k].size > FmtSize /\ f.chunks[k].size % 2 = 1)
              => AfterFmt(f.start[k], f.chunks[k].size) = f.start[k + 1]
<1>1. PICK a \in Nat, b \in Nat, s \in Nat, r \in Nat :
        /\ a = f.start[k] /\ b = f.start[k + 1] /\ s = f.chunks[k].size
        /\ r = s % 2 /\ b = a + HeaderSize + s + r
  BY NextChunk
<1>2. b = a + 8 + s + r
  BY <1>1 DEF HeaderSize
<1>3. a + HeaderSize + Padded(s) = b
  <2>1. Padded(s) = s + r
    BY <1>1 DEF Padded
  <2>2. QED
    BY <1>2, <2>1 DEF HeaderSize
<1>4. ASSUME s >= FmtSize, ~(s > FmtSize /\ s % 2 = 1)
      PROVE  AfterFmt(a, s) = b
  <2>1. s >= 16 /\ (s = 16 \/ s % 2 = 0)
    BY <1>4 DEF FmtSize
  <2>2. CASE s = 16
    BY <1>1, <1>2, <2>2 DEF AfterFmt, HeaderSize, FmtSize
  <2>3. CASE s # 16
    <3>1. s > 16 /\ s % 2 = 0 /\ (s - 16) % 2 = 0
      BY <2>1, <2>3
    <3>2. Padded(s - 16) = s - 16
      BY <3>1 DEF Padded
    <3>3. PICK q \in Nat : q = s - 16
      BY <3>1
    <3>4. AfterFmt(a, s) = a + 8 + 16 + q + 0
      BY <3>1, <3>2, <3>3 DEF AfterFmt, HeaderSize, FmtSize
    <3>5. r = 0
      BY <1>1, <3>1
    <3>6. QED
      BY <1>2, <3>1, <3>3, <3>4, <3>5
  <2>4. QED
    BY <2>2, <2>3
<1>5. QED
  BY <1>1, <1>3, <1>4

(* A chunk of data behind chunks that are none is the first one.           *)
LEMMA FirstDataHere ==
  ASSUME TypeOK, NEW k \in 1..Len(file.chunks), ReadUpTo(k),
         file.chunks[k].id = "data"
  PROVE  HasData(file) /\ FirstData(file) = k
<1>1. file \in WavFile
  BY DEF TypeOK
<1>2. PICK n \in Nat : n = Len(file.chunks) /\ DOMAIN file.chunks = 1..n
  BY <1>1, FileType
<1>3. HasData(file)
  BY <1>2 DEF HasData
<1>4. PICK d \in 1..n : d = FirstData(file) /\ file.chunks[d].id = "data" /\ d <= k
  BY <1>1, <1>2, <1>3, FirstDataIs
<1>5. ~(d < k)
  BY <1>2, <1>4 DEF ReadUpTo
<1>6. QED
  BY <1>2, <1>3, <1>4, <1>5

-----------------------------------------------------------------------------
(* Each step keeps the invariant.                                          *)

LEMMA InitIInv == Init => IInv
<1> SUFFICES ASSUME Init PROVE IInv
  OBVIOUS
<1>1. file \in WavFile /\ file.riff \in BOOLEAN
  BY FileType DEF Init
<1>2. NoFmt \in WavFmt
  BY DEF NoFmt, WavFmt
<1>3. PICK w \in Nat : w = WindowSamples(Rate) /\ 768 <= w
  <2>1. Rate = 0
    BY DEF Init, NoFmt, Rate
  <2>2. QED
    BY <2>1, WindowType
<1>4. NewTracker \in Tracker /\ NewTracker.stable = NoNote
  BY PlayingType DEF NewTracker, HoldHops
<1>5. melody \in Seq(BuzzerNote) /\ Len(melody) = 0
  BY DEF Init
<1>6. TypeOK
  <2>1. info \in [fmt : WavFmt, hasFmt : BOOLEAN, offset : Nat, size : Nat]
    BY <1>2 DEF Init
  <2>2. active \in 0..4096 /\ active <= WindowSamples(Rate)
    BY <1>3 DEF Init
  <2>3. /\ melody \in Seq(BuzzerNote) /\ capacity \in Nat
        /\ Len(melody) <= capacity
    BY <1>5 DEF Init
  <2>4. QED
    <3>1. /\ pc \in Pcs /\ result = "NONE" /\ pos \in Nat /\ remaining \in Nat
          /\ played \in Nat /\ gap \in Nat /\ stop_requested \in BOOLEAN
      BY DEF Init, Pcs
    <3>2. tracker \in Tracker /\ heard \in Note \cup {NoNote}
      BY <1>4 DEF Init
    <3>3. QED
      BY <1>1, <2>1, <2>2, <2>3, <3>1, <3>2 DEF TypeOK, Tracker
<1>7. HeaderInv
  BY DEF Init, HeaderInv
<1>8. HeaderMatchesReference
  BY DEF Init, HeaderMatchesReference
<1>9. MelodyCoversMusic /\ WindowInv
  BY DEF Init, MelodyCoversMusic, WindowInv
<1>10. TrackInv /\ GapsBridged
  BY <1>4 DEF Init, TrackInv, GapsBridged
<1>11. QED
  BY <1>6, <1>7, <1>8, <1>9, <1>10 DEF IInv

LEMMA OpenFailsKeeps == IInv /\ OpenFails => IInv'
<1> SUFFICES ASSUME IInv, OpenFails PROVE IInv'
  OBVIOUS
<1> USE DEF OpenFails, Return, header, samples, music
<1>1. TypeOK'
  BY DEF IInv, TypeOK, Pcs, Rate
<1>2. HeaderInv'
  BY DEF IInv, HeaderInv
<1>3. HeaderMatchesReference'
  BY DEF IInv, HeaderMatchesReference
<1>4. MelodyCoversMusic' /\ WindowInv'
  BY DEF IInv, MelodyCoversMusic, WindowInv
<1>5. TrackInv' /\ GapsBridged'
  BY DEF IInv, TrackInv, GapsBridged
<1>6. QED
  BY <1>1, <1>2, <1>3, <1>4, <1>5 DEF IInv

LEMMA ReadRiffKeeps == IInv /\ ReadRiff => IInv'
<1> SUFFICES ASSUME IInv, ReadRiff PROVE IInv'
  OBVIOUS
<1>0. /\ file \in WavFile /\ file' = file /\ info' = info /\ melody' = melody
      /\ active' = active /\ played' = played
      /\ pc = "open" /\ result = "NONE"
  BY DEF IInv, TypeOK, HeaderInv, ReadRiff, samples, music
<1>1. TypeOK'
  BY DEF IInv, TypeOK, Pcs, Rate, RiffSize, ReadRiff, Return, samples, music
<1>2. TrackInv' /\ GapsBridged'
  BY DEF IInv, TrackInv, GapsBridged, ReadRiff, Return, music
<1>3. CASE file.riff /\ file.length >= RiffSize
  <2>1. pc' = "header" /\ pos' = RiffSize /\ result' = "NONE"
    BY <1>0, <1>3 DEF ReadRiff
  <2>2. \E k \in DOMAIN file.start : ReadUpTo(k)'
    <3>1. PICK k \in Nat : k = 1
      OBVIOUS
    <3>2. k \in DOMAIN file.start /\ file.start[k] = RiffSize
      BY <1>0, <3>1, FileType
    <3>3. 1..(k - 1) = {}
      BY <3>1
    <3>4. ~info.hasFmt
      BY <1>0 DEF IInv, HeaderInv
    <3>5. QED
      BY <1>0, <2>1, <3>2, <3>3, <3>4 DEF ReadUpTo, FmtsBefore
  <2>3. HeaderInv'
    BY <1>0, <1>3, <2>1, <2>2 DEF IInv, HeaderInv
  <2>4. HeaderMatchesReference' /\ MelodyCoversMusic' /\ WindowInv'
    BY <2>1 DEF HeaderMatchesReference, MelodyCoversMusic, WindowInv
  <2>5. QED
    BY <1>1, <1>2, <2>3, <2>4 DEF IInv
<1>4. CASE ~(file.riff /\ file.length >= RiffSize)
  <2>1. pc' = "done" /\ result' = "INVALID_VALUE"
    BY <1>0, <1>4 DEF ReadRiff, Return
  <2>2. ~IsPlayable(file)
    BY <1>0, <1>4, PlayableIsLong
  <2>3. HeaderInv' /\ MelodyCoversMusic' /\ WindowInv'
    BY <2>1 DEF HeaderInv, MelodyCoversMusic, WindowInv
  <2>4. HeaderMatchesReference'
    BY <1>0, <2>1, <2>2 DEF HeaderMatchesReference
  <2>5. QED
    BY <1>1, <1>2, <2>3, <2>4 DEF IInv
<1>5. QED
  BY <1>3, <1>4

(* The call gives the file up.                                             *)
LEMMA GivenUp ==
  ASSUME IInv, pc' = "done", result' = "INVALID_VALUE",
         UNCHANGED <<header, samples, music, stop_requested>>,
         ~HasOddFmt(file) => ~IsPlayable(file)
  PROVE  IInv'
<1> USE DEF header, samples, music
<1>1. TypeOK'
  BY DEF IInv, TypeOK, Pcs, Rate
<1>2. HeaderInv' /\ MelodyCoversMusic' /\ WindowInv'
  BY DEF HeaderInv, MelodyCoversMusic, WindowInv
<1>3. HeaderMatchesReference'
  BY DEF HeaderMatchesReference
<1>4. TrackInv' /\ GapsBridged'
  BY DEF IInv, TrackInv, GapsBridged
<1>5. QED
  BY <1>1, <1>2, <1>3, <1>4 DEF IInv

LEMMA NoHeaderKeeps == IInv /\ NoHeader => IInv'
<1> SUFFICES ASSUME IInv, NoHeader, ~HasOddFmt(file), IsPlayable(file)
             PROVE  FALSE
  BY GivenUp DEF NoHeader, Return
<1>1. file \in WavFile /\ TypeOK
  BY DEF IInv, TypeOK
<1>2. PICK k \in 1..(Len(file.chunks) + 1) : ReadUpTo(k)
  BY <1>1, FileType DEF IInv, HeaderInv, NoHeader
<1>3. FirstData(file) \in k..Len(file.chunks) /\ pos + HeaderSize <= file.length
  BY <1>1, <1>2, ReadUpToPlayable
<1>4. k \in 1..Len(file.chunks)
  BY <1>1, <1>2, <1>3, LengthType
<1>5. k \in {i \in DOMAIN file.chunks : file.start[i] = pos}
  BY <1>1, <1>2, <1>4, FileType DEF ReadUpTo
<1>6. file.chunks[k] \in HeadersAt(file, pos, StrayHeader)
  <2>1. ~(pos + HeaderSize > file.length)
    <3>1. pos \in Nat /\ file.length \in Nat
      BY <1>1, LengthType DEF TypeOK
    <3>2. QED
      BY <1>3, <3>1 DEF HeaderSize
  <2>2. QED
    BY <1>5, <2>1 DEF HeadersAt
<1>7. QED
  BY <1>6 DEF NoHeader, Headers

(* In a file without an odd fmt chunk it is a chunk that is read.          *)
LEMMA ChunkRead ==
  ASSUME IInv, pc = "header", ~HasOddFmt(file), NEW c \in Headers
  PROVE  \E k \in 1..Len(file.chunks) :
           ReadUpTo(k) /\ c = file.chunks[k] /\ pos + HeaderSize <= file.length
<1>1. file \in WavFile
  BY DEF IInv, TypeOK
<1>2. PICK k \in 1..(Len(file.chunks) + 1) : ReadUpTo(k)
  BY <1>1, FileType DEF IInv, HeaderInv
<1>3. pos = file.start[k]
  BY <1>2 DEF ReadUpTo
<1>4. c \in HeadersAt(file, file.start[k], StrayHeader)
  BY <1>3 DEF Headers
<1>5. k \in 1..Len(file.chunks) /\ c = file.chunks[k]
  BY <1>1, <1>4, HeadersHere
<1>6. file.start[k] + HeaderSize <= file.length
  BY <1>1, <1>4, HeadersHere
<1>7. QED
  BY <1>2, <1>3, <1>5, <1>6

LEMMA OtherChunkKeeps == IInv /\ OtherChunk => IInv'
<1> SUFFICES ASSUME IInv, OtherChunk PROVE IInv'
  OBVIOUS
<1> USE DEF samples, music
<1>1. PICK c \in Headers : c.id = "other" /\ pos' = pos + HeaderSize + Padded(c.size)
  BY DEF OtherChunk
<1>2. /\ pc = "header" /\ pc' = pc /\ result' = "NONE" /\ file' = file
      /\ info' = info /\ TypeOK /\ file \in WavFile
  BY DEF OtherChunk, IInv, HeaderInv, TypeOK
<1>3. pos' \in Nat
  <2>1. c.size \in Nat
    BY <1>1, <1>2, HeaderType DEF Headers
  <2>2. QED
    <3>1. PICK s \in Nat, p \in Nat, r \in Nat : s = c.size /\ p = pos /\ r = s % 2
      BY <1>2, <2>1 DEF TypeOK
    <3>2. pos' = p + 8 + (s + r)
      BY <1>1, <3>1 DEF HeaderSize, Padded
    <3>3. QED
      BY <3>2
<1>4. TypeOK'
  BY <1>3 DEF IInv, TypeOK, Rate, OtherChunk
<1>5. ASSUME ~HasOddFmt(file) PROVE file.riff /\ \E j \in DOMAIN file.start : ReadUpTo(j)'
  <2>1. PICK k \in 1..Len(file.chunks) : ReadUpTo(k) /\ c = file.chunks[k]
    BY <1>1, <1>2, <1>5, ChunkRead
  <2>2. pos' = file.start[k + 1]
    BY <1>1, <1>2, <2>1, AfterChunk DEF ReadUpTo
  <2>3. QED
    BY <1>1, <1>2, <1>5, <2>1, <2>2, ReadsOn DEF IInv, HeaderInv
<1>6. HeaderInv'
  BY <1>2, <1>5 DEF IInv, HeaderInv, OtherChunk
<1>7. HeaderMatchesReference' /\ MelodyCoversMusic' /\ WindowInv'
  BY <1>2 DEF HeaderMatchesReference, MelodyCoversMusic, WindowInv
<1>8. TrackInv' /\ GapsBridged'
  BY DEF IInv, TrackInv, GapsBridged, OtherChunk
<1>9. QED
  BY <1>4, <1>6, <1>7, <1>8 DEF IInv

LEMMA FmtChunkKeeps == IInv /\ FmtChunk => IInv'
<1> SUFFICES ASSUME IInv, FmtChunk PROVE IInv'
  OBVIOUS
<1> USE DEF samples, music
<1>1. PICK c \in Headers :
        /\ c.id = "fmt"
        /\ IF c.size < FmtSize \/ pos + HeaderSize + FmtSize > file.length
           THEN Return("INVALID_VALUE") /\ UNCHANGED <<info, pos>>
           ELSE /\ info' = [info EXCEPT !.fmt = c.fmt, !.hasFmt = TRUE]
                /\ pos' = AfterFmt(pos, c.size)
                /\ UNCHANGED <<pc, result>>
  BY DEF FmtChunk
<1>2. /\ pc = "header" /\ result = "NONE" /\ file' = file /\ pos \in Nat
      /\ TypeOK /\ file \in WavFile /\ active = 0 /\ active' = 0
      /\ info \in [fmt : WavFmt, hasFmt : BOOLEAN, offset : Nat, size : Nat]
  BY DEF FmtChunk, IInv, HeaderInv, TypeOK
<1>3. c.fmt \in WavFmt /\ c.size \in Nat
  BY <1>1, <1>2, HeaderType DEF Headers
<1>4. CASE c.size < FmtSize \/ pos + HeaderSize + FmtSize > file.length
  <2>1. ASSUME ~HasOddFmt(file), IsPlayable(file) PROVE FALSE
    <3>1. PICK k \in 1..Len(file.chunks) :
            ReadUpTo(k) /\ c = file.chunks[k] /\ pos = file.start[k]
      BY <1>1, <1>2, <2>1, ChunkRead DEF ReadUpTo
    <3>2. PICK n \in Nat : n = Len(file.chunks)
      BY <1>2, FileType
    <3>3. k \in 1..(Len(file.chunks) + 1)
      BY <3>2
    <3>4. HasData(file) /\ FirstData(file) \in k..n
      BY <1>2, <2>1, <3>1, <3>2, <3>3, ReadUpToPlayable
    <3>5. \A i \in 1..Len(file.chunks) :
              i >= k /\ i < FirstData(file) =>
                file.start[i] + HeaderSize + file.chunks[i].size <= file.length
      BY <1>2, <2>1, <3>1, <3>3, ReadUpToPlayable
    <3>6. FirstData(file) # k
      BY <1>1, <1>2, <3>1, <3>4, FirstDataIs
    <3>7. PICK d \in k..n : d = FirstData(file) /\ k < d
      BY <3>2, <3>4, <3>6
    <3>8. pos + HeaderSize + c.size <= file.length
      BY <3>1, <3>2, <3>5, <3>7
    <3>9. k \in FmtsBefore(file, d)
      BY <1>1, <3>1, <3>7, <3>2 DEF FmtsBefore
    <3>10. c.size >= FmtSize
      BY <2>1, <3>1, <3>7, <3>9 DEF IsPlayable
    <3>11. file.length \in Nat
      BY <1>2, FileType
    <3>12. QED
      BY <1>2, <1>3, <1>4, <3>8, <3>10, <3>11 DEF HeaderSize, FmtSize
  <2>2. QED
    BY <1>1, <1>4, <2>1, GivenUp DEF Return, FmtChunk, header
<1>5. CASE ~(c.size < FmtSize \/ pos + HeaderSize + FmtSize > file.length)
  <2>1. /\ info' = [info EXCEPT !.fmt = c.fmt, !.hasFmt = TRUE]
        /\ pos' = AfterFmt(pos, c.size) /\ pc' = pc /\ result' = "NONE"
    BY <1>1, <1>2, <1>5
  <2>2. /\ info' \in [fmt : WavFmt, hasFmt : BOOLEAN, offset : Nat, size : Nat]
        /\ info'.fmt = c.fmt /\ info'.hasFmt
    BY <1>2, <1>3, <2>1
  <2>3. pos' \in Nat
    <3>1. PICK s \in Nat : s = c.size /\ s >= 16
      BY <1>3, <1>5 DEF FmtSize
    <3>2. (IF s > FmtSize THEN Padded(s - FmtSize) ELSE 0) \in Nat
      BY <3>1 DEF FmtSize, Padded
    <3>3. QED
      BY <1>2, <2>1, <3>1, <3>2 DEF AfterFmt, HeaderSize, FmtSize
  <2>4. active' <= WindowSamples(Rate)'
    <3>1. info'.fmt.sample_rate \in Nat
      BY <1>3, <2>2 DEF WavFmt
    <3>2. PICK w \in Nat : w = WindowSamples(info'.fmt.sample_rate) /\ 768 <= w
      BY <3>1, WindowType
    <3>3. QED
      BY <1>2, <3>2 DEF Rate
  <2>5. TypeOK'
    <3>1. /\ TypeOK /\ file' = file /\ stop_requested' = stop_requested
          /\ UNCHANGED <<remaining, active, played>>
          /\ UNCHANGED <<tracker, melody, capacity, heard, gap>>
      BY DEF IInv, FmtChunk, samples, music
    <3>2. QED
      BY <2>1, <2>2, <2>3, <2>4, <3>1, SMTT(30) DEF TypeOK
  <2>6. ASSUME ~HasOddFmt(file)
        PROVE  file.riff /\ \E j \in DOMAIN file.start : ReadUpTo(j)'
    <3>1. PICK k \in 1..Len(file.chunks) : ReadUpTo(k) /\ c = file.chunks[k]
      BY <1>1, <1>2, <2>6, ChunkRead
    <3>2. ~(c.size > FmtSize /\ c.size % 2 = 1) /\ c.size >= FmtSize
      <4>1. k \in DOMAIN file.chunks
        BY <1>2, FileType
      <4>2. QED
        BY <1>1, <1>3, <1>5, <2>6, <3>1, <4>1 DEF HasOddFmt, FmtSize
    <3>3. pos' = file.start[k + 1]
      BY <1>2, <2>1, <3>1, <3>2, AfterChunk DEF ReadUpTo
    <3>4. QED
      BY <1>1, <1>2, <2>2, <2>6, <3>1, <3>2, <3>3, ReadsOn DEF IInv, HeaderInv
  <2>7. HeaderInv'
    BY <1>2, <2>1, <2>6 DEF IInv, HeaderInv, FmtChunk
  <2>8. HeaderMatchesReference' /\ MelodyCoversMusic' /\ WindowInv'
    BY <1>2, <2>1 DEF HeaderMatchesReference, MelodyCoversMusic, WindowInv
  <2>9. TrackInv' /\ GapsBridged'
    BY <2>1 DEF IInv, TrackInv, GapsBridged, FmtChunk
  <2>10. QED
    BY <2>5, <2>7, <2>8, <2>9 DEF IInv
<1>6. QED
  BY <1>4, <1>5

LEMMA DataChunkKeeps == IInv /\ DataChunk => IInv'
<1> SUFFICES ASSUME IInv, DataChunk PROVE IInv'
  OBVIOUS
<1> USE DEF samples, music
<1>1. PICK c \in Headers :
        /\ c.id = "data"
        /\ IF info.hasFmt /\ Supported(info.fmt)
           THEN /\ info' = [info EXCEPT !.offset = pos + HeaderSize, !.size = c.size]
                /\ pc' = "build" /\ UNCHANGED result
           ELSE Return("INVALID_VALUE") /\ UNCHANGED info
  BY DEF DataChunk
<1>2. /\ pc = "header" /\ result = "NONE" /\ file' = file /\ pos' = pos /\ pos \in Nat
      /\ TypeOK /\ file \in WavFile
      /\ info \in [fmt : WavFmt, hasFmt : BOOLEAN, offset : Nat, size : Nat]
  BY DEF DataChunk, IInv, HeaderInv, TypeOK
<1>3. c.size \in Nat
  BY <1>1, <1>2, HeaderType DEF Headers
<1>4. ASSUME ~HasOddFmt(file)
      PROVE  \E k \in 1..Len(file.chunks) :
               /\ ReadUpTo(k) /\ c = file.chunks[k] /\ pos = file.start[k]
               /\ pos + HeaderSize <= file.length
               /\ HasData(file) /\ FirstData(file) = k
  <2>1. PICK k \in 1..Len(file.chunks) :
          ReadUpTo(k) /\ c = file.chunks[k] /\ pos + HeaderSize <= file.length
    BY <1>1, <1>2, <1>4, ChunkRead
  <2>2. HasData(file) /\ FirstData(file) = k
    BY <1>1, <1>2, <2>1, FirstDataHere
  <2>3. QED
    BY <2>1, <2>2 DEF ReadUpTo
<1>5. CASE ~(info.hasFmt /\ Supported(info.fmt))
  <2>1. ASSUME ~HasOddFmt(file), IsPlayable(file) PROVE FALSE
    <3>1. PICK k \in 1..Len(file.chunks) : ReadUpTo(k) /\ FirstData(file) = k
      BY <1>4, <2>1
    <3>2. FmtsBefore(file, k) # {}
      BY <2>1, <3>1 DEF IsPlayable
    <3>3. Supported(file.chunks[Max(FmtsBefore(file, k))].fmt)
      BY <2>1, <3>1 DEF IsPlayable
    <3>4. QED
      BY <1>5, <3>1, <3>2, <3>3 DEF ReadUpTo
  <2>2. QED
    BY <1>1, <1>5, <2>1, GivenUp DEF Return, DataChunk, header
<1>6. CASE info.hasFmt /\ Supported(info.fmt)
  <2>1. /\ info' = [info EXCEPT !.offset = pos + HeaderSize, !.size = c.size]
        /\ pc' = "build" /\ result' = "NONE"
    BY <1>1, <1>2, <1>6
  <2>2. /\ info' \in [fmt : WavFmt, hasFmt : BOOLEAN, offset : Nat, size : Nat]
        /\ info'.fmt = info.fmt /\ info'.offset = pos + HeaderSize
        /\ info'.size = c.size
    <3>1. pos + HeaderSize \in Nat
      BY <1>2 DEF HeaderSize
    <3>2. QED
      BY <1>2, <1>3, <2>1, <3>1
  <2>3. TypeOK'
    <3>1. /\ TypeOK /\ file' = file /\ pos' = pos /\ stop_requested' = stop_requested
          /\ UNCHANGED <<remaining, active, played>>
          /\ UNCHANGED <<tracker, melody, capacity, heard, gap>>
      BY DEF IInv, DataChunk, samples, music
    <3>2. QED
      BY <2>1, <2>2, <3>1, SMTT(30) DEF TypeOK, Rate, Pcs
  <2>4. HeaderInv'
    BY <1>2, <1>6, <2>1, <2>2 DEF IInv, HeaderInv, DataChunk
  <2>5. ASSUME ~HasOddFmt(file)
        PROVE  /\ IsPlayable(file)
               /\ info'.offset = file.start[FirstData(file)] + HeaderSize
               /\ info'.size = file.chunks[FirstData(file)].size
               /\ info'.fmt = file.chunks[Max(FmtsBefore(file, FirstData(file)))].fmt
    <3>1. PICK k \in 1..Len(file.chunks) :
               /\ ReadUpTo(k) /\ c = file.chunks[k] /\ pos = file.start[k]
               /\ pos + HeaderSize <= file.length
               /\ HasData(file) /\ FirstData(file) = k
      BY <1>4, <2>5
    <3>2. /\ FmtsBefore(file, k) # {}
          /\ info.fmt = file.chunks[Max(FmtsBefore(file, k))].fmt
      BY <1>6, <3>1 DEF ReadUpTo
    <3>3. \A i \in FmtsBefore(file, k) : file.chunks[i].size >= FmtSize
      BY <3>1 DEF ReadUpTo, FmtsBefore
    <3>4. file.riff
      BY <1>2, <2>5 DEF IInv, HeaderInv
    <3>5. IsPlayable(file)
      BY <1>6, <3>1, <3>2, <3>3, <3>4 DEF IsPlayable
    <3>6. QED
      BY <2>2, <3>1, <3>2, <3>5
  <2>6. HeaderMatchesReference'
    BY <1>2, <2>1, <2>5 DEF HeaderMatchesReference
  <2>7. MelodyCoversMusic' /\ WindowInv'
    BY <2>1 DEF MelodyCoversMusic, WindowInv
  <2>8. TrackInv' /\ GapsBridged'
    BY <1>2, <2>1 DEF IInv, TrackInv, GapsBridged, DataChunk
  <2>9. QED
    BY <2>3, <2>4, <2>6, <2>7, <2>8 DEF IInv
<1>7. QED
  BY <1>5, <1>6

(* The window is filled behind the samples it keeps: it does not overflow, *)
(* no frame is lost, and it is filled unless there is no frame left.    *)
LEMMA Refilled ==
  ASSUME TypeOK, Supported(info.fmt), NEW kept \in Nat, NEW from \in Nat,
         NEW left \in Nat, kept < WindowSamples(Rate), Refill(kept, from, left)
  PROVE  /\ active' \in 0..4096 /\ active' <= WindowSamples(Rate)
         /\ pos' \in Nat /\ remaining' \in Nat
         /\ active' + FramesFrom(file, info.fmt, pos', remaining')
              = kept + FramesFrom(file, info.fmt, from, left)
         /\ active' < WindowSamples(Rate) =>
              FramesFrom(file, info.fmt, pos', remaining') = 0
<1>1. info.fmt \in WavFmt /\ Rate \in Nat /\ file \in WavFile
  BY DEF TypeOK, WavFmt, Rate
<1>2. file.length \in Nat
  BY <1>1, FileType
<1>3. PICK w \in Nat : w = WindowSamples(Rate) /\ w <= 4096 /\ kept < w
  BY <1>1, WindowType
<1>4. PICK m \in Nat : m = w - kept /\ m > 0
  BY <1>3
<1> DEFINE r == ReadSamples(file, info.fmt, from, m, left)
<1>5. /\ active' = kept + r.frames /\ pos' = r.pos /\ remaining' = r.remaining
  BY <1>3, <1>4 DEF Refill
<1>6. /\ r.frames \in 0..m /\ r.pos \in Nat /\ r.remaining \in Nat
      /\ r.frames + FramesFrom(file, info.fmt, r.pos, r.remaining)
           = FramesFrom(file, info.fmt, from, left)
      /\ r.frames < m => FramesFrom(file, info.fmt, r.pos, r.remaining) = 0
  BY <1>1, <1>2, ReadTakes
<1>7. PICK n \in 0..m : n = r.frames
  BY <1>6
<1>8. FramesFrom(file, info.fmt, r.pos, r.remaining) \in Nat
      /\ FramesFrom(file, info.fmt, from, left) \in Nat
  BY <1>1, <1>2, <1>6, FramesType
<1> HIDE DEF r
<1>9. PICK x \in Nat, y \in Nat :
        /\ x = FramesFrom(file, info.fmt, pos', remaining')
        /\ y = FramesFrom(file, info.fmt, from, left)
  BY <1>5, <1>8
<1>10. n + x = y /\ (n < m => x = 0)
  BY <1>4, <1>5, <1>6, <1>7, <1>9
<1>11. active' = kept + n
  BY <1>5, <1>7
<1>12. active' + x = kept + y /\ (active' < w => x = 0)
  BY <1>3, <1>4, <1>9, <1>10, <1>11
<1>13. active' \in 0..4096 /\ active' <= w
  <2>1. kept + n \in 0..4096 /\ kept + n <= w
    BY <1>3, <1>4
  <2>2. QED
    BY <1>11, <2>1
<1>14. pos' \in Nat /\ remaining' \in Nat
  BY <1>5, <1>6
<1>15. QED
  BY <1>3, <1>9, <1>12, <1>13, <1>14

LEMMA BuildBeginsKeeps == IInv /\ BuildBegins => IInv'
<1> SUFFICES ASSUME IInv, BuildBegins PROVE IInv'
  OBVIOUS
<1>1. /\ pc = "build" /\ pc' = "hop" /\ result = "NONE" /\ result' = result
      /\ file' = file /\ info' = info /\ played' = 0 /\ played = 0
      /\ melody = << >> /\ melody' = melody /\ Refill(0, info.offset, info.size)
      /\ TypeOK /\ Supported(info.fmt) /\ info.offset \in Nat /\ info.size \in Nat
      /\ Rate \in Nat /\ info.fmt \in WavFmt
  BY DEF BuildBegins, IInv, HeaderInv, TypeOK, music, Rate, WavFmt
<1>2. PICK zero \in Nat : zero = 0 /\ zero < WindowSamples(Rate)
  BY <1>1, WindowType
<1>3. Refill(zero, info.offset, info.size)
  BY <1>1, <1>2
<1>4. /\ active' \in 0..4096 /\ active' <= WindowSamples(Rate)
      /\ pos' \in Nat /\ remaining' \in Nat
      /\ active' + FramesFrom(file, info.fmt, pos', remaining') = zero + AllFrames
      /\ active' < WindowSamples(Rate) =>
           FramesFrom(file, info.fmt, pos', remaining') = 0
  BY <1>1, <1>2, <1>3, Refilled DEF AllFrames
<1>5. TypeOK'
  <2>1. /\ UNCHANGED <<tracker, melody, capacity, heard, gap, stop_requested>>
        /\ pc' \in Pcs /\ played' \in Nat
    BY <1>1 DEF BuildBegins, music, Pcs
  <2>2. active' <= WindowSamples(Rate)'
    BY <1>1, <1>4 DEF Rate
  <2>3. active' \in 0..4096 /\ pos' \in Nat /\ remaining' \in Nat
    BY <1>4
  <2>4. result' = result /\ file' = file /\ info' = info /\ TypeOK
    BY <1>1
  <2>5. QED
    BY <2>1, <2>2, <2>3, <2>4, SMTT(30) DEF TypeOK
<1>6. HeaderInv'
  BY <1>1, <1>4 DEF HeaderInv
<1>7. HeaderMatchesReference'
  BY <1>1 DEF IInv, HeaderMatchesReference
<1>8. MelodyCoversMusic'
  <2>1. file \in WavFile /\ FramesFrom(file, info.fmt, info.offset, info.size) \in Nat
        /\ FramesFrom(file, info.fmt, pos', remaining') \in Nat
    <3>1. file \in WavFile
      BY <1>1 DEF TypeOK
    <3>2. file.length \in Nat
      BY <3>1, LengthType
    <3>3. FramesFrom(file, info.fmt, info.offset, info.size) \in Nat
      BY <1>1, <3>2, FramesType
    <3>4. FramesFrom(file, info.fmt, pos', remaining') \in Nat
      BY <1>1, <1>4, <3>2, FramesType
    <3>5. QED
      BY <3>1, <3>3, <3>4
  <2>2. PICK x \in Nat, y \in Nat, n \in Nat :
          /\ x = FramesFrom(file, info.fmt, pos', remaining')
          /\ y = AllFrames /\ n = active'
    <3>1. active' \in Nat
      BY <1>4
    <3>2. QED
      BY <2>1, <3>1 DEF AllFrames
  <2>3. 0 + n + x = y
    BY <1>2, <1>4, <2>2
  <2>4. played' + active' + FramesFrom(file, info.fmt, pos', remaining') = AllFrames
    BY <1>1, <2>2, <2>3
  <2>5. AllFrames' = AllFrames
    BY <1>1 DEF AllFrames
  <2>6. \A i \in 1..(Len(melody') - 1) : melody'[i].hz # melody'[i + 1].hz
    <3>1. Len(melody') = 0
      BY <1>1
    <3>2. QED
      BY <3>1
  <2>7. QED
    BY <1>1, <2>4, <2>5, <2>6 DEF MelodyCoversMusic
<1>9. WindowInv'
  <2>1. PICK h \in Nat : h = HopSamples(Rate) /\ 1 <= h
    BY <1>1, HopType
  <2>2. played' % HopSamples(Rate) = 0
    BY <1>1, <2>1
  <2>3. QED
    BY <1>1, <1>4, <2>2 DEF WindowInv, Rate
<1>10. TrackInv' /\ GapsBridged'
  BY <1>1 DEF IInv, TrackInv, GapsBridged, BuildBegins, music
<1>11. QED
  BY <1>5, <1>6, <1>7, <1>8, <1>9, <1>10 DEF IInv

LEMMA ElementType ==
  ASSUME NEW S, NEW q \in Seq(S), NEW i \in 1..Len(q)
  PROVE  q[i] \in S
OBVIOUS

AdjacentDiffer(m) == \A i \in 1..(Len(m) - 1) : m[i].hz # m[i + 1].hz

(* A note is written within the array, is the last one then, and is not    *)
(* struck twice.                                                           *)
LEMMA AppendKeeps ==
  ASSUME TypeOK, AdjacentDiffer(melody), NEW hz \in Nat,
         NEW ms \in 0..(UIntMod - 1), AppendNote(hz, ms)
  PROVE  /\ melody' \in Seq(BuzzerNote) /\ capacity' \in Nat
         /\ Len(melody') <= capacity' /\ melody' # << >>
         /\ melody'[Len(melody')].hz = hz /\ AdjacentDiffer(melody')
<1>1. /\ melody \in Seq(BuzzerNote) /\ capacity \in Nat
      /\ Len(melody) <= capacity
  BY DEF TypeOK
<1>2. PICK n \in Nat, cap \in Nat : n = Len(melody) /\ cap = capacity /\ n <= cap
  BY <1>1
<1>3. CASE Extends(hz)
  <2>1. n \in 1..n /\ melody[n].ms \in Nat /\ melody[n].hz = hz
    <3>1. n # 0 /\ melody[n].hz = hz
      BY <1>1, <1>2, <1>3 DEF Extends
    <3>2. n \in 1..Len(melody)
      BY <1>2, <3>1
    <3>3. melody[n] \in BuzzerNote
      BY <1>1, <3>2, ElementType
    <3>4. melody[n].ms \in Nat
      BY <3>3, MusicConstants DEF BuzzerNote
    <3>5. QED
      BY <1>2, <3>1, <3>2, <3>4
  <2>2. PICK new \in BuzzerNote :
          new.hz = hz /\ melody' = [melody EXCEPT ![n] = new]
    <3>1. melody' = [melody EXCEPT ![n] =
                       [hz |-> hz, ms |-> (melody[n].ms + ms) % UIntMod]]
      BY <1>2, <1>3 DEF AppendNote
    <3>2. (melody[n].ms + ms) % UIntMod \in 0..(UIntMod - 1)
      BY <2>1, MusicConstants
    <3>3. [hz |-> hz, ms |-> (melody[n].ms + ms) % UIntMod] \in BuzzerNote
      BY <3>2 DEF BuzzerNote
    <3>4. QED
      BY <3>1, <3>3
  <2>3. capacity' = capacity
    BY <1>3 DEF AppendNote
  <2>4. melody' \in Seq(BuzzerNote) /\ Len(melody') = n
    BY <1>1, <1>2, <2>1, <2>2
  <2>5. \A i \in 1..n : melody'[i].hz = melody[i].hz
    BY <1>1, <1>2, <2>1, <2>2
  <2>6. AdjacentDiffer(melody')
    BY <1>2, <2>4, <2>5 DEF AdjacentDiffer
  <2>7. melody' # << >> /\ melody'[Len(melody')].hz = hz
    BY <2>1, <2>4, <2>5
  <2>8. QED
    BY <1>2, <2>3, <2>4, <2>6, <2>7
<1>4. CASE ~Extends(hz)
  <2>1. PICK new \in BuzzerNote :
          new.hz = hz /\ melody' = Append(melody, new)
    <3>1. [hz |-> hz, ms |-> ms] \in BuzzerNote
      BY DEF BuzzerNote
    <3>2. QED
      BY <1>4, <3>1 DEF AppendNote
  <2>2. /\ melody' \in Seq(BuzzerNote) /\ Len(melody') = n + 1
        /\ \A i \in 1..n : melody'[i] = melody[i]
        /\ melody'[n + 1] = new
    BY <1>1, <1>2, <2>1
  <2>3. capacity' \in Nat /\ n + 1 <= capacity'
    <3>1. PICK initial \in Nat \ {0} : initial = InitialCapacity
      BY MusicConstants
    <3>2. capacity' = IF ~(n >= cap) THEN cap
                      ELSE IF cap = 0 THEN initial ELSE 2 * cap
      BY <1>2, <1>4, <3>1 DEF AppendNote, IsFull
    <3>3. QED
      BY <1>2, <3>2
  <2>4. n = 0 \/ melody[n].hz # hz
    BY <1>1, <1>2, <1>4 DEF Extends
  <2>5. ASSUME NEW i \in 1..n PROVE melody'[i].hz # melody'[i + 1].hz
    <3>1. CASE i = n
      BY <2>1, <2>2, <2>4, <3>1
    <3>2. CASE i # n
      <4>1. i \in 1..(Len(melody) - 1) /\ i + 1 \in 1..n
        BY <1>2, <3>2
      <4>2. QED
        BY <2>2, <4>1 DEF AdjacentDiffer
    <3>3. QED
      BY <3>1, <3>2
  <2>6. AdjacentDiffer(melody')
    BY <2>2, <2>5 DEF AdjacentDiffer
  <2>7. melody' # << >> /\ melody'[Len(melody')].hz = hz
    <3>1. Len(melody') # 0 /\ melody'[Len(melody')] = new
      BY <2>2
    <3>2. QED
      BY <2>1, <3>1
  <2>8. QED
    BY <2>2, <2>3, <2>6, <2>7
<1>5. QED
  BY <1>3, <1>4

(* The pitch of a tracker that follows what was heard bridges the gap.     *)
LEMMA FollowsBridges ==
  ASSUME NEW t \in Tracker, NEW h \in Note \cup {NoNote}, NEW g \in Nat,
         Follows(t, h, g), NEW hz, hz = Hz(t.stable)
  PROVE  /\ hz = 0 <=> h = NoNote \/ g > HoldHops
         /\ hz # 0 => AreClose(Hz(h), hz)
<1>1. t.stable \in Note \cup {NoNote} /\ t.missing \in 0..HoldHops
  BY DEF Tracker
<1>2. CASE t.stable = NoNote
  BY <1>2, NoteType DEF Follows
<1>3. CASE t.stable # NoNote
  <2>1. hz # 0
    BY <1>1, <1>3, NoteType
  <2>2. h # NoNote /\ ~(g > HoldHops) /\ AreClose(Hz(h), hz)
    BY <1>1, <1>3 DEF Follows, HoldHops
  <2>3. QED
    BY <2>1, <2>2
<1>4. QED
  BY <1>2, <1>3

(* A hop plays at least a sample, and less than its length only if that    *)
(* empties the window.                                                     *)
LEMMA HopPlays ==
  ASSUME IInv, Hop
  PROVE  \E h \in Nat, play \in Nat, kept \in Nat, had \in Nat :
           /\ h = HopSamples(Rate) /\ play \in 1..h /\ h < WindowSamples(Rate)
           /\ play = PlaySamples /\ had = active /\ kept = had - play
           /\ play < h => kept = 0
<1>1. Rate \in Nat /\ active \in Nat /\ active > 0
  BY DEF IInv, TypeOK, Rate, WavFmt, Hop
<1>2. PICK h \in Nat : h = HopSamples(Rate) /\ 1 <= h /\ h < WindowSamples(Rate)
  BY <1>1, HopType
<1>3. PICK had \in Nat : had = active /\ had > 0
  BY <1>1
<1>4. PICK play \in 1..h : play = (IF h < had THEN h ELSE had)
  BY <1>2, <1>3
<1>5. play = PlaySamples
  BY <1>2, <1>3, <1>4 DEF PlaySamples, Least
<1>6. PICK kept \in Nat : kept = had - play
  BY <1>2, <1>3, <1>4
<1>7. play < h => kept = 0
  BY <1>2, <1>3, <1>4, <1>6
<1>8. QED
  BY <1>2, <1>3, <1>4, <1>5, <1>6, <1>7

LEMMA HopKeeps == IInv /\ Hop => IInv'
<1> SUFFICES ASSUME IInv, Hop PROVE IInv'
  OBVIOUS
<1>1. /\ pc = "hop" /\ pc' = "hop" /\ result = "NONE" /\ result' = result
      /\ file' = file /\ info' = info /\ stop_requested' = stop_requested
      /\ TypeOK /\ Supported(info.fmt)
  BY DEF Hop, IInv, HeaderInv
<1>2. /\ info.fmt \in WavFmt /\ Rate \in Nat /\ Rate # 0 /\ file \in WavFile
      /\ file.length \in Nat /\ pos \in Nat /\ remaining \in Nat
      /\ info.offset \in Nat /\ info.size \in Nat
  <2>1. /\ info.fmt \in WavFmt /\ file \in WavFile /\ pos \in Nat
        /\ remaining \in Nat /\ info.offset \in Nat /\ info.size \in Nat
    BY <1>1 DEF TypeOK
  <2>2. Rate \in Nat /\ Rate # 0
    BY <1>1, <2>1, FrameType DEF Rate
  <2>3. QED
    BY <2>1, <2>2, LengthType
<1>3. PICK n \in Detections(Rate) :
        /\ tracker' = Update(tracker, n)
        /\ AppendNote(Hz(tracker'.stable), DurationMs(PlaySamples, Rate))
        /\ heard' = IF n = NoNote THEN heard ELSE n
        /\ gap' = IF n = NoNote THEN gap + 1 ELSE 0
  BY DEF Hop
<1>4. n \in Note \cup {NoNote}
  BY DetectedType
<1>5. /\ tracker \in Tracker /\ heard \in Note \cup {NoNote} /\ gap \in Nat
      /\ Follows(tracker, heard, gap)
  BY <1>1 DEF IInv, TrackInv, TypeOK, Tracker, Follows
<1>6. /\ tracker' \in Tracker /\ Follows(tracker', heard', gap')
      /\ heard' \in Note \cup {NoNote} /\ gap' \in Nat
  <2>1. tracker' \in Tracker
    BY <1>3, <1>4, <1>5, UpdateFollows
  <2>2. Follows(tracker', heard', gap')
    BY <1>3, <1>4, <1>5, UpdateFollows
  <2>3. QED
    BY <1>3, <1>4, <1>5, <2>1, <2>2
<1>7. PICK h \in Nat, play \in Nat, kept \in Nat, had \in Nat :
        /\ h = HopSamples(Rate) /\ play \in 1..h /\ h < WindowSamples(Rate)
        /\ play = PlaySamples /\ had = active /\ kept = had - play
        /\ play < h => kept = 0
  BY HopPlays
<1>8. played' = played + play /\ Refill(kept, pos, remaining)
  BY <1>7 DEF Hop
<1>20. kept < WindowSamples(Rate) /\ kept + play = had
  <2>1. PICK w \in Nat : w = WindowSamples(Rate)
    BY <1>2, WindowType
  <2>2. active <= WindowSamples(Rate)
    BY <1>1 DEF TypeOK
  <2>3. QED
    BY <1>7, <2>1, <2>2
<1>9. /\ active' \in 0..4096 /\ active' <= WindowSamples(Rate)
      /\ pos' \in Nat /\ remaining' \in Nat
      /\ active' + FramesFrom(file, info.fmt, pos', remaining')
           = kept + FramesFrom(file, info.fmt, pos, remaining)
      /\ active' < WindowSamples(Rate) =>
           FramesFrom(file, info.fmt, pos', remaining') = 0
  BY <1>1, <1>2, <1>7, <1>8, <1>20, Refilled
<1>10. Hz(tracker'.stable) \in Nat /\ DurationMs(PlaySamples, Rate) \in 0..(UIntMod - 1)
  <2>1. tracker'.stable \in Note \cup {NoNote}
    BY <1>6 DEF Tracker
  <2>2. Hz(tracker'.stable) \in Nat
    BY <2>1, NoteType
  <2>3. DurationMs(play, Rate) \in 0..(UIntMod - 1)
    BY <1>2, <1>7, HopFitsUInt
  <2>4. QED
    BY <1>7, <2>2, <2>3
<1>11. /\ melody' \in Seq(BuzzerNote) /\ capacity' \in Nat
       /\ Len(melody') <= capacity' /\ melody' # << >>
       /\ melody'[Len(melody')].hz = Hz(tracker'.stable) /\ AdjacentDiffer(melody')
  <2>1. AdjacentDiffer(melody)
    BY <1>1 DEF IInv, MelodyCoversMusic, AdjacentDiffer
  <2>2. QED
    BY <1>1, <1>3, <1>10, <2>1, AppendKeeps
<1>12. played \in Nat /\ played' \in Nat
  BY <1>1, <1>8 DEF TypeOK
<1>13. TypeOK'
  <2>1. tracker' \in [stable : Note \cup {NoNote}, missing : 0..HoldHops,
                      pending : Note \cup {NoNote}, hops : Nat]
    BY <1>6 DEF Tracker
  <2>2. active' <= WindowSamples(Rate)'
    BY <1>1, <1>9 DEF Rate
  <2>3. /\ heard' \in Note \cup {NoNote} /\ gap' \in Nat /\ active' \in 0..4096
        /\ pos' \in Nat /\ remaining' \in Nat /\ pc' \in Pcs
    BY <1>1, <1>6, <1>9 DEF Pcs
  <2>4. /\ result' = result /\ file' = file /\ info' = info
        /\ stop_requested' = stop_requested /\ TypeOK
    BY <1>1
  <2>5. QED
    BY <1>11, <1>12, <2>1, <2>2, <2>3, <2>4, SMTT(30) DEF TypeOK
<1>14. HeaderInv'
  BY <1>1, <1>9 DEF HeaderInv
<1>15. HeaderMatchesReference'
  BY <1>1 DEF IInv, HeaderMatchesReference
<1>16. MelodyCoversMusic'
  <2>1. /\ FramesFrom(file, info.fmt, pos, remaining) \in Nat
        /\ FramesFrom(file, info.fmt, pos', remaining') \in Nat
        /\ FramesFrom(file, info.fmt, info.offset, info.size) \in Nat
    <3>1. FramesFrom(file, info.fmt, pos, remaining) \in Nat
      BY <1>1, <1>2, FramesType
    <3>2. FramesFrom(file, info.fmt, pos', remaining') \in Nat
      BY <1>1, <1>2, <1>9, FramesType
    <3>3. FramesFrom(file, info.fmt, info.offset, info.size) \in Nat
      BY <1>1, <1>2, FramesType
    <3>4. QED
      BY <3>1, <3>2, <3>3
  <2>2. PICK x \in Nat, y \in Nat, all \in Nat, now \in Nat, p \in Nat :
          /\ x = FramesFrom(file, info.fmt, pos, remaining)
          /\ y = FramesFrom(file, info.fmt, pos', remaining')
          /\ all = AllFrames /\ now = active' /\ p = played
    <3>1. active' \in Nat
      BY <1>9
    <3>2. QED
      BY <1>12, <2>1, <3>1 DEF AllFrames
  <2>3. p + had + x = all /\ now + y = kept + x
    BY <1>1, <1>7, <1>9, <1>20, <2>2 DEF IInv, MelodyCoversMusic
  <2>4. (p + play) + now + y = all
    BY <1>20, <2>3
  <2>5. played' + active' + FramesFrom(file, info.fmt, pos', remaining') = AllFrames
    BY <1>8, <2>2, <2>4
  <2>6. AllFrames' = AllFrames
    BY <1>1 DEF AllFrames
  <2>7. QED
    BY <1>1, <1>11, <2>5, <2>6 DEF MelodyCoversMusic, AdjacentDiffer
<1>17. WindowInv'
  <2>1. ASSUME active' > 0 PROVE play = h
    <3>1. PICK w \in Nat : w = WindowSamples(Rate)
      BY <1>2, WindowType
    <3>2. SUFFICES ASSUME play < h, active' > 0 PROVE FALSE
      BY <1>7, <2>1
    <3>3. kept = 0 /\ active < WindowSamples(Rate)
      BY <1>7, <1>20, <3>1, <3>2
    <3>4. FramesFrom(file, info.fmt, pos, remaining) = 0
      BY <1>1, <3>3 DEF IInv, WindowInv
    <3>5. PICK y \in Nat : y = FramesFrom(file, info.fmt, pos', remaining')
      BY <1>1, <1>2, <1>9, FramesType
    <3>6. PICK now \in Nat : now = active'
      BY <1>9
    <3>7. now + y = 0
      BY <1>9, <3>3, <3>4, <3>5, <3>6
    <3>8. now > 0
      BY <3>2, <3>6
    <3>9. now + y > 0
      BY <3>8
    <3>10. QED
      BY <3>7, <3>9
  <2>2. ASSUME active' > 0 PROVE played' % HopSamples(Rate) = 0
    <3>1. active > 0
      BY DEF Hop
    <3>2. played % h = 0
      BY <1>1, <1>7, <3>1 DEF IInv, WindowInv
    <3>3. PICK p \in Nat : p = played /\ p % h = 0
      BY <1>12, <3>2
    <3>4. play \in 1..h /\ play = h
      BY <1>7, <2>1, <2>2
    <3>5. 1 <= h
      BY <3>4
    <3>6. (p + play) % h = 0
      BY <3>3, <3>4, <3>5, OneMoreHop
    <3>7. QED
      BY <1>7, <1>8, <3>3, <3>6
  <2>3. QED
    BY <1>1, <1>9, <2>2 DEF WindowInv, Rate
<1>18. TrackInv'
  BY <1>6, <1>11 DEF TrackInv, Follows
<1>19. GapsBridged'
  BY <1>6, <1>11, FollowsBridges DEF GapsBridged
<1>21. QED
  BY <1>13, <1>14, <1>15, <1>16, <1>17, <1>18, <1>19 DEF IInv

LEMMA NoMemoryKeeps == IInv /\ NoMemory => IInv'
<1> SUFFICES ASSUME IInv, NoMemory PROVE IInv'
  OBVIOUS
<1>1. /\ pc = "hop" /\ pc' = "done" /\ result' = "DEVICE_FAILED" /\ TypeOK
      /\ UNCHANGED <<header, samples, melody, capacity, heard, gap, stop_requested>>
  BY DEF NoMemory, Return, IInv
<1> USE DEF header, samples
<1>2. PICK n \in Detections(Rate) : tracker' = Update(tracker, n)
  BY DEF NoMemory
<1>3. n \in Note \cup {NoNote}
  BY DetectedType
<1>4. /\ tracker \in Tracker /\ heard \in Note \cup {NoNote} /\ gap \in Nat
      /\ Follows(tracker, heard, gap)
  BY <1>1 DEF IInv, TrackInv, TypeOK, Tracker, Follows
<1>5. tracker' \in Tracker
  BY <1>2, <1>3, <1>4, UpdateFollows
<1>6. TypeOK'
  BY <1>1, <1>5 DEF TypeOK, Pcs, Rate, Tracker
<1>7. HeaderInv' /\ MelodyCoversMusic' /\ WindowInv' /\ TrackInv'
  BY <1>1 DEF HeaderInv, MelodyCoversMusic, WindowInv, TrackInv
<1>8. HeaderMatchesReference' /\ GapsBridged'
  BY <1>1 DEF IInv, HeaderMatchesReference, GapsBridged
<1>9. QED
  BY <1>6, <1>7, <1>8 DEF IInv

(* The loop ends with the melody as it is, stopped or with nothing left.   *)
LEMMA BuildEndsKeeps == IInv /\ (BuildStopped \/ BuildDone) => IInv'
<1> SUFFICES ASSUME IInv, BuildStopped \/ BuildDone PROVE IInv'
  OBVIOUS
<1>1. /\ pc = "hop" /\ pc' = "done" /\ result' = "OK"
      /\ UNCHANGED <<header, samples, music, stop_requested>>
      /\ stop_requested \/ active = 0
  BY DEF BuildStopped, BuildDone, Return
<1> USE DEF header, samples, music
<1>2. TypeOK'
  BY <1>1 DEF IInv, TypeOK, Pcs, Rate
<1>3. HeaderInv'
  BY <1>1 DEF IInv, HeaderInv
<1>4. HeaderMatchesReference'
  BY <1>1 DEF IInv, HeaderMatchesReference
<1>5. active = 0 => played = AllFrames
  <2>1. SUFFICES ASSUME active = 0 PROVE played = AllFrames
    OBVIOUS
  <2>2. Rate \in Nat /\ played \in Nat
    BY DEF IInv, TypeOK, Rate, WavFmt
  <2>3. active < WindowSamples(Rate)
    BY <2>1, <2>2, WindowType
  <2>4. FramesFrom(file, info.fmt, pos, remaining) = 0
    BY <1>1, <2>3 DEF IInv, WindowInv
  <2>5. QED
    BY <1>1, <2>1, <2>2, <2>4 DEF IInv, MelodyCoversMusic
<1>6. AllFrames' = AllFrames
  BY <1>1 DEF AllFrames
<1>7. MelodyCoversMusic' /\ WindowInv'
  BY <1>1, <1>5, <1>6 DEF IInv, MelodyCoversMusic, WindowInv
<1>8. TrackInv' /\ GapsBridged'
  BY <1>1 DEF IInv, TrackInv, GapsBridged
<1>9. QED
  BY <1>2, <1>3, <1>4, <1>7, <1>8 DEF IInv

LEMMA RequestStopKeeps == IInv /\ RequestStop => IInv'
<1> SUFFICES ASSUME IInv, RequestStop PROVE IInv'
  OBVIOUS
<1>1. /\ pc \in {"build", "hop"} /\ stop_requested' = TRUE /\ result = "NONE"
      /\ UNCHANGED <<pc, result, header, samples, music>>
  BY DEF RequestStop, IInv, HeaderInv
<1> USE DEF header, samples, music
<1>2. TypeOK'
  BY <1>1 DEF IInv, TypeOK, Rate
<1>3. HeaderInv'
  BY <1>1 DEF IInv, HeaderInv, ReadUpTo
<1>4. HeaderMatchesReference' /\ MelodyCoversMusic'
  BY <1>1 DEF IInv, HeaderMatchesReference, MelodyCoversMusic, AllFrames
<1>5. WindowInv' /\ TrackInv' /\ GapsBridged'
  BY <1>1 DEF IInv, WindowInv, Rate, TrackInv, GapsBridged
<1>6. QED
  BY <1>2, <1>3, <1>4, <1>5 DEF IInv

LEMMA RestKeeps == IInv /\ UNCHANGED vars => IInv'
<1> SUFFICES ASSUME IInv, UNCHANGED vars PROVE IInv'
  OBVIOUS
<1> USE DEF vars, header, samples, music
<1>1. TypeOK'
  BY DEF IInv, TypeOK, Rate
<1>2. HeaderInv'
  BY DEF IInv, HeaderInv, ReadUpTo
<1>3. HeaderMatchesReference' /\ MelodyCoversMusic'
  BY DEF IInv, HeaderMatchesReference, MelodyCoversMusic, AllFrames
<1>4. WindowInv' /\ TrackInv' /\ GapsBridged'
  BY DEF IInv, WindowInv, Rate, TrackInv, GapsBridged
<1>5. QED
  BY <1>1, <1>2, <1>3, <1>4 DEF IInv

LEMMA NextIInv == IInv /\ [Next]_vars => IInv'
BY OpenFailsKeeps, ReadRiffKeeps, NoHeaderKeeps, FmtChunkKeeps, OtherChunkKeeps,
   DataChunkKeeps, BuildBeginsKeeps, HopKeeps, NoMemoryKeeps, BuildEndsKeeps,
   RequestStopKeeps, RestKeeps
   DEF Next, Step, Rest

-----------------------------------------------------------------------------
(* How long a melody lasts                                                 *)

(* Induction, for a set of numbers.                                        *)
LEMMA AllNumbers ==
  ASSUME NEW S \in SUBSET Nat, 0 \in S, \A k \in S : k + 1 \in S
  PROVE  \A k \in Nat : k \in S
<1> DEFINE T == {k \in Nat : k \notin S}
<1>1. SUFFICES ASSUME T # {} PROVE FALSE
  OBVIOUS
<1>2. PICK m \in T : \A y \in T : m <= y
  <2>1. T \in SUBSET Nat
    OBVIOUS
  <2> HIDE DEF T
  <2>2. QED
    BY <1>1, <2>1, LeastIn
<1>3. m # 0 /\ m \in Nat
  OBVIOUS
<1>4. PICK k \in Nat : m = k + 1
  BY <1>3
<1>5. k \in S
  BY <1>2, <1>4
<1>6. QED
  BY <1>4, <1>5

(* The sums of a melody's durations exist, one note after the other.       *)
LEMMA SumsExist ==
  ASSUME NEW m \in Seq(BuzzerNote)
  PROVE  \E f \in [0..Len(m) -> Nat] :
           f[0] = 0 /\ \A i \in 1..Len(m) : f[i] = f[i - 1] + m[i].ms
<1> DEFINE Sums(k) == \E f \in [0..k -> Nat] :
                        f[0] = 0 /\ \A i \in 1..k : f[i] = f[i - 1] + m[i].ms
           S == {k \in Nat : k <= Len(m) => Sums(k)}
<1>1. Len(m) \in Nat
  OBVIOUS
<1>2. 0 \in S
  <2> DEFINE z == [i \in 0..0 |-> 0]
  <2>1. z \in [0..0 -> Nat] /\ z[0] = 0 /\ 1..0 = {}
    OBVIOUS
  <2> HIDE DEF z
  <2>2. Sums(0)
    BY <2>1
  <2> HIDE DEF Sums
  <2>3. QED
    BY <2>2
<1>3. ASSUME NEW k \in S PROVE k + 1 \in S
  <2> HIDE DEF Sums
  <2>1. SUFFICES ASSUME k + 1 <= Len(m) PROVE Sums(k + 1)
    OBVIOUS
  <2>0. k \in Nat /\ Sums(k)
    BY <1>1, <2>1
  <2> USE DEF Sums
  <2>2. PICK f \in [0..k -> Nat] :
          f[0] = 0 /\ \A i \in 1..k : f[i] = f[i - 1] + m[i].ms
    <3> HIDE DEF S
    <3>1. QED
      BY <2>0
  <2>3. m[k + 1].ms \in Nat
    <3>1. k + 1 \in 1..Len(m)
      BY <1>1, <2>1
    <3>2. m[k + 1] \in BuzzerNote
      BY <3>1, ElementType
    <3>3. QED
      BY <3>2 DEF BuzzerNote
  <2> DEFINE g == [i \in 0..(k + 1) |-> IF i = k + 1 THEN f[k] + m[k + 1].ms ELSE f[i]]
  <2>4. g \in [0..(k + 1) -> Nat]
    BY <2>2, <2>3
  <2>5. g[0] = 0
    BY <2>2
  <2>6. ASSUME NEW i \in 1..(k + 1) PROVE g[i] = g[i - 1] + m[i].ms
    <3>1. CASE i = k + 1
      BY <3>1
    <3>2. CASE i # k + 1
      <4>1. i \in 1..k /\ i - 1 \in 0..k
        BY <3>2
      <4>2. g[i] = f[i] /\ g[i - 1] = f[i - 1]
        BY <4>1
      <4>3. QED
        BY <2>2, <4>1, <4>2
    <3>3. QED
      BY <3>1, <3>2
  <2> HIDE DEF g
  <2>7. QED
    BY <2>4, <2>5, <2>6
<1>4. S \in SUBSET Nat
  OBVIOUS
<1> HIDE DEF S
<1>5. Len(m) \in S
  BY <1>1, <1>2, <1>3, <1>4, AllNumbers
<1>6. QED
  BY <1>1, <1>5 DEF S

(* What LastsUpTo computes. *)
LEMMA LastsUpToIs ==
  ASSUME NEW m \in Seq(BuzzerNote)
  PROVE  /\ LastsUpTo(m)[0] = 0
         /\ \A i \in 1..Len(m) : LastsUpTo(m)[i] = LastsUpTo(m)[i - 1] + m[i].ms
         /\ \A i \in 0..Len(m) : LastsUpTo(m)[i] \in Nat
<1> DEFINE Next1(u) == [i \in 0..Len(m) |-> IF i = 0 THEN 0 ELSE u[i - 1] + m[i].ms]
<1>1. Len(m) \in Nat
  OBVIOUS
<1>2. PICK f \in [0..Len(m) -> Nat] :
        f[0] = 0 /\ \A i \in 1..Len(m) : f[i] = f[i - 1] + m[i].ms
  BY SumsExist
<1>3. f = Next1(f)
  BY <1>1, <1>2
<1>4. LastsUpTo(m) = CHOOSE u : u = Next1(u)
  BY DEF LastsUpTo
<1> DEFINE u == LastsUpTo(m)
<1>5. u = Next1(u)
  BY <1>3, <1>4
<1> HIDE DEF u
<1>6. u[0] = 0
  BY <1>1, <1>5
<1>7. ASSUME NEW i \in 1..Len(m) PROVE u[i] = u[i - 1] + m[i].ms
  <2>1. i \in 0..Len(m) /\ i # 0
    BY <1>1
  <2>2. QED
    BY <1>5, <2>1
<1>8. ASSUME NEW i \in 0..Len(m) PROVE u[i] \in Nat
  <2> DEFINE S == {k \in Nat : k <= Len(m) => u[k] \in Nat}
  <2>1. 0 \in S
    BY <1>6
  <2>2. ASSUME NEW k \in S PROVE k + 1 \in S
    <3>1. SUFFICES ASSUME k + 1 <= Len(m) PROVE u[k + 1] \in Nat
      OBVIOUS
    <3>2. k + 1 \in 1..Len(m) /\ u[k] \in Nat
      BY <1>1, <3>1
    <3>3. m[k + 1] \in BuzzerNote
      BY <3>2, ElementType
    <3>4. u[k + 1] = u[k] + m[k + 1].ms
      BY <1>7, <3>2
    <3>5. QED
      BY <3>2, <3>3, <3>4 DEF BuzzerNote
  <2>3. S \in SUBSET Nat
    OBVIOUS
  <2> HIDE DEF S
  <2>4. i \in S
    BY <1>1, <2>1, <2>2, <2>3, AllNumbers
  <2>5. QED
    BY <1>1, <2>4 DEF S
<1>9. QED
  BY <1>6, <1>7, <1>8 DEF u

(* Notes that two melodies have in common last equally long in both.       *)
LEMMA SamePrefixLasts ==
  ASSUME NEW m \in Seq(BuzzerNote), NEW q \in Seq(BuzzerNote), NEW n \in Nat,
         n <= Len(m), n <= Len(q), \A i \in 1..n : m[i].ms = q[i].ms
  PROVE  LastsUpTo(m)[n] = LastsUpTo(q)[n]
<1> DEFINE S == {k \in Nat : k <= n => LastsUpTo(m)[k] = LastsUpTo(q)[k]}
<1>0. Len(m) \in Nat /\ Len(q) \in Nat
  OBVIOUS
<1>1. 0 \in S
  BY LastsUpToIs
<1>2. ASSUME NEW k \in S PROVE k + 1 \in S
  <2>1. SUFFICES ASSUME k + 1 <= n PROVE LastsUpTo(m)[k + 1] = LastsUpTo(q)[k + 1]
    OBVIOUS
  <2>2. k + 1 \in 1..n /\ k + 1 \in 1..Len(m) /\ k + 1 \in 1..Len(q)
    BY <1>0, <2>1
  <2>3. PICK j \in Nat : j = k + 1 /\ j - 1 = k
    OBVIOUS
  <2>4. LastsUpTo(m)[j] = LastsUpTo(m)[k] + m[j].ms
    BY <2>2, <2>3, LastsUpToIs
  <2>5. LastsUpTo(q)[j] = LastsUpTo(q)[k] + q[j].ms
    BY <2>2, <2>3, LastsUpToIs
  <2>6. LastsUpTo(m)[k] = LastsUpTo(q)[k]
    BY <2>1
  <2>7. QED
    BY <2>2, <2>3, <2>4, <2>5, <2>6
<1>3. S \in SUBSET Nat
  OBVIOUS
<1> HIDE DEF S
<1>4. n \in S
  BY <1>1, <1>2, <1>3, AllNumbers
<1>5. QED
  BY <1>4 DEF S

LEMMA TotalMsType ==
  ASSUME TypeOK
  PROVE  TotalMs \in Nat /\ (melody = << >> => TotalMs = 0)
<1>1. melody \in Seq(BuzzerNote)
  BY DEF TypeOK
<1>2. Len(melody) \in 0..Len(melody) /\ (melody = << >> => Len(melody) = 0)
  BY <1>1
<1>3. QED
  BY <1>1, <1>2, LastsUpToIs DEF TotalMs

LEMMA TotalMsNext ==
  ASSUME IInv'
  PROVE  TotalMs' \in Nat
<1>1. melody' \in Seq(BuzzerNote)
  BY DEF IInv, TypeOK, BuzzerNote
<1>2. Len(melody') \in 0..Len(melody')
  BY <1>1
<1>3. QED
  BY <1>1, <1>2, LastsUpToIs DEF TotalMs

(* melody_buffer_append makes the melody last as much longer as it is told,*)
(* in a new note or in the last one, but for the turns of an unsigned int. *)
LEMMA AppendLasts ==
  ASSUME TypeOK, NEW hz \in Nat, NEW ms \in 0..(UIntMod - 1), AppendNote(hz, ms)
  PROVE  \E turns \in Nat : TotalMs' + turns * UIntMod = TotalMs + ms
<1>1. melody \in Seq(BuzzerNote)
  BY DEF TypeOK
<1>2. PICK n \in Nat : n = Len(melody)
  BY <1>1
<1>3. CASE Extends(hz)
  <2>1. n \in 1..n /\ n - 1 \in Nat
    BY <1>1, <1>2, <1>3 DEF Extends
  <2>2. melody[n] \in BuzzerNote
    BY <1>1, <1>2, <2>1, ElementType
  <2>3. PICK new \in BuzzerNote, turns \in Nat :
          /\ melody' = [melody EXCEPT ![n] = new]
          /\ new.ms + turns * UIntMod = melody[n].ms + ms
    <3>1. melody' = [melody EXCEPT ![n] =
                       [hz |-> hz, ms |-> (melody[n].ms + ms) % UIntMod]]
      BY <1>2, <1>3 DEF AppendNote
    <3>2. PICK all \in Nat, mod \in Nat \ {0} :
            all = melody[n].ms + ms /\ mod = UIntMod
      <4>1. UIntMod \in Nat \ {0}
        BY MusicConstants
      <4>2. melody[n].ms \in Nat
        BY <2>2, <4>1 DEF BuzzerNote
      <4>3. melody[n].ms + ms \in Nat
        BY <4>1, <4>2
      <4>4. QED
        BY <4>1, <4>3, Zenon
    <3>3. PICK turns \in Nat : all = (all % mod) + turns * mod
      <4>1. all = (all % mod) + (all \div mod) * mod /\ all \div mod \in Nat
        OBVIOUS
      <4>2. QED
        BY <4>1
    <3>4. all % mod \in 0..(mod - 1)
      OBVIOUS
    <3>5. [hz |-> hz, ms |-> all % mod] \in BuzzerNote
      BY <3>2, <3>4 DEF BuzzerNote
    <3>6. QED
      BY <3>1, <3>2, <3>3, <3>5
  <2>4. /\ melody' \in Seq(BuzzerNote) /\ Len(melody') = n /\ melody'[n] = new
        /\ \A i \in 1..(n - 1) : melody'[i] = melody[i]
    BY <1>1, <1>2, <2>1, <2>3
  <2>5. LastsUpTo(melody')[n - 1] = LastsUpTo(melody)[n - 1]
    <3>1. \A i \in 1..(n - 1) : melody'[i].ms = melody[i].ms
      BY <2>4
    <3>2. n - 1 <= Len(melody) /\ n - 1 <= Len(melody')
      BY <1>2, <2>1, <2>4
    <3>3. QED
      BY <1>1, <2>1, <2>4, <3>1, <3>2, SamePrefixLasts, SMTT(30)
  <2>6. LastsUpTo(melody')[n] = LastsUpTo(melody')[n - 1] + new.ms
    BY <2>1, <2>4, LastsUpToIs
  <2>7. LastsUpTo(melody)[n] = LastsUpTo(melody)[n - 1] + melody[n].ms
    BY <1>1, <1>2, <2>1, LastsUpToIs
  <2>8. LastsUpTo(melody)[n - 1] \in Nat /\ melody[n].ms \in Nat
    <3>1. melody[n].ms \in Nat
      BY <2>2, MusicConstants DEF BuzzerNote
    <3>2. n - 1 \in 0..Len(melody)
      BY <1>2, <2>1
    <3>3. QED
      BY <1>1, <3>1, <3>2, LastsUpToIs
  <2>9. TotalMs = LastsUpTo(melody)[n] /\ TotalMs' = LastsUpTo(melody')[n]
    BY <1>2, <2>4 DEF TotalMs
  <2>10. new.ms \in Nat /\ turns * UIntMod \in Nat
    BY MusicConstants DEF BuzzerNote
  <2>11. TotalMs' + turns * UIntMod = TotalMs + ms
    BY <2>3, <2>5, <2>6, <2>7, <2>8, <2>9, <2>10, MusicConstants
  <2>12. QED
    BY <2>11
<1>4. CASE ~Extends(hz)
  <2>1. PICK new \in BuzzerNote : new.ms = ms /\ melody' = Append(melody, new)
    <3>1. [hz |-> hz, ms |-> ms] \in BuzzerNote
      BY DEF BuzzerNote
    <3>2. QED
      BY <1>4, <3>1 DEF AppendNote
  <2>2. PICK k \in Nat : k = n + 1 /\ k - 1 = n /\ k \in 1..k
    BY <1>2
  <2>3. /\ melody' \in Seq(BuzzerNote) /\ Len(melody') = k /\ melody'[k] = new
        /\ \A i \in 1..n : melody'[i] = melody[i]
    BY <1>1, <1>2, <2>1, <2>2
  <2>4. LastsUpTo(melody')[n] = LastsUpTo(melody)[n]
    BY <1>1, <1>2, <2>2, <2>3, SamePrefixLasts
  <2>5. LastsUpTo(melody')[k] = LastsUpTo(melody')[n] + ms
    <3>1. LastsUpTo(melody')[k] = LastsUpTo(melody')[k - 1] + melody'[k].ms
      BY <2>2, <2>3, LastsUpToIs
    <3>2. QED
      BY <2>1, <2>2, <2>3, <3>1
  <2>6. TotalMs = LastsUpTo(melody)[n] /\ TotalMs' = LastsUpTo(melody')[k]
    BY <1>2, <2>3 DEF TotalMs
  <2>7. TotalMs \in Nat
    BY TotalMsType
  <2>8. TotalMs' + 0 * UIntMod = TotalMs + ms
    BY <2>4, <2>5, <2>6, <2>7, MusicConstants
  <2>9. QED
    BY <2>8
<1>5. QED
  BY <1>3, <1>4

(* Whether p samples may last so long, in products. *)
MayLast(ms, rate, p, hop) ==
  /\ ms * rate >= p * 1000
  /\ ms * rate <= p * 1000 + ((p + hop - 1) \div hop) * rate

(* MelodyLasts with the turns that the unsigned ints have made.            *)
LongInv ==
  pc = "hop" \/ result = "OK" =>
    \E ms \in Nat, turns \in Nat :
      ms = TotalMs + turns * UIntMod /\ MayLast(ms, Rate, played, HopSamples(Rate))

LEMMA InitLasts == Init => LongInv
BY DEF Init, LongInv

LEMMA BuildBeginsLasts == IInv /\ BuildBegins => LongInv'
<1> SUFFICES ASSUME IInv, BuildBegins PROVE LongInv'
  OBVIOUS
<1>1. /\ IInv' /\ TypeOK' /\ melody' = << >> /\ played' = 0 /\ Rate' \in Nat
  <2>1. IInv'
    BY BuildBeginsKeeps
  <2>2. TypeOK' /\ Rate' \in Nat
    BY <2>1, SMTT(30) DEF IInv, TypeOK, Rate, WavFmt
  <2>3. melody' = << >> /\ played' = 0
    BY DEF IInv, HeaderInv, BuildBegins, music
  <2>4. QED
    BY <2>1, <2>2, <2>3
<1>2. TotalMs' = 0
  <2>1. melody' \in Seq(BuzzerNote) /\ Len(melody') = 0
    BY <1>1 DEF TypeOK, BuzzerNote
  <2>2. QED
    BY <2>1, LastsUpToIs DEF TotalMs
<1>3. PICK h \in Nat : h = HopSamples(Rate)' /\ 1 <= h
  <2>1. \A r \in Nat : \E h \in Nat : h = HopSamples(r) /\ 1 <= h
    BY HopType
  <2>2. HopSamples(Rate)' = HopSamples(Rate')
    BY DEF HopSamples, SamplesFor, Max, Least
  <2>3. QED
    BY <1>1, <2>1, <2>2
<1>4. PICK rate \in Nat : rate = Rate'
  BY <1>1
<1>5. MayLast(0, rate, 0, h)
  <2>1. (0 + h - 1) \div h = 0
    BY <1>3
  <2>2. 0 * rate = 0
    OBVIOUS
  <2>3. QED
    BY <2>1, <2>2 DEF MayLast
<1>6. 0 = TotalMs' + 0 * UIntMod
  BY <1>2, MusicConstants
<1>7. \E ms \in Nat, turns \in Nat :
        ms = TotalMs' + turns * UIntMod /\ MayLast(ms, rate, 0, h)
  <2>1. 0 \in Nat
    OBVIOUS
  <2>2. QED
    BY <1>5, <1>6, <2>1, Zenon
<1>8. QED
  BY <1>1, <1>3, <1>4, <1>7, Zenon DEF LongInv

LEMMA HopKeepsLasts == IInv /\ LongInv /\ Hop => LongInv'
<1> SUFFICES ASSUME IInv, LongInv, Hop PROVE LongInv'
  OBVIOUS
<1>1. /\ TypeOK /\ pc = "hop" /\ info' = info /\ played \in Nat /\ TotalMs \in Nat
      /\ played % HopSamples(Rate) = 0 /\ Supported(info.fmt)
  <2>1. TypeOK /\ pc = "hop" /\ active > 0 /\ info' = info
    BY DEF Hop, IInv
  <2>2. played % HopSamples(Rate) = 0 /\ Supported(info.fmt)
    BY <2>1 DEF IInv, HeaderInv, WindowInv
  <2>3. played \in Nat
    BY <2>1 DEF TypeOK
  <2>4. QED
    BY <2>1, <2>2, <2>3, TotalMsType
<1>2. PICK rate \in Nat : rate = Rate /\ rate > 0
  <2>1. info.fmt \in WavFmt
    BY <1>1 DEF TypeOK
  <2>2. QED
    BY <1>1, <2>1, FrameType DEF Rate
<1>3. PICK h \in Nat, play \in Nat :
        h = HopSamples(Rate) /\ play \in 1..h /\ play = PlaySamples
  BY HopPlays
<1>4. PICK n \in Detections(Rate) :
        /\ tracker' = Update(tracker, n)
        /\ AppendNote(Hz(tracker'.stable), DurationMs(PlaySamples, Rate))
  BY DEF Hop
<1>5. Hz(tracker'.stable) \in Nat
  <2>1. tracker'.stable \in Note \cup {NoNote}
    BY HopKeeps, SMTT(30) DEF IInv, TypeOK
  <2>2. QED
    BY <2>1, NoteType
<1>6. PICK ms \in Nat : /\ ms = DurationMs(PlaySamples, Rate)
                        /\ ms * rate >= play * 1000
                        /\ ms * rate <= play * 1000 + rate
  <2>1. play \in Nat /\ play > 0
    BY <1>3
  <2>2. PICK ms \in Nat : /\ ms = DurationMs(play, rate)
                          /\ ms * rate >= play * 1000
                          /\ ms * rate < play * 1000 + rate
    BY <1>2, <2>1, DurationRoundsUp
  <2>3. ms * rate <= play * 1000 + rate
    BY <2>2
  <2>4. QED
    BY <1>2, <1>3, <2>2, <2>3
<1>7. PICK more \in Nat : TotalMs' + more * UIntMod = TotalMs + ms
  <2>1. ms \in 0..(UIntMod - 1)
    BY <1>2, <1>3, <1>6, HopFitsUInt
  <2>2. AppendNote(Hz(tracker'.stable), ms)
    BY <1>4, <1>6
  <2>3. QED
    BY <1>1, <1>5, <2>1, <2>2, AppendLasts
<1>8. PICK p \in Nat : p = played
  BY <1>1
<1>9. PICK hops \in Int : /\ hops = (p + h - 1) \div h
                          /\ (p + play + h - 1) \div h = hops + 1
  <2>1. p % h = 0 /\ 1 <= h
    BY <1>1, <1>3, <1>8
  <2>2. (p + play + h - 1) \div h = (p + h - 1) \div h + 1
    <3>1. \A d \in Nat, q \in Nat : \A k \in 1..d : 1 <= d /\ q % d = 0 =>
            (q + k + d - 1) \div d = (q + d - 1) \div d + 1
      BY OneMoreHop
    <3>2. h \in Nat /\ p \in Nat /\ play \in 1..h
      BY <1>3, <1>8
    <3>3. QED
      BY <2>1, <3>1, <3>2, Zenon
  <2>3. (p + h - 1) \div h \in Int
    BY <2>1
  <2>4. QED
    BY <2>2, <2>3
<1>10. PICK t \in Nat, turns \in Nat :
         t = TotalMs + turns * UIntMod /\ MayLast(t, rate, p, h)
  BY <1>1, <1>2, <1>3, <1>8, Zenon DEF LongInv
<1>19. t * rate >= p * 1000 /\ t * rate <= p * 1000 + hops * rate
  BY <1>9, <1>10 DEF MayLast
<1>11. /\ (t + ms) * rate >= (p + play) * 1000
       /\ (t + ms) * rate <= (p + play) * 1000 + (hops + 1) * rate
  BY <1>6, <1>19, HopLasts
<1>12. played' = p + play /\ Rate' = rate /\ HopSamples(Rate)' = h
  <2>1. played' = p + play
    BY <1>3, <1>8 DEF Hop
  <2>2. Rate' = rate /\ HopSamples(Rate)' = h
    BY <1>1, <1>2, <1>3 DEF Rate
  <2>3. QED
    BY <2>1, <2>2
<1>13. TotalMs' \in Nat
  BY HopKeeps, TotalMsNext
<1>14. t + ms = TotalMs' + (turns + more) * UIntMod
  <2>1. /\ turns * UIntMod \in Nat /\ more * UIntMod \in Nat
        /\ (turns + more) * UIntMod = turns * UIntMod + more * UIntMod
    BY UIntModType, MoreTurns
  <2>2. PICK a \in Nat, b \in Nat : a = turns * UIntMod /\ b = more * UIntMod
    BY <2>1, Zenon
  <2>3. (turns + more) * UIntMod = a + b
    BY <2>1, <2>2, Zenon
  <2>7. t = TotalMs + a
    BY <1>10, <2>2, Zenon
  <2>4. TotalMs' + b = TotalMs + ms
    BY <1>7, <2>2, Zenon
  <2>8. PICK old \in Nat, new \in Nat : old = TotalMs /\ new = TotalMs'
    BY <1>1, <1>13
  <2>9. new + b = old + ms /\ t = old + a
    BY <2>4, <2>7, <2>8
  <2>10. t + ms = new + (a + b)
    BY <2>9
  <2>11. t + ms = TotalMs' + (a + b)
    BY <2>8, <2>10
  <2>12. QED
    BY <2>3, <2>11, Zenon
<1>15. PICK new \in Nat : new = t + ms
  OBVIOUS
<1>16. MayLast(new, rate, p + play, h)
  BY <1>9, <1>11, <1>15 DEF MayLast
<1>17. \E q \in Nat, k \in Nat :
         q = TotalMs' + k * UIntMod /\ MayLast(q, rate, p + play, h)
  <2>1. turns + more \in Nat
    OBVIOUS
  <2>2. QED
    BY <1>14, <1>15, <1>16, <2>1, Zenon
<1>18. QED
  BY <1>12, <1>17, Zenon DEF LongInv

(* The steps that leave the melody as it is, or end the call without it.   *)
LEMMA OthersKeepLasts ==
  ASSUME IInv, LongInv, [Next]_vars, ~BuildBegins, ~Hop
  PROVE  LongInv'
<1> USE DEF vars, header, samples, music
<1>1. CASE UNCHANGED vars
  BY <1>1 DEF LongInv, TotalMs, Rate
<1>2. CASE OpenFails \/ ReadRiff \/ NoHeader \/ FmtChunk \/ OtherChunk \/ DataChunk
  <2>1. pc \in {"open", "header"}
    <3>1. OpenFails \/ ReadRiff => pc = "open"
      BY DEF OpenFails, ReadRiff
    <3>2. NoHeader \/ FmtChunk \/ OtherChunk \/ DataChunk => pc = "header"
      BY DEF NoHeader, FmtChunk, OtherChunk, DataChunk
    <3>3. QED
      BY <1>2, <3>1, <3>2
  <2>2. result = "NONE"
    BY <2>1 DEF IInv, HeaderInv
  <2>3. pc' # "hop" /\ result' # "OK"
    <3>1. OpenFails \/ ReadRiff \/ NoHeader => pc' # "hop" /\ result' # "OK"
      BY <2>2 DEF OpenFails, ReadRiff, NoHeader, Return
    <3>2. FmtChunk \/ OtherChunk => pc' # "hop" /\ result' # "OK"
      BY <2>2 DEF FmtChunk, OtherChunk, Return
    <3>3. DataChunk => pc' # "hop" /\ result' # "OK"
      BY <2>2 DEF DataChunk, Return
    <3>4. QED
      BY <1>2, <3>1, <3>2, <3>3
  <2>4. QED
    BY <2>3 DEF LongInv
<1>3. CASE NoMemory
  BY <1>3 DEF NoMemory, Return, LongInv
<1>4. CASE BuildStopped \/ BuildDone \/ RequestStop
  <2>1. (pc' = "hop" \/ result' = "OK") => pc = "hop"
    BY <1>4 DEF BuildStopped, BuildDone, RequestStop, Return, IInv, HeaderInv
  <2>2. melody' = melody /\ played' = played /\ info' = info
    BY <1>4 DEF BuildStopped, BuildDone, RequestStop
  <2>3. QED
    BY <2>1, <2>2 DEF LongInv, TotalMs, Rate
<1>5. QED
  BY <1>1, <1>2, <1>3, <1>4 DEF Next, Step, Rest

LEMMA NextLasts == IInv /\ LongInv /\ [Next]_vars => LongInv'
BY BuildBeginsLasts, HopKeepsLasts, OthersKeepLasts

(* From products to the durations between which the melody's is.           *)
LEMMA BetweenDurations ==
  ASSUME NEW rate \in Nat, rate > 0, NEW a \in Nat, NEW ms \in Nat, NEW hops \in Int,
         ms * rate >= a, ms * rate <= a + hops * rate
  PROVE  ms \in ((a + rate - 1) \div rate)..(a \div rate + hops)
<1>1. PICK lo \in Int : lo = (a + rate - 1) \div rate /\ lo * rate <= a + rate - 1
  OBVIOUS
<1>2. PICK d \in Int : d = a \div rate /\ a < (d + 1) * rate
  OBVIOUS
<1>3. lo <= ms
  <2>1. (lo - 1) * rate < ms * rate
    BY <1>1
  <2>2. QED
    BY <2>1
<1>4. ms <= d + hops
  <2>1. (ms - hops) * rate <= a
    OBVIOUS
  <2>2. (ms - hops) * rate < (d + 1) * rate
    BY <1>2, <2>1
  <2>3. ms - hops < d + 1
    BY <2>2
  <2>4. QED
    BY <2>3
<1>5. QED
  BY <1>1, <1>2, <1>3, <1>4

LEMMA LongLasts == IInv /\ LongInv => MelodyLasts
<1> SUFFICES ASSUME IInv, LongInv, pc = "hop" \/ result = "OK" PROVE MelodyLasts
  BY DEF MelodyLasts
<1>1. /\ info.fmt \in WavFmt /\ Supported(info.fmt) /\ played \in Nat
      /\ TotalMs \in Nat
  BY TotalMsType DEF IInv, TypeOK, HeaderInv
<1>2. PICK rate \in Nat : rate = Rate /\ rate > 0
  BY <1>1, FrameType DEF Rate
<1>3. PICK h \in Nat : h = HopSamples(Rate) /\ 1 <= h
  BY <1>2, HopType
<1>4. PICK a \in Nat : a = played * 1000
  BY <1>1
<1>5. PICK hops \in Int : hops = (played + h - 1) \div h
  BY <1>1, <1>3
<1>6. PICK ms \in Nat, turns \in Nat :
        ms = TotalMs + turns * UIntMod /\ MayLast(ms, rate, played, h)
  BY <1>2, <1>3, Zenon DEF LongInv
<1>20. ms * rate >= a /\ ms * rate <= a + hops * rate
  BY <1>4, <1>5, <1>6 DEF MayLast
<1>7. ms \in ((a + rate - 1) \div rate)..(a \div rate + hops)
  BY <1>2, <1>20, BetweenDurations
<1>8. ms >= TotalMs /\ ms % UIntMod = TotalMs % UIntMod
  BY <1>1, <1>6, UIntModType, TurnsVanish
<1>9. LeastMs = (a + rate - 1) \div rate /\ MostMs = a \div rate + hops
  BY <1>2, <1>3, <1>4, <1>5 DEF LeastMs, MostMs, Hops
<1>10. ms \in LeastMs..MostMs
  BY <1>7, <1>9
<1>11. QED
  BY <1>8, <1>10, Zenon DEF MelodyLasts

-----------------------------------------------------------------------------
(* Why the call ends                                                       *)

Phase == [open |-> 1, header |-> 2, build |-> 3, hop |-> 4, done |-> 5]

(* A step of the call begins a later phase of it, or comes further in the  *)
(* same file: in the header by the bytes of a chunk, in the melody by the  *)
(* samples of a hop, of which there are no more than the file has.         *)
Advances ==
  \/ Phase[pc] < Phase[pc']
  \/ pc = "header" /\ pc' = "header" /\ file' = file
     /\ pos < pos' /\ pos < file.length
  \/ pc = "hop" /\ pc' = "hop" /\ AllFrames' = AllFrames
     /\ played < played' /\ played' <= AllFrames

LEMMA HeaderAdvances ==
  ASSUME IInv, FmtChunk \/ OtherChunk, pc' = "header"
  PROVE  Advances
<1>1. pc = "header" /\ file' = file /\ file \in WavFile /\ pos \in Nat
  <2>1. pc = "header" /\ file' = file
    BY DEF FmtChunk, OtherChunk
  <2>2. file \in WavFile /\ pos \in Nat
    BY DEF IInv, TypeOK
  <2>3. QED
    BY <2>1, <2>2
<1>2. PICK c \in Headers : pos' = AfterFmt(pos, c.size)
                           \/ pos' = pos + HeaderSize + Padded(c.size)
  BY DEF FmtChunk, OtherChunk, Return
<1>3. PICK s \in Nat : s = c.size
  BY <1>1, <1>2, HeaderType DEF Headers
<1>4. pos + 8 <= file.length /\ file.length \in Nat
  BY <1>1, <1>2, LengthType DEF Headers, HeadersAt, HeaderSize
<1>5. pos + HeaderSize + Padded(s) > pos
  BY <1>1 DEF HeaderSize, Padded
<1>6. AfterFmt(pos, s) > pos
  BY <1>1 DEF AfterFmt, HeaderSize, FmtSize, Padded
<1>7. QED
  BY <1>1, <1>2, <1>3, <1>4, <1>5, <1>6 DEF Advances

LEMMA HopAdvances ==
  ASSUME IInv, IInv', Hop
  PROVE  Advances
<1>1. /\ pc = "hop" /\ pc' = "hop" /\ AllFrames' = AllFrames /\ played \in Nat
  <2>1. /\ pc = "hop" /\ pc' = "hop" /\ AllFrames' = AllFrames
    BY DEF Hop, AllFrames
  <2>2. played \in Nat
    BY DEF IInv, TypeOK
  <2>3. QED
    BY <2>1, <2>2
<1>2. PICK play \in Nat : played' = played + play /\ play >= 1
  BY HopPlays DEF Hop
<1>3. PICK now \in Nat, y \in Nat :
        /\ now = active' /\ y = FramesFrom(file, info.fmt, pos, remaining)'
        /\ played' + now + y = AllFrames'
  <2>1. /\ info'.fmt \in WavFmt /\ Supported(info'.fmt) /\ file' \in WavFile
        /\ pos' \in Nat /\ remaining' \in Nat /\ active' \in Nat
    <3>1. TypeOK' /\ HeaderInv'
      BY DEF IInv
    <3>2. info'.fmt \in WavFmt /\ file' \in WavFile
      BY <3>1 DEF TypeOK
    <3>3. pos' \in Nat /\ remaining' \in Nat /\ active' \in Nat
      BY <3>1 DEF TypeOK
    <3>4. Supported(info'.fmt)
      BY <1>1, <3>1 DEF HeaderInv
    <3>5. QED
      BY <3>2, <3>3, <3>4
  <2>2. FramesFrom(file', info'.fmt, pos', remaining') \in Nat
    BY <2>1, LengthType, FramesType
  <2>3. played' + active' + FramesFrom(file', info'.fmt, pos', remaining') = AllFrames'
    BY <1>1 DEF IInv, MelodyCoversMusic
  <2>4. QED
    BY <2>1, <2>2, <2>3
<1>4. played < played' /\ played' <= AllFrames
  BY <1>1, <1>2, <1>3
<1>5. QED
  BY <1>1, <1>4 DEF Advances

LEMMA StepAdvances == IInv /\ IInv' /\ Step => Advances
<1> SUFFICES ASSUME IInv, IInv', Step PROVE Advances
  OBVIOUS
<1>1. CASE Hop
  BY <1>1, HopAdvances
<1>2. CASE (FmtChunk \/ OtherChunk) /\ pc' = "header"
  BY <1>2, HeaderAdvances
<1>3. CASE FmtChunk /\ pc' # "header"
  BY <1>3 DEF FmtChunk, Return, Advances, Phase
<1>4. CASE OpenFails \/ ReadRiff
  BY <1>4 DEF OpenFails, ReadRiff, Return, Advances, Phase
<1>5. CASE NoHeader \/ DataChunk
  <2>1. pc = "header" /\ pc' \in {"build", "done"}
    BY <1>5 DEF NoHeader, DataChunk, Return
  <2>2. QED
    BY <2>1 DEF Advances, Phase
<1>6. CASE BuildBegins \/ NoMemory \/ BuildStopped \/ BuildDone
  BY <1>6 DEF BuildBegins, NoMemory, BuildStopped, BuildDone, Return, Advances, Phase
<1>7. OtherChunk => pc' = "header"
  BY DEF OtherChunk
<1>8. QED
  BY <1>1, <1>2, <1>3, <1>4, <1>5, <1>6, <1>7 DEF Step

-----------------------------------------------------------------------------
(* What follows for the call.                                              *)

(* The reader's position and format, the counts of samples and the         *)
(* tracker's state stay in step in every state: see IInv.                  *)
THEOREM Inductive == Spec => []IInv
<1>1. QED
  BY InitIInv, NextIInv, PTL DEF Spec

(* The window on the stack is never filled beyond its 4096 samples, and    *)
(* melody_buffer_append never writes behind its array.                     *)
THEOREM TypeCorrect == Spec => []TypeOK
<1>1. IInv => TypeOK
  BY DEF IInv
<1>2. QED
  BY <1>1, Inductive, PTL

(* wav_read_header accepts the files that their chunks say can be played,  *)
(* and finds the samples where they are, odd fmt chunks excepted.          *)
THEOREM HeaderIsRead == Spec => []HeaderMatchesReference
<1>1. IInv => HeaderMatchesReference
  BY DEF IInv
<1>2. QED
  BY <1>1, Inductive, PTL

(* Every whole frame of the data that is there is played once, and no note *)
(* is struck twice.                                                        *)
THEOREM EveryFramePlayed == Spec => []MelodyCoversMusic
<1>1. IInv => MelodyCoversMusic
  BY DEF IInv
<1>2. QED
  BY <1>1, Inductive, PTL

(* Short gaps in the melody are bridged and long ones are silent.          *)
THEOREM GapsAreBridged == Spec => []GapsBridged
<1>1. IInv => GapsBridged
  BY DEF IInv
<1>2. QED
  BY <1>1, Inductive, PTL

(* A melody lasts as long as the samples it was made from, and at most a   *)
(* millisecond a hop longer: samples_to_duration_ms rounds every hop up,   *)
(* and melody_buffer_append loses no duration, whether it starts a note or *)
(* lengthens the last one, but the whole turns of 2^32 ms that the         *)
(* duration of one note has made.                                          *)
THEOREM MelodyIsAsLong == Spec => []MelodyLasts
<1>1. Spec => []LongInv
  BY InitLasts, NextLasts, Inductive, PTL DEF Spec
<1>2. QED
  BY <1>1, LongLasts, Inductive, PTL

(* No chunk, of whatever size and wherever the file was cut, makes the     *)
(* header's loop turn in place, nor does a hop without samples the         *)
(* melody's: each takes the call further in a file that does not grow.     *)
(* That a step is possible until then is BuildEnds.                        *)
THEOREM CallAdvances == Spec => [][Step => Advances]_vars
<1>1. IInv /\ IInv' /\ [Next]_vars => [Step => Advances]_vars
  BY StepAdvances
<1>2. QED
  BY <1>1, Inductive, PTL DEF Spec

=============================================================================
