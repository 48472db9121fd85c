---- MODULE Rendering_proofs ----
(***************************************************************************)
(* Proofs about Rendering for any rates, channel counts, sound lengths and *)
(* buffer sizes: what is played is in time, and is heard whole.            *)
(***************************************************************************)
EXTENDS Rendering, TLAPS

\* The cursor at the end of a sound.
Length(pb) == FramesOf(pb) * Unit

\* The cursor lags behind where the time played puts it by whole rounds only.
InStep(pb) ==
  /\ \E k \in Nat : (~pb.repeat => k = 0) /\ pb.cursor + k * Length(pb) \in Near(pb)
  /\ pb.finished => ~pb.repeat /\ Length(pb) <= pb.cursor

\* Devices of the sound's own rate never leave the cursor between two frames.
Whole(pb) == pb.met \subseteq {pb.rate} => pb.cursor % Unit = 0

\* HeardWhole for an unfinished sound: nothing behind the cursor was left out.
HeardSoFar(pb) ==
  (Slow(pb) /\ pb.channels <= DeviceChannels) =>
    \A s \in 0..(pb.samples - 1) :
      s \div pb.channels < Index(pb.cursor) => s \in pb.heard

Sound(pb) == Accepted(pb) /\ InStep(pb) /\ Whole(pb) /\ HeardSoFar(pb)

IInv ==
  /\ TypeOK
  /\ (decoder # None /\ decoder.ready) => Accepted(decoder)
  /\ playback # None => Sound(playback)
  /\ left > 0 => playback # None /\ device # None

----
(* Arithmetic *)

\* Multiplication is monotonic.
LEMMA TimesMono ==
  ASSUME NEW a \in Nat, NEW b \in Nat, NEW k \in Nat, a <= b
  PROVE  a * k <= b * k
OBVIOUS

\* What \div and % compute.
LEMMA DivMod ==
  ASSUME NEW a \in Nat, NEW b \in Nat \ {0}
  PROVE  /\ a \div b \in Nat /\ a % b \in 0..(b - 1)
         /\ a % b = a - (a \div b) * b
OBVIOUS

\* There is one quotient and one remainder.
LEMMA DivUnique ==
  ASSUME NEW q \in Nat, NEW b \in Nat \ {0}, NEW r \in 0..(b - 1)
  PROVE  (q * b + r) \div b = q /\ (q * b + r) % b = r
<1> DEFINE a == q * b + r
<1>1. a \in Nat
  OBVIOUS
<1>2. a \div b \in Nat /\ a % b \in 0..(b - 1) /\ a % b = a - (a \div b) * b
  BY <1>1, DivMod
<1>3. ASSUME NEW x \in Nat, NEW s \in 0..(b - 1), q * b + r = x * b + s PROVE x = q
  <2>1. CASE x >= q + 1
    <3>1. (q + 1) * b <= x * b
      BY <2>1, TimesMono
    <3>2. (q + 1) * b = q * b + b
      OBVIOUS
    <3>3. q * b \in Nat /\ x * b \in Nat
      OBVIOUS
    <3> QED
      BY <1>3, <3>1, <3>2, <3>3
  <2>2. CASE q >= x + 1
    <3>1. (x + 1) * b <= q * b
      BY <2>2, TimesMono
    <3>2. (x + 1) * b = x * b + b
      OBVIOUS
    <3>3. q * b \in Nat /\ x * b \in Nat
      OBVIOUS
    <3> QED
      BY <1>3, <3>1, <3>2, <3>3
  <2> QED
    BY <2>1, <2>2
<1>4. a \div b = q
  BY <1>2, <1>3
<1>5. a % b = r
  BY <1>2, <1>4
<1> QED
  BY <1>4, <1>5

\* A cursor is in the sound exactly when the frame it points into is.
LEMMA DivBelow ==
  ASSUME NEW c \in Nat, NEW f \in Nat, NEW u \in Nat \ {0}
  PROVE  c \div u < f <=> c < f * u
<1>1. c \div u \in Nat /\ c % u \in 0..(u - 1) /\ c % u = c - (c \div u) * u
  BY DivMod
<1> DEFINE q == c \div u
           r == c % u
<1> HIDE DEF q, r
<1>2. q \in Nat /\ r \in 0..(u - 1) /\ c = q * u + r
  BY <1>1 DEF q, r
<1>3. q * u \in Nat /\ f * u \in Nat /\ (q + 1) * u = q * u + u
  BY <1>2
<1>4. CASE q < f
  <2>1. (q + 1) * u <= f * u
    BY <1>2, <1>4, TimesMono
  <2> QED
    BY <2>1, <1>2, <1>3, <1>4 DEF q
<1>5. CASE f <= q
  <2>1. f * u <= q * u
    BY <1>2, <1>5, TimesMono
  <2> QED
    BY <2>1, <1>2, <1>3, <1>5 DEF q
<1> QED
  BY <1>2, <1>4, <1>5

\* Adding or taking away whole frames keeps a cursor at the start of a frame.
LEMMA WholeAdd ==
  ASSUME NEW c \in Nat, NEW u \in Nat \ {0}, c % u = 0
  PROVE  (c + u) % u = 0 /\ (c + u) \div u = (c \div u) + 1
<1> DEFINE q == c \div u
           z == q + 1
<1>1. q \in Nat /\ c = q * u
  BY DivMod
<1> HIDE DEF q
<1>2. z \in Nat /\ z * u = q * u + u /\ 0 \in 0..(u - 1)
  BY <1>1
<1>3. c + u = z * u + 0
  BY <1>1, <1>2
<1> HIDE DEF z
<1>4. (z * u + 0) \div u = z /\ (z * u + 0) % u = 0
  BY <1>2, DivUnique
<1> QED
  BY <1>3, <1>4 DEF z, q

LEMMA WholeMod ==
  ASSUME NEW c \in Nat, NEW f \in Nat \ {0}, NEW u \in Nat \ {0}, c % u = 0
  PROVE  (c % (f * u)) % u = 0
<1> DEFINE n == f * u
           q == c \div u
           k == c \div n
           z == q - k * f
<1>1. n \in Nat \ {0}
  BY TimesMono
<1>2. q \in Nat /\ c = q * u
  BY DivMod
<1>3. k \in Nat /\ c % n \in 0..(n - 1) /\ c % n = c - k * n
  <2> HIDE DEF n
  <2> QED
    BY <1>1, DivMod
<1> HIDE DEF q, k
<1>4. k * f \in Nat /\ k * n = (k * f) * u
  BY <1>3
<1>5. (k * f) * u <= q * u
  <2>1. k * n <= q * u
    <3> HIDE DEF n
    <3> QED
      BY <1>1, <1>2, <1>3
  <2> QED
    BY <1>4, <2>1
<1>6. k * f <= q
  <2> DEFINE j == k * f
  <2>1. j \in Nat /\ j * u <= q * u
    BY <1>4, <1>5
  <2> HIDE DEF j
  <2>2. CASE q + 1 <= j
    <3>1. (q + 1) * u <= j * u /\ (q + 1) * u = q * u + u /\ q * u \in Nat /\ j * u \in Nat
      BY <1>2, <2>1, <2>2, TimesMono
    <3> QED
      BY <2>1, <3>1
  <2> QED
    BY <1>2, <2>1, <2>2 DEF j
<1>7. z \in Nat /\ z * u = q * u - (k * f) * u
  BY <1>2, <1>4, <1>6
<1>8. c % n = z * u + 0
  <2>1. c % n = q * u - k * n
    BY <1>2, <1>3
  <2>2. z * u \in Nat /\ k * n = (k * f) * u
    BY <1>4, <1>7
  <2> HIDE DEF n, z
  <2> QED
    BY <1>7, <2>1, <2>2
<1> HIDE DEF z
<1>9. 0 \in 0..(u - 1)
  OBVIOUS
<1>10. (z * u + 0) % u = 0
  BY <1>7, <1>9, DivUnique
<1> QED
  BY <1>8, <1>10 DEF n

\* A repeated sound of f frames: the frame at time p is the one at p modulo the
\* length of the sound.
LEMMA DueLemma ==
  ASSUME NEW p \in Nat, NEW f \in Nat \ {0}, NEW u \in Nat \ {0}
  PROVE  (p \div u) % f = (p % (f * u)) \div u
<1> DEFINE n == f * u
           k == p \div n
           c == p % n
           i == c \div u
           r == c % u
<1>1. n \in Nat \ {0}
  BY TimesMono
<1>2. k \in Nat /\ c \in 0..(n - 1) /\ c = p - k * n
  <2> HIDE DEF n
  <2> QED
    BY <1>1, DivMod
<1> HIDE DEF k, c
<1>c. c \in Nat
  BY <1>1, <1>2
<1>3. i \in Nat /\ r \in 0..(u - 1) /\ r = c - i * u
  BY <1>c, DivMod
<1>4. i < f
  BY <1>c, <1>2, DivBelow
<1> HIDE DEF i, r
<1>5. k * n = (k * f) * u /\ k * f \in Nat
  BY <1>2
<1>6. (k * f + i) * u = (k * f) * u + i * u /\ k * f + i \in Nat
  BY <1>3, <1>5
<1>7. p = (k * f + i) * u + r
  <2> HIDE DEF n
  <2> QED
    BY <1>1, <1>2, <1>3, <1>5, <1>6
<1>8. p \div u = k * f + i
  BY <1>3, <1>6, <1>7, DivUnique
<1>9. (k * f + i) % f = i
  BY <1>2, <1>3, <1>4, DivUnique
<1> QED
  BY <1>8, <1>9 DEF i, c, n

----
(* One frame *)

\* The measures of an accepted sound: whole frames, at least one.
LEMMA Shape ==
  ASSUME NEW pb \in Playbacks, Accepted(pb)
  PROVE  /\ FramesOf(pb) \in Nat \ {0}
         /\ pb.samples = FramesOf(pb) * pb.channels
         /\ Length(pb) \in Nat \ {0}
<1>1. pb.samples \in Nat \ {0} /\ pb.channels \in Nat \ {0} /\ pb.samples % pb.channels = 0
  <2>1. pb.samples \in 0..MaxSamples /\ pb.channels \in SourceChannels \ {0}
    BY DEF Playbacks
  <2>2. MaxSamples \in Nat
    BY RenderingAssumption
  <2>3. pb.samples \in Nat
    BY <2>1, <2>2
  <2>4. pb.channels \in Nat \ {0}
    BY <2>1, RenderingAssumption
  <2> QED
    BY <2>3, <2>4 DEF Accepted
<1>2. FramesOf(pb) \in Nat /\ 0 = pb.samples - FramesOf(pb) * pb.channels
  BY <1>1, DivMod DEF FramesOf
<1>3. FramesOf(pb) # 0
  BY <1>1, <1>2
<1>4. Length(pb) \in Nat /\ FramesOf(pb) * Unit >= 1 * Unit
  BY <1>2, <1>3, TimesMono, RenderingAssumption DEF Length
<1>5. Length(pb) # 0
  BY <1>4, RenderingAssumption DEF Length
<1> QED
  BY <1>1, <1>2, <1>3, <1>4, <1>5

\* A frame of the sound has a sample for every channel of the device.
LEMMA SampleInRange ==
  ASSUME NEW pb \in Playbacks, Accepted(pb),
         NEW i \in Nat, i < FramesOf(pb), NEW ch \in Nat
  PROVE  /\ i * pb.channels + (ch % pb.channels) \in 0..(pb.samples - 1)
         /\ Get(pb, i * pb.channels + (ch % pb.channels)) = i * pb.channels + (ch % pb.channels)
<1> DEFINE c == pb.channels
           f == FramesOf(pb)
           r == ch % c
<1>1. c \in Nat \ {0} /\ f \in Nat /\ pb.samples = f * c
  BY Shape, RenderingAssumption DEF Playbacks
<1>2. r \in 0..(c - 1)
  <2> HIDE DEF c
  <2> QED
    BY <1>1, DivMod
<1> HIDE DEF c, f, r
<1>3. (i + 1) * c <= f * c
  BY <1>1, TimesMono DEF f
<1>4. (i + 1) * c = i * c + c /\ i * c \in Nat /\ f * c \in Nat
  BY <1>1
<1>5. i * c + r \in 0..(pb.samples - 1)
  BY <1>1, <1>2, <1>3, <1>4
<1>6. pb.samples \in Nat /\ i * c + r < pb.samples
  BY <1>1, <1>4, <1>5
<1> QED
  BY <1>5, <1>6 DEF Get, c, r

\* What Upmix writes.
LEMMA UpmixFacts ==
  ASSUME NEW pb \in Playbacks, Accepted(pb), NEW i \in Nat, i < FramesOf(pb)
  PROVE  /\ Upmix(pb, i) = [ch \in DOMAIN Silence |-> i * pb.channels + (ch % pb.channels)]
         /\ Upmix(pb, i) \in Frames
         /\ DOMAIN Upmix(pb, i) = 0..(DeviceChannels - 1)
         /\ \A ch \in DOMAIN Upmix(pb, i) : Upmix(pb, i)[ch] \in 0..MaxSamples
<1>1. DOMAIN Silence = 0..(DeviceChannels - 1)
  BY DEF Silence
<1>2. \A ch \in 0..(DeviceChannels - 1) : ch \in Nat
  BY RenderingAssumption
<1>3. ASSUME NEW ch \in 0..(DeviceChannels - 1)
      PROVE  /\ Get(pb, i * pb.channels + (ch % pb.channels)) = i * pb.channels + (ch % pb.channels)
             /\ i * pb.channels + (ch % pb.channels) \in 0..(pb.samples - 1)
  BY <1>2, SampleInRange
<1>4. 0..(pb.samples - 1) \subseteq 0..MaxSamples
  BY RenderingAssumption DEF Playbacks
<1> QED
  BY <1>1, <1>3, <1>4 DEF Upmix, Frames

\* The frame a sample belongs to.
LEMMA SampleFrame ==
  ASSUME NEW pb \in Playbacks, NEW s \in 0..(pb.samples - 1)
  PROVE  s \div pb.channels \in Nat
<1>1. pb.channels \in SourceChannels \ {0} /\ pb.samples \in 0..MaxSamples
  BY DEF Playbacks
<1>2. pb.channels \in Nat \ {0} /\ MaxSamples \in Nat
  BY <1>1, RenderingAssumption
<1>3. s \in Nat
  BY <1>1, <1>2
<1> QED
  BY <1>2, <1>3, DivMod


\* Indices grow with the cursor.
LEMMA IndexMono ==
  ASSUME NEW b \in Nat, NEW c \in Nat, b <= c
  PROVE  Index(b) <= Index(c) /\ Index(b) \in Nat /\ Index(c) \in Nat
<1>1. Unit \in Nat \ {0}
  BY RenderingAssumption
<1>2. Index(b) \in Nat /\ Index(c) \in Nat
  BY <1>1, DivMod DEF Index
<1>3. ~(b < Index(b) * Unit) /\ Index(b) * Unit \in Nat
  BY <1>1, <1>2, DivBelow DEF Index
<1>4. Index(c) < Index(b) <=> c < Index(b) * Unit
  BY <1>1, <1>2, DivBelow DEF Index
<1> QED
  BY <1>2, <1>3, <1>4

\* Every sample of a frame is written when the device has enough channels.
LEMMA FrameIsHeard ==
  ASSUME NEW pb \in Playbacks, Accepted(pb), pb.channels <= DeviceChannels,
         NEW s \in 0..(pb.samples - 1), NEW i \in Nat, i < FramesOf(pb),
         s \div pb.channels = i
  PROVE  \E ch \in DOMAIN Upmix(pb, i) : Upmix(pb, i)[ch] = s
<1> DEFINE c == pb.channels
           r == s % c
<1>1. c \in Nat \ {0} /\ s \in Nat /\ DeviceChannels \in Nat
  <2>1. c \in SourceChannels \ {0} /\ pb.samples \in 0..MaxSamples
    BY DEF Playbacks
  <2>2. c \in Nat \ {0} /\ MaxSamples \in Nat /\ DeviceChannels \in Nat
    BY <2>1, RenderingAssumption
  <2> HIDE DEF c
  <2> QED
    BY <2>1, <2>2
<1>2. r \in 0..(c - 1) /\ r = s - i * c
  <2>1. s % c \in 0..(c - 1) /\ s % c = s - (s \div c) * c
    <3> HIDE DEF c
    <3> QED
      BY <1>1, DivMod
  <2> QED
    BY <2>1
<1>3. r % c = r
  <2> HIDE DEF c, r
  <2>1. c \in Nat \ {0} /\ r \in 0..(c - 1) /\ 0 \in Nat
    BY <1>1, <1>2
  <2>2. (0 * c + r) % c = r
    BY <2>1, DivUnique, Zenon
  <2>3. 0 * c + r = r
    BY <2>1
  <2> QED
    BY <2>2, <2>3, Zenon
<1> HIDE DEF r
<1>4. r \in 0..(DeviceChannels - 1)
  BY <1>1, <1>2
<1>5. Upmix(pb, i)[r] = i * c + r
  <2>1. Upmix(pb, i) = [ch \in 0..(DeviceChannels - 1) |-> i * c + (ch % c)]
    BY UpmixFacts DEF Silence
  <2> HIDE DEF c
  <2>2. Upmix(pb, i)[r] = i * c + (r % c)
    BY <1>4, <2>1, Zenon
  <2> QED
    BY <1>3, <2>2
<1>6. i * c \in Nat /\ i * c + r = s
  <2> HIDE DEF c
  <2> QED
    BY <1>1, <1>2
<1> QED
  BY <1>4, <1>5, <1>6, UpmixFacts

\* The unchanged part of a playback, and its history.
SameSound(e, pb) ==
  /\ e.samples = pb.samples /\ e.channels = pb.channels
  /\ e.rate = pb.rate /\ e.repeat = pb.repeat

SameHistory(e, pb) ==
  /\ e.elapsed = pb.elapsed /\ e.frames_played = pb.frames_played
  /\ e.met = pb.met /\ e.heard = pb.heard

\* What is due depends on nothing else.
LEMMA SameDue ==
  ASSUME NEW e, NEW pb, SameSound(e, pb), SameHistory(e, pb)
  PROVE  /\ FramesOf(e) = FramesOf(pb) /\ Length(e) = Length(pb)
         /\ Accepted(e) = Accepted(pb) /\ Slow(e) = Slow(pb) /\ Near(e) = Near(pb)
         /\ \A x : FrameAt(e, x) = FrameAt(pb, x)
BY DEF SameSound, SameHistory, FramesOf, Length, Accepted, Slow, Near, FrameAt

\* The numbers that Near is about.
LEMMA NearNumbers ==
  ASSUME NEW pb \in Playbacks
  PROVE  /\ pb.rate \in Nat /\ pb.elapsed \in Nat /\ pb.frames_played \in Nat
         /\ pb.cursor \in Nat /\ Err \in Nat /\ Unit \in Nat \ {0}
         /\ pb.rate * pb.elapsed \in Nat /\ Err * pb.frames_played \in Nat
         /\ \A x \in Nat : x \in Near(pb) <=>
              /\ pb.rate * pb.elapsed - Err * pb.frames_played <= x
              /\ x <= pb.rate * pb.elapsed + Err * pb.frames_played
<1>1. /\ pb.rate \in Nat /\ pb.elapsed \in Nat /\ pb.frames_played \in Nat
      /\ pb.cursor \in Nat /\ Err \in Nat /\ Unit \in Nat \ {0}
  BY RenderingAssumption, RoundingAssumption DEF Playbacks
<1>2. pb.rate * pb.elapsed \in Nat /\ Err * pb.frames_played \in Nat
  BY <1>1
<1> QED
  BY <1>1, <1>2 DEF Near

\* AtEnd takes whole rounds off the cursor of a repeated sound, and finishes one
\* that is not repeated.
LEMMA AtEndFacts ==
  ASSUME NEW pb \in Playbacks, Sound(pb), ~pb.finished
  PROVE  /\ AtEnd(pb) \in Playbacks /\ Sound(AtEnd(pb))
         /\ SameSound(AtEnd(pb), pb) /\ SameHistory(AtEnd(pb), pb)
         /\ AtEnd(pb).finished \/ AtEnd(pb).cursor < Length(AtEnd(pb))
<1> DEFINE n == Length(pb)
           c == pb.cursor
<1>1. FramesOf(pb) \in Nat \ {0} /\ n \in Nat \ {0} /\ c \in Nat /\ Unit \in Nat \ {0}
  BY Shape, NearNumbers DEF Sound
<1>2. Index(pb.cursor) < FramesOf(pb) <=> pb.cursor < Length(pb)
  BY <1>1, DivBelow DEF Index, Length
<1>3. CASE pb.cursor < Length(pb)
  <2>1. AtEnd(pb) = pb
    BY <1>2, <1>3 DEF AtEnd
  <2> QED
    BY <1>3, <2>1 DEF SameSound, SameHistory
<1>4. CASE ~(pb.cursor < Length(pb)) /\ pb.repeat
  <2> DEFINE e == AtEnd(pb)
             q == c \div n
  <2>1. e = [pb EXCEPT !.cursor = @ % Length(pb)]
    BY <1>2, <1>4 DEF AtEnd, Wrap, Length
  <2>2. q \in Nat /\ c % n \in 0..(n - 1) /\ c % n = c - q * n
    <3> HIDE DEF n, c
    <3> QED
      BY <1>1, DivMod
  <2>3. q * n \in Nat /\ c % n \in Nat /\ c % n < n /\ c % n <= c
    <3> HIDE DEF n, c, q
    <3> QED
      BY <1>1, <2>2
  <2>4. /\ e \in Playbacks /\ e.cursor = c % n /\ ~e.finished
        /\ SameSound(e, pb) /\ SameHistory(e, pb)
    BY <2>1, <2>3 DEF Playbacks, SameSound, SameHistory
  <2> HIDE DEF e, q
  <2>5. /\ FramesOf(e) = FramesOf(pb) /\ Length(e) = n /\ Accepted(e) /\ Slow(e) = Slow(pb)
        /\ Near(e) = Near(pb)
    BY <2>4, SameDue DEF Sound
  <2>6. InStep(e)
    <3>1. PICK k \in Nat : c + k * n \in Near(pb)
      BY DEF Sound, InStep
    <3>2. q + k \in Nat /\ (q + k) * n = q * n + k * n /\ k * n \in Nat
      <4> HIDE DEF n
      <4> QED
        BY <1>1, <2>2
    <3>3. (c % n) + (q + k) * n = c + k * n
      <4> HIDE DEF n, c
      <4> QED
        BY <1>1, <2>2, <2>3, <3>2
    <3>4. e.cursor + (q + k) * Length(e) \in Near(e)
      BY <2>4, <2>5, <3>1, <3>3
    <3>5. e.repeat
      BY <1>4, <2>4 DEF SameSound
    <3> QED
      BY <2>4, <3>2, <3>4, <3>5 DEF InStep
  <2>7. Whole(e)
    <3>1. SUFFICES ASSUME pb.met \subseteq {pb.rate} PROVE e.cursor % Unit = 0
      BY <2>4 DEF Whole, SameSound, SameHistory
    <3>2. pb.cursor % Unit = 0
      BY <3>1 DEF Sound, Whole
    <3>3. (pb.cursor % (FramesOf(pb) * Unit)) % Unit = 0
      BY <1>1, <3>2, WholeMod
    <3> QED
      BY <2>4, <3>3 DEF Length
  <2>8. HeardSoFar(e)
    <3>1. Index(e.cursor) <= Index(pb.cursor) /\ Index(e.cursor) \in Nat /\ Index(pb.cursor) \in Nat
      BY <1>1, <2>3, <2>4, IndexMono
    <3>2. SUFFICES ASSUME Slow(pb), pb.channels <= DeviceChannels, NEW s \in 0..(pb.samples - 1),
                          s \div pb.channels < Index(e.cursor)
                   PROVE  s \in pb.heard
      BY <2>4, <2>5 DEF HeardSoFar, SameSound, SameHistory
    <3>3. s \div pb.channels \in Nat
      BY SampleFrame
    <3>4. s \div pb.channels < Index(pb.cursor)
      BY <3>1, <3>2, <3>3
    <3> QED
      BY <3>2, <3>4 DEF Sound, HeardSoFar
  <2> QED
    BY <2>3, <2>4, <2>5, <2>6, <2>7, <2>8 DEF Sound, e
<1>5. CASE ~(pb.cursor < Length(pb)) /\ ~pb.repeat
  <2> DEFINE e == AtEnd(pb)
  <2>1. e = [pb EXCEPT !.finished = TRUE]
    BY <1>2, <1>5 DEF AtEnd
  <2>2. /\ e \in Playbacks /\ e.cursor = pb.cursor /\ e.finished
        /\ SameSound(e, pb) /\ SameHistory(e, pb)
    BY <2>1 DEF Playbacks, SameSound, SameHistory
  <2> HIDE DEF e
  <2>3. /\ FramesOf(e) = FramesOf(pb) /\ Length(e) = n /\ Accepted(e) /\ Slow(e) = Slow(pb)
        /\ Near(e) = Near(pb)
    BY <2>2, SameDue DEF Sound
  <2>4. InStep(e)
    <3>1. Length(pb) <= pb.cursor
      BY <1>1, <1>5
    <3> QED
      BY <1>5, <2>2, <2>3, <3>1 DEF Sound, InStep, SameSound
  <2>5. Whole(e) /\ HeardSoFar(e)
    BY <2>2, <2>3 DEF Sound, Whole, HeardSoFar, SameSound, SameHistory
  <2> QED
    BY <2>2, <2>3, <2>4, <2>5 DEF Sound, e
<1> QED
  BY <1>3, <1>4, <1>5

\* The frame at the cursor is the one that is due.
LEMMA DueFacts ==
  ASSUME NEW pb \in Playbacks, Sound(pb), pb.cursor < Length(pb)
  PROVE  /\ Index(pb.cursor) \in Nat /\ Index(pb.cursor) < FramesOf(pb)
         /\ \E x \in Near(pb) : Upmix(pb, Index(pb.cursor)) = FrameAt(pb, x)
<1> DEFINE f == FramesOf(pb)
           n == Length(pb)
           c == pb.cursor
           i == Index(c)
<1>1. f \in Nat \ {0} /\ n \in Nat \ {0} /\ c \in Nat /\ Unit \in Nat \ {0} /\ n = f * Unit
  BY Shape, NearNumbers DEF Sound, Length
<1>2. i \in Nat /\ i < f
  BY <1>1, DivBelow, DivMod DEF Index
<1>3. PICK k \in Nat : (~pb.repeat => k = 0) /\ c + k * n \in Near(pb)
  BY DEF Sound, InStep
<1> DEFINE x == c + k * n
<1> HIDE DEF f, n, c
<1>4. x = k * n + c /\ c \in 0..(n - 1) /\ x \in Nat
  BY <1>1 DEF n, c
<1>5. x % n = c
  <2>1. (k * n + c) % n = c
    BY <1>1, <1>4, DivUnique
  <2> HIDE DEF x
  <2> QED
    BY <1>4, <2>1
<1>6. (x \div Unit) % f = i
  <2> HIDE DEF x
  <2>1. (x \div Unit) % f = (x % (f * Unit)) \div Unit
    BY <1>1, <1>4, DueLemma
  <2> QED
    BY <1>1, <1>5, <2>1 DEF Index
<1>7. pb.repeat \/ x < f * Unit
  <2>1. CASE k = 0
    BY <1>1, <1>4, <2>1
  <2> QED
    BY <1>3, <2>1
<1> HIDE DEF x
<1>8. FrameAt(pb, x) = [ch \in DOMAIN Silence |-> i * pb.channels + (ch % pb.channels)]
  <2>1. f > 0
    BY <1>1
  <2> HIDE DEF i
  <2> QED
    BY <1>6, <1>7, <2>1 DEF FrameAt, f
<1>9. Upmix(pb, i) = [ch \in DOMAIN Silence |-> i * pb.channels + (ch % pb.channels)]
  <2> HIDE DEF i
  <2> QED
    BY <1>2, UpmixFacts DEF Sound, f
<1> QED
  BY <1>2, <1>3, <1>8, <1>9 DEF x, f, c

\* A finished sound is over.
LEMMA FinishedIsOver ==
  ASSUME NEW pb \in Playbacks, Sound(pb), pb.finished
  PROVE  \E x \in Near(pb) : FrameAt(pb, x) = Silence
<1>1. ~pb.repeat /\ Length(pb) <= pb.cursor
  BY DEF Sound, InStep
<1>2. Length(pb) \in Nat /\ pb.cursor \in Nat
  BY Shape, NearNumbers DEF Sound
<1>3. pb.cursor \in Near(pb)
  <2>1. PICK k \in Nat : k = 0 /\ pb.cursor + k * Length(pb) \in Near(pb)
    BY <1>1 DEF Sound, InStep
  <2>2. pb.cursor + k * Length(pb) = pb.cursor
    BY <1>2, <2>1
  <2> QED
    BY <2>1, <2>2
<1>4. ~(pb.cursor < FramesOf(pb) * Unit)
  BY <1>1, <1>2 DEF Length
<1> QED
  BY <1>1, <1>3, <1>4 DEF FrameAt


\* A step goes forward by the time that passed, give or take a rounding error.
LEMMA RoundedFacts ==
  ASSUME NEW pb \in Playbacks, device \in DeviceRates, NEW y \in Rounded(pb)
  PROVE  /\ Unit \div device \in Nat /\ Step(pb) \in Nat /\ y \in Nat
         /\ Step(pb) = pb.rate * (Unit \div device)
         /\ pb.cursor + Step(pb) - Err <= y /\ y <= pb.cursor + Step(pb) + Err
<1>1. device \in Nat \ {0} /\ pb.rate \in SourceRates
  BY RenderingAssumption DEF Playbacks
<1>2. Unit \div device \in Nat
  BY <1>1, NearNumbers, DivMod
<1>3. Step(pb) = pb.rate * (Unit \div device) /\ Err < Step(pb)
  BY <1>1, RoundingAssumption DEF Step
<1>4. Step(pb) \in Nat
  BY <1>2, <1>3, NearNumbers
<1> DEFINE z == pb.cursor + Step(pb)
<1>5. z \in Nat /\ Err \in Nat /\ Err < z
  BY <1>3, <1>4, NearNumbers
<1>6. y = z \/ y \in (z - Err)..(z + Err)
  BY DEF Rounded
<1> HIDE DEF z
<1>7. y \in Nat /\ z - Err <= y /\ y <= z + Err
  BY <1>5, <1>6
<1> QED
  BY <1>2, <1>3, <1>4, <1>7, NearNumbers DEF z

\* A device of the sound's own rate takes it to the start of the next frame.
LEMMA EqualStep ==
  ASSUME NEW pb \in Playbacks, device \in DeviceRates, NEW y \in Rounded(pb),
         pb.rate = device, pb.cursor % Unit = 0
  PROVE  y % Unit = 0 /\ Index(y) = Index(pb.cursor) + 1
<1>1. device \in Nat \ {0} /\ Unit \in Nat \ {0} /\ Unit % device = 0 /\ pb.cursor \in Nat
  BY RenderingAssumption, NearNumbers
<1>2. Step(pb) = Unit
  <2> DEFINE t == Unit \div device
  <2>1. t \in Nat /\ 0 = Unit - t * device
    BY <1>1, DivMod
  <2> HIDE DEF t
  <2>2. device * t = Unit
    BY <1>1, <2>1
  <2> QED
    BY <2>2 DEF Step, t
<1>3. Unit % Unit = 0
  <2>1. (1 * Unit + 0) % Unit = 0
    BY <1>1, DivUnique
  <2> QED
    BY <1>1, <2>1
<1>4. y = pb.cursor + Unit
  BY <1>2, <1>3 DEF Rounded
<1> QED
  BY <1>1, <1>4, WholeAdd DEF Index

\* A faster device moves it by one frame at most.
LEMMA SlowStep ==
  ASSUME NEW pb \in Playbacks, device \in DeviceRates, NEW y \in Rounded(pb),
         pb.rate < device
  PROVE  Index(y) <= Index(pb.cursor) + 1
<1> DEFINE c == pb.cursor
           i == Index(c)
           j == i + 2
<1>1. Unit \in Nat \ {0} /\ c \in Nat /\ y \in Nat /\ Step(pb) \in Nat /\ Err \in Nat
      /\ y <= c + Step(pb) + Err
  BY NearNumbers, RoundedFacts
<1>2. Step(pb) + Err <= Unit
  BY RoundingAssumption DEF Step, Playbacks
<1>3. i \in Nat
  BY <1>1, DivMod DEF Index
<1>4. c < (i + 1) * Unit
  BY <1>1, <1>3, DivBelow DEF Index
<1> HIDE DEF i, c
<1>5. j \in Nat /\ j * Unit = (i + 1) * Unit + Unit /\ (i + 1) * Unit \in Nat
  BY <1>1, <1>3
<1>6. y < j * Unit
  <2> HIDE DEF j
  <2> QED
    BY <1>1, <1>2, <1>4, <1>5
<1> HIDE DEF j
<1>7. y \div Unit < j /\ y \div Unit \in Nat
  BY <1>1, <1>5, <1>6, DivBelow, DivMod
<1> QED
  BY <1>3, <1>7 DEF i, c, j, Index

\* A frame is written and the cursor moves on: the sound stays in step, and
\* nothing is skipped.
LEMMA AdvanceFacts ==
  ASSUME NEW e \in Playbacks, Sound(e), ~e.finished, e.cursor < Length(e),
         device \in DeviceRates, NEW y \in Rounded(e),
         NEW n, n = Advance(e, Upmix(e, Index(e.cursor)), y)
  PROVE  n \in Playbacks /\ Sound(n) /\ ~n.finished
<1> DEFINE i == Index(e.cursor)
           frame == Upmix(e, i)
           t == Unit \div device
<1>1. i \in Nat /\ i < FramesOf(e)
  BY DueFacts
<1>2. /\ t \in Nat /\ Step(e) \in Nat /\ y \in Nat /\ Step(e) = e.rate * t
      /\ e.cursor + Step(e) - Err <= y /\ y <= e.cursor + Step(e) + Err
  BY RoundedFacts
<1>3. n = [e EXCEPT !.cursor = y, !.frames_played = @ + 1, !.elapsed = @ + t,
                    !.met = @ \cup {device},
                    !.heard = @ \cup {frame[ch] : ch \in DOMAIN frame}]
  BY DEF Advance
<1>4. e.heard \cup {frame[ch] : ch \in DOMAIN frame} \in SUBSET (0..MaxSamples)
  BY <1>1, UpmixFacts DEF Playbacks, Sound
<1> HIDE DEF frame, i, t
<1>5. /\ n \in Playbacks /\ SameSound(n, e) /\ ~n.finished
      /\ n.cursor = y /\ n.elapsed = e.elapsed + t /\ n.frames_played = e.frames_played + 1
      /\ n.met = e.met \cup {device}
      /\ n.heard = e.heard \cup {frame[ch] : ch \in DOMAIN frame}
  <2>1. e.frames_played + 1 \in Nat /\ e.elapsed + t \in Nat
    BY <1>2, NearNumbers
  <2>2. e.met \cup {device} \in SUBSET DeviceRates
    BY DEF Playbacks
  <2> QED
    BY <1>2, <1>3, <1>4, <2>1, <2>2 DEF Playbacks, SameSound
<1>6. FramesOf(n) = FramesOf(e) /\ Length(n) = Length(e) /\ Accepted(n)
  BY <1>5 DEF SameSound, FramesOf, Length, Sound, Accepted
<1>7. InStep(n)
  <2>1. PICK k \in Nat : (~e.repeat => k = 0) /\ e.cursor + k * Length(e) \in Near(e)
    BY DEF Sound, InStep
  <2> DEFINE kn == k * Length(e)
             p == e.rate * e.elapsed
             r == Err * e.frames_played
  <2>2. kn \in Nat /\ p \in Nat /\ r \in Nat /\ e.cursor \in Nat /\ Err \in Nat
    <3>1. Length(e) \in Nat
      BY Shape DEF Sound
    <3> QED
      BY <3>1, NearNumbers
  <2>3. p - r <= e.cursor + kn /\ e.cursor + kn <= p + r
    <3>1. e.cursor + kn \in Nat
      BY <2>2
    <3> QED
      BY <2>1, <3>1, NearNumbers
  <2>4. n.rate * n.elapsed = p + Step(e) /\ Err * n.frames_played = r + Err
    <3>1. n.rate * n.elapsed = e.rate * (e.elapsed + t) /\ Err * n.frames_played = Err * (e.frames_played + 1)
      BY <1>5 DEF SameSound
    <3>2. e.rate * (e.elapsed + t) = p + Step(e) /\ Err * (e.frames_played + 1) = r + Err
      BY <1>2, NearNumbers
    <3> QED
      BY <3>1, <3>2
  <2> HIDE DEF kn, p, r
  <2>5. y + kn \in Nat /\ (p + Step(e)) - (r + Err) <= y + kn /\ y + kn <= (p + Step(e)) + (r + Err)
    BY <1>2, <2>2, <2>3
  <2>6. y + kn \in Near(n)
    BY <1>5, <2>4, <2>5, NearNumbers
  <2> QED
    BY <1>5, <1>6, <2>1, <2>6 DEF InStep, SameSound, kn
<1>8. Whole(n)
  <2>1. SUFFICES ASSUME n.met \subseteq {n.rate} PROVE n.cursor % Unit = 0
    BY DEF Whole
  <2>2. e.met \subseteq {e.rate} /\ e.rate = device
    BY <1>5, <2>1 DEF SameSound
  <2>3. e.cursor % Unit = 0
    BY <2>2 DEF Sound, Whole
  <2> QED
    BY <1>5, <2>2, <2>3, EqualStep
<1>9. HeardSoFar(n)
  <2> SUFFICES ASSUME Slow(n), n.channels <= DeviceChannels, NEW s \in 0..(n.samples - 1),
                      s \div n.channels < Index(n.cursor)
               PROVE  s \in n.heard
    BY DEF HeardSoFar
  <2>1. s \in 0..(e.samples - 1) /\ n.channels = e.channels /\ n.rate = e.rate
    BY <1>5 DEF SameSound
  <2>2. Slow(e)
    BY <1>5, <2>1 DEF Slow
  <2>3. Index(n.cursor) <= i + 1
    <3>1. CASE \A d \in n.met : n.rate < d
      BY <1>5, <2>1, <3>1, SlowStep DEF i
    <3>2. CASE n.met \subseteq {n.rate}
      <4>1. e.met \subseteq {e.rate} /\ e.rate = device
        BY <1>5, <2>1, <3>2
      <4>2. e.cursor % Unit = 0
        BY <4>1 DEF Sound, Whole
      <4>3. Index(y) = i + 1
        BY <4>1, <4>2, EqualStep DEF i
      <4> QED
        BY <1>1, <1>5, <4>3
    <3> QED
      BY <3>1, <3>2 DEF Slow
  <2>4. s \div e.channels \in Nat
    BY <2>1, SampleFrame
  <2>5. Index(n.cursor) \in Nat
    BY <1>2, <1>5, NearNumbers, DivMod DEF Index
  <2>6. CASE s \div e.channels < i
    BY <1>5, <2>1, <2>2, <2>6 DEF Sound, HeardSoFar, i
  <2>7. CASE s \div e.channels = i
    <3>1. \E ch \in DOMAIN frame : frame[ch] = s
      BY <1>1, <2>1, <2>7, FrameIsHeard DEF Sound, frame
    <3> QED
      BY <1>5, <3>1
  <2> QED
    BY <1>1, <2>1, <2>3, <2>4, <2>5, <2>6, <2>7
<1> QED
  BY <1>5, <1>6, <1>7, <1>8, <1>9 DEF Sound


----
(* The steps *)

\* Silence is a frame.
LEMMA SilenceType == Silence \in Frames
BY DEF Silence, Frames

\* One round of fill_f32 writes the frame that is due.
LEMMA FrameFacts ==
  ASSUME IInv, Frame
  PROVE  /\ playback \in Playbacks /\ device \in DeviceRates /\ Sound(playback)
         /\ left' = left - 1 /\ left > 0
         /\ \/ playback' \in Playbacks /\ Sound(playback')
            \/ playback' = None /\ left = 1
         /\ out' \in Frames
         /\ DueIsWritten
<1>1. playback \in Playbacks /\ device \in DeviceRates /\ Sound(playback) /\ left > 0 /\ left' = left - 1
  BY DEF IInv, TypeOK, Frame
<1>2. FramesOf(playback) # 0
  BY <1>1, Shape DEF Sound
<1>3. CASE playback.finished
  <2>1. out' = Silence /\ (playback' = playback \/ (playback' = None /\ left = 1))
    <3>1. Silent(playback)
      BY <1>3 DEF Silent
    <3> QED
      BY <3>1 DEF Frame
  <2>2. \E x \in Near(playback) : FrameAt(playback, x) = Silence
    BY <1>1, <1>3, FinishedIsOver
  <2> QED
    BY <1>1, <2>1, <2>2, SilenceType DEF DueIsWritten
<1> DEFINE e == AtEnd(playback)
<1>4. ASSUME ~playback.finished
      PROVE  /\ e \in Playbacks /\ Sound(e) /\ FramesOf(e) = FramesOf(playback)
             /\ Near(e) = Near(playback) /\ \A x : FrameAt(e, x) = FrameAt(playback, x)
             /\ e.finished \/ e.cursor < Length(e)
  BY <1>1, <1>4, AtEndFacts, SameDue
<1>5. CASE ~playback.finished /\ e.finished
  <2>1. out' = Silence /\ (playback' = e \/ (playback' = None /\ left = 1))
    <3>1. ~Silent(playback) /\ Silent(e)
      BY <1>2, <1>5 DEF Silent
    <3> QED
      BY <3>1 DEF Frame
  <2>2. \E x \in Near(e) : FrameAt(e, x) = Silence
    <3> HIDE DEF e
    <3> QED
      BY <1>4, <1>5, FinishedIsOver
  <2> HIDE DEF e
  <2> QED
    BY <1>1, <1>4, <1>5, <2>1, <2>2, SilenceType DEF DueIsWritten
<1>6. CASE ~playback.finished /\ ~e.finished
  <2> DEFINE i == Index(e.cursor)
             frame == Upmix(e, i)
  <2>1. e \in Playbacks /\ Sound(e) /\ Accepted(e) /\ e.cursor < Length(e)
    BY <1>4, <1>6 DEF Sound
  <2>2. ~Silent(playback) /\ ~Silent(e)
    BY <1>2, <1>4, <1>6 DEF Silent
  <2>3. out' = frame /\ \E next \in {Advance(e, frame, y) : y \in Rounded(e)} :
                          playback' = IF left = 1 /\ next.finished /\ ~next.repeat THEN None ELSE next
    BY <2>2 DEF Frame
  <2> HIDE DEF e
  <2>4. PICK y \in Rounded(e) :
          playback' = IF left = 1 /\ Advance(e, frame, y).finished /\ ~Advance(e, frame, y).repeat
                      THEN None ELSE Advance(e, frame, y)
    BY <2>3
  <2> DEFINE n == Advance(e, frame, y)
  <2>5. n \in Playbacks /\ Sound(n) /\ ~n.finished
    <3> HIDE DEF n
    <3> QED
      BY <1>1, <1>6, <2>1, AdvanceFacts DEF n
  <2>6. playback' = n
    BY <2>4, <2>5
  <2> HIDE DEF n
  <2>7. i \in Nat /\ i < FramesOf(e) /\ \E x \in Near(e) : frame = FrameAt(e, x)
    BY <2>1, DueFacts
  <2> HIDE DEF i
  <2>8. frame \in Frames
    BY <2>1, <2>7, UpmixFacts
  <2> HIDE DEF frame
  <2>9. DueIsWritten
    BY <1>4, <1>6, <2>3, <2>7 DEF DueIsWritten
  <2> QED
    BY <1>1, <2>3, <2>5, <2>6, <2>8, <2>9
<1> QED
  BY <1>3, <1>5, <1>6

\* Nothing plays at the start.
LEMMA InitInv == Init => IInv
BY SilenceType, RenderingAssumption DEF Init, IInv, TypeOK

\* The steps of decode: a sound is ready only when it was accepted.
LEMMA DecodeInv ==
  ASSUME IInv, Decode
  PROVE  IInv'
<1> USE DEF IInv
<1>0. UNCHANGED <<playback, left, device, out>>
  BY DEF Decode, Open, Packet, DecodeError, EndOfStream
<1>1. ASSUME NEW c \in SourceChannels, NEW r \in SourceRates, Open(c, r)
      PROVE  decoder' \in Decoders /\ ~decoder'.ready
  <2>1. c # 0 /\ 0 \in 0..MaxSamples
    BY <1>1, RenderingAssumption DEF Open
  <2> QED
    BY <1>1, <2>1 DEF Open, Decoders
<1>2. ASSUME NEW n \in 0..MaxSamples, Packet(n)
      PROVE  decoder' \in Decoders /\ ~decoder'.ready
  <2>1. decoder \in Decoders /\ ~decoder.ready /\ decoder.samples + n <= MaxSamples
        /\ decoder' = [decoder EXCEPT !.samples = @ + n]
    BY <1>2 DEF Packet, TypeOK
  <2>2. MaxSamples \in Nat /\ decoder.samples \in 0..MaxSamples
    BY <2>1, RenderingAssumption DEF Decoders
  <2>3. decoder.samples + n \in 0..MaxSamples
    BY <2>1, <2>2
  <2> QED
    BY <2>1, <2>3 DEF Decoders
<1>3. ASSUME EndOfStream
      PROVE  decoder' = None \/ (decoder' \in Decoders /\ Accepted(decoder'))
  <2>1. decoder \in Decoders
    BY <1>3 DEF EndOfStream, TypeOK
  <2> DEFINE d == [decoder EXCEPT !.ready = TRUE]
  <2>2. d \in Decoders /\ d.samples = decoder.samples /\ d.channels = decoder.channels
    BY <2>1 DEF Decoders
  <2>3. Accepted(decoder) => Accepted(d)
    BY <2>2 DEF Accepted
  <2>4. decoder' = IF Accepted(decoder) THEN d ELSE None
    BY <1>3 DEF EndOfStream
  <2> QED
    BY <2>2, <2>3, <2>4
<1>4. decoder' = None \/ (decoder' \in Decoders /\ (decoder'.ready => Accepted(decoder')))
  <2>1. CASE DecodeError
    BY <2>1 DEF DecodeError
  <2> QED
    BY <1>1, <1>2, <1>3, <2>1 DEF Decode
<1>5. TypeOK'
  BY <1>0, <1>4 DEF TypeOK
<1>6. playback' # None => Sound(playback)'
  BY <1>0 DEF Sound, Accepted, InStep, Whole, HeardSoFar, Slow, Length, Near, FramesOf, Index
<1> QED
  BY <1>0, <1>4, <1>5, <1>6 DEF Accepted

\* handle_play starts the accepted sound from its first frame.
LEMMA HandlePlayInv ==
  ASSUME IInv, NEW repeat \in BOOLEAN, HandlePlay(repeat)
  PROVE  IInv'
<1> USE DEF IInv
<1>0. UNCHANGED <<left, device, out>> /\ decoder' = None /\ left = 0
  BY DEF HandlePlay
<1> DEFINE n == [samples |-> decoder.samples, channels |-> decoder.channels,
                 rate |-> decoder.rate, repeat |-> repeat, cursor |-> 0,
                 frames_played |-> 0, finished |-> FALSE, elapsed |-> 0,
                 met |-> {}, heard |-> {}]
<1>1. decoder \in Decoders /\ Accepted(decoder)
  BY DEF HandlePlay, TypeOK
<1>2. playback' = playback \/ playback' = n
  BY DEF HandlePlay
<1>3. n \in Playbacks /\ Accepted(n)
  BY <1>1 DEF Decoders, Playbacks, Accepted
<1>4. /\ n.cursor = 0 /\ n.elapsed = 0 /\ n.frames_played = 0 /\ ~n.finished /\ n.rate \in Nat
  BY <1>1, RenderingAssumption DEF Decoders
<1> HIDE DEF n
<1>5. InStep(n) /\ Whole(n)
  <2>1. 0 * Length(n) = 0 /\ n.rate * n.elapsed = 0 /\ Err * n.frames_played = 0
    <3>1. Length(n) \in Nat
      BY <1>3, Shape
    <3> QED
      BY <1>3, <1>4, <3>1, NearNumbers
  <2>2. n.cursor + 0 * Length(n) = 0
    BY <1>4, <2>1
  <2>3. 0 \in Near(n)
    BY <2>1 DEF Near
  <2>4. 0 % Unit = 0
    BY RenderingAssumption
  <2> QED
    BY <1>4, <2>2, <2>3, <2>4 DEF InStep, Whole
<1>6. HeardSoFar(n)
  <2>1. Index(0) = 0
    BY RenderingAssumption DEF Index
  <2>2. ASSUME NEW s \in 0..(n.samples - 1) PROVE ~(s \div n.channels < 0)
    <3>1. s \div n.channels \in Nat
      BY <1>3, SampleFrame
    <3> QED
      BY <3>1
  <2> QED
    BY <1>4, <2>1, <2>2 DEF HeardSoFar
<1>7. playback' # None => playback' \in Playbacks /\ Sound(playback')
  BY <1>2, <1>3, <1>5, <1>6 DEF Sound, TypeOK
<1>8. TypeOK'
  BY <1>0, <1>7 DEF TypeOK
<1>9. Sound(playback') => Sound(playback)'
  BY DEF Sound, Accepted, InStep, Whole, HeardSoFar, Slow, Length, Near, FramesOf, Index
<1> QED
  BY <1>0, <1>7, <1>8, <1>9 DEF HandlePlay

\* The steps between frames.
LEMMA BetweenInv ==
  ASSUME IInv, HandleStop \/ SwitchStream \/ (\E n \in 1..MaxBuffer : Callback(n)) \/ UNCHANGED vars
  PROVE  IInv'
<1> USE DEF IInv
<1>1. decoder' = decoder /\ (playback' = playback \/ (playback' = None /\ left' = left /\ left = 0))
  BY DEF HandleStop, SwitchStream, Callback, vars
<1>2. left' \in 0..MaxBuffer
  BY RenderingAssumption DEF HandleStop, SwitchStream, Callback, vars, TypeOK
<1>3. device' \in DeviceRates \cup {None}
  BY DEF HandleStop, SwitchStream, Callback, vars, TypeOK
<1>4. TypeOK'
  BY <1>1, <1>2, <1>3 DEF HandleStop, SwitchStream, Callback, vars, TypeOK
<1>5. playback' # None => Sound(playback)'
  BY <1>1 DEF Sound, Accepted, InStep, Whole, HeardSoFar, Slow, Length, Near, FramesOf, Index
<1>6. left' > 0 => playback' # None /\ device' # None
  BY DEF HandleStop, SwitchStream, Callback, vars
<1> QED
  BY <1>1, <1>4, <1>5, <1>6 DEF Accepted

\* A frame is written.
LEMMA FrameInv ==
  ASSUME IInv, Frame
  PROVE  IInv'
<1> USE DEF IInv
<1>1. /\ playback \in Playbacks /\ device \in DeviceRates
      /\ left' = left - 1 /\ left > 0 /\ left \in 0..MaxBuffer
      /\ \/ playback' \in Playbacks /\ Sound(playback')
         \/ playback' = None /\ left = 1
      /\ out' \in Frames /\ UNCHANGED <<decoder, device>>
  BY FrameFacts DEF Frame, TypeOK
<1>2. left' \in 0..MaxBuffer
  BY <1>1, RenderingAssumption
<1>3. TypeOK'
  BY <1>1, <1>2 DEF TypeOK
<1>4. Sound(playback') => Sound(playback)'
  BY DEF Sound, Accepted, InStep, Whole, HeardSoFar, Slow, Length, Near, FramesOf, Index
<1>5. left' > 0 => playback' # None /\ device' # None
  BY <1>1, <1>2, AbsentAssumption, RenderingAssumption
<1> QED
  BY <1>1, <1>3, <1>4, <1>5 DEF Accepted

\* Every step keeps the invariant.
LEMMA NextInv == IInv /\ [Next]_vars => IInv'
BY DecodeInv, HandlePlayInv, BetweenInv, FrameInv DEF Next, Fill

----
\* Every reachable state is well typed: in particular no sample outside the sound
\* is ever read, and what is written is a frame of the device.
THEOREM TypeCorrect == Spec => []TypeOK
<1>1. IInv => TypeOK
  BY DEF IInv
<1> QED
  BY <1>1, InitInv, NextInv, PTL DEF Spec

\* Every frame that fill_f32 writes is the one that is due, up to the sum of the
\* rounding errors, for any rates, channel counts and buffer sizes, and any changes
\* of the device.
THEOREM EveryFrameInTime == Spec => PlaysInTime
<1>1. IInv /\ [Next]_vars => [DueIsWritten]_vars
  <2> SUFFICES ASSUME IInv, Next PROVE DueIsWritten
    BY DEF vars
  <2>1. CASE Frame
    BY <2>1, FrameFacts
  <2>2. CASE \E n \in 1..MaxBuffer : Callback(n)
    BY <2>2, RenderingAssumption DEF Callback, DueIsWritten
  <2>3. CASE ~Fill
    <3>1. left' = left
      BY <2>3 DEF Next, Decode, Open, Packet, DecodeError, EndOfStream, HandlePlay,
                  HandleStop, SwitchStream
    <3>2. left \in 0..MaxBuffer /\ MaxBuffer \in Nat
      BY RenderingAssumption DEF IInv, TypeOK
    <3> QED
      BY <3>1, <3>2 DEF DueIsWritten
  <2> QED
    BY <2>1, <2>2, <2>3 DEF Fill
<1> QED
  BY <1>1, InitInv, NextInv, PTL DEF Spec, PlaysInTime

\* A slow sound is finished only when all of it was written.
THEOREM SlowSoundIsHeardWhole == Spec => []HeardWhole
<1>1. IInv => HeardWhole
  <2> SUFFICES ASSUME IInv, playback # None, playback.finished, Slow(playback),
                      playback.channels <= DeviceChannels, NEW s \in 0..(playback.samples - 1)
               PROVE  s \in playback.heard
    BY DEF HeardWhole
  <2>1. playback \in Playbacks /\ Sound(playback) /\ playback.cursor \in Nat
    BY DEF IInv, TypeOK, Playbacks
  <2>2. Length(playback) <= playback.cursor
    BY <2>1 DEF Sound, InStep
  <2>3. /\ FramesOf(playback) \in Nat /\ Length(playback) \in Nat
        /\ playback.samples = FramesOf(playback) * playback.channels
    BY <2>1, Shape DEF Sound
  <2>4. Index(playback.cursor) \in Nat /\ FramesOf(playback) <= Index(playback.cursor)
    <3>1. Unit \in Nat \ {0}
      BY RenderingAssumption
    <3>2. Index(playback.cursor) < FramesOf(playback) <=> playback.cursor < Length(playback)
      BY <2>1, <2>3, <3>1, DivBelow DEF Index, Length
    <3>3. Index(playback.cursor) \in Nat
      BY <2>1, <3>1, DivMod DEF Index
    <3> QED
      BY <2>1, <2>2, <2>3, <3>2, <3>3
  <2>5. playback.channels \in Nat \ {0} /\ playback.samples \in Nat /\ s \in Nat
    <3>1. playback.channels \in SourceChannels \ {0} /\ playback.samples \in 0..MaxSamples
      BY <2>1 DEF Playbacks
    <3>2. playback.channels \in Nat \ {0} /\ MaxSamples \in Nat
      BY <3>1, RenderingAssumption
    <3> QED
      BY <3>1, <3>2
  <2>6. s \div playback.channels < FramesOf(playback) /\ s \div playback.channels \in Nat
    <3>1. s < FramesOf(playback) * playback.channels
      BY <2>3, <2>5
    <3> QED
      BY <2>3, <2>5, <3>1, DivBelow, DivMod
  <2>7. s \div playback.channels < Index(playback.cursor)
    BY <2>3, <2>4, <2>6
  <2> QED
    BY <2>1, <2>7 DEF Sound, HeardSoFar
<1> QED
  BY <1>1, InitInv, NextInv, PTL DEF Spec
====
