---- MODULE Rendering ----
(***************************************************************************)
(* A sound on its way to the loudspeaker: DecodedSound::decode             *)
(* (audio/decoded.rs) and the data callback fill_f32 (audio/cpal_audio.rs) *)
(* with handle_play and handle_stop, which share the playback with it.     *)
(*                                                                         *)
(* A sample is represented by its position in the decoded sound.  The      *)
(* callback fills one buffer under the lock, a frame per step, so play and *)
(* stop fall between buffers.  The device asks for buffers of any size,    *)
(* and may be replaced by one with another rate while a sound plays.       *)
(*                                                                         *)
(* Times are in units of 1/Unit s and cursors in units of 1/Unit source    *)
(* frame.  The cursor is an f64: a step adds src_rate/dst_rate up to a     *)
(* rounding error of at most Err units, of the quotient and of the sum     *)
(* together.  Sums of whole numbers, and remainders, are exact.  Gain is   *)
(* left out: the only ramp of the build multiplies every sample by the     *)
(* target.                                                                 *)
(***************************************************************************)
EXTENDS Integers, Option

CONSTANTS SourceRates,     \* sample rates of sounds
          SourceChannels,  \* channel counts a file header may name, 0 included
          DeviceRates,     \* sample rates of output devices
          DeviceChannels,  \* channels of the output device
          Unit,            \* a common multiple of the device rates
          Err,             \* bound of the rounding error of one step
          MaxSamples,      \* bound: samples of a decoded sound
          MaxBuffer,       \* bound: frames of one buffer
          MaxElapsed       \* bound: time for which a repeated sound is followed

ASSUME RenderingAssumption ==
  /\ SourceRates \subseteq Nat \ {0}
  /\ SourceChannels \subseteq Nat
  /\ DeviceRates \subseteq Nat \ {0}
  /\ DeviceChannels \in Nat \ {0}
  /\ Unit \in Nat \ {0}
  /\ \A d \in DeviceRates : Unit % d = 0
  /\ {MaxSamples, MaxBuffer, MaxElapsed} \subseteq Nat
  /\ None \notin DeviceRates

\* The error is smaller than any step, and smaller than what a step of less than
\* a frame lacks to a whole one.
ASSUME RoundingAssumption ==
  /\ Err \in Nat
  /\ \A s \in SourceRates, d \in DeviceRates :
       /\ Err < s * (Unit \div d)
       /\ s < d => s * (Unit \div d) + Err <= Unit

VARIABLES decoder,   \* the DecodedSound being read or ready to be played
          playback,  \* Shared.playback
          left,      \* frames the running callback has still to fill, 0 between
                     \* callbacks: the lock is free
          device,    \* rate of the open output stream, None when there is none
          out        \* the last frame that was written

vars == <<decoder, playback, left, device, out>>

Decoders == [ready : BOOLEAN, samples : 0..MaxSamples,
             channels : SourceChannels \ {0}, rate : SourceRates]

\* elapsed, met and heard are history: the time for which the sound was played,
\* the rates of the devices that played it, and the samples that were written.
Playbacks == [samples : 0..MaxSamples, channels : SourceChannels \ {0},
              rate : SourceRates, repeat : BOOLEAN, cursor : Nat,
              frames_played : Nat, finished : BOOLEAN, elapsed : Nat,
              met : SUBSET DeviceRates, heard : SUBSET (0..MaxSamples)]

\* No sound is not a sound.
ASSUME AbsentAssumption == None \notin Decoders /\ None \notin Playbacks

\* What one frame of the device holds: a sample, or None for 0.0, per channel.
Frames == [0..(DeviceChannels - 1) -> 0..MaxSamples \cup {None}]

Silence == [ch \in 0..(DeviceChannels - 1) |-> None]

Init ==
  /\ decoder = None
  /\ playback = None
  /\ left = 0
  /\ device \in DeviceRates \cup {None}
  /\ out = Silence

----
(* DecodedSound::decode *)

\* Mutant of Open: the channel count is taken as it is.
OpenAnyLayout(channels, rate) ==
  /\ decoder = None
  /\ decoder' = [ready |-> FALSE, samples |-> 0, channels |-> channels,
                 rate |-> rate]
  /\ UNCHANGED <<playback, left, device, out>>

\* The header is read; a file without channels is refused.
Open(channels, rate) ==
  /\ decoder = None
  /\ channels > 0
  /\ decoder' = [ready |-> FALSE, samples |-> 0, channels |-> channels,
                 rate |-> rate]
  /\ UNCHANGED <<playback, left, device, out>>

\* A packet of n samples is appended.  n = 0 is also a packet of another track
\* or a corrupt one, which is skipped.
Packet(n) ==
  /\ decoder # None /\ ~decoder.ready
  /\ decoder.samples + n <= MaxSamples
  /\ decoder' = [decoder EXCEPT !.samples = @ + n]
  /\ UNCHANGED <<playback, left, device, out>>

\* Any other error of the reader or the decoder fails the whole sound.
DecodeError ==
  /\ decoder # None /\ ~decoder.ready
  /\ decoder' = None
  /\ UNCHANGED <<playback, left, device, out>>

\* Mutant of Accepted: a sound without samples is accepted.
AcceptedEmpty(d) == d.samples % d.channels = 0

\* Mutant of Accepted: half a frame at the end is let through.
AcceptedRagged(d) == d.samples >= d.channels

Accepted(d) == d.samples > 0 /\ d.samples % d.channels = 0

\* UnexpectedEof or ResetRequired: what was read so far is the sound.
EndOfStream ==
  /\ decoder # None /\ ~decoder.ready
  /\ decoder' = IF Accepted(decoder) THEN [decoder EXCEPT !.ready = TRUE] ELSE None
  /\ UNCHANGED <<playback, left, device, out>>

----
(* The worker's side of Shared *)

\* handle_play replaces the playback, or refuses when no stream is open.
HandlePlay(repeat) ==
  /\ decoder # None /\ decoder.ready
  /\ left = 0
  /\ playback' = IF device = None THEN playback
                 ELSE [samples |-> decoder.samples, channels |-> decoder.channels,
                       rate |-> decoder.rate, repeat |-> repeat, cursor |-> 0,
                       frames_played |-> 0, finished |-> FALSE, elapsed |-> 0,
                       met |-> {}, heard |-> {}]
  /\ decoder' = None
  /\ UNCHANGED <<left, device, out>>

HandleStop ==
  /\ playback # None
  /\ left = 0
  /\ playback' = None
  /\ UNCHANGED <<decoder, left, device, out>>

\* The stream is dropped, or one is built on the device that is there now.
\* Dropping a stream joins its callback thread.
SwitchStream ==
  /\ left = 0
  /\ device' \in IF device = None THEN DeviceRates ELSE {None}
  /\ UNCHANGED <<decoder, playback, left, out>>

----
(* fill_f32 *)

FramesOf(s) == s.samples \div s.channels

\* step before it is rounded, for a device rate that is never 0
Step(pb) == pb.rate * (Unit \div device)

Index(cursor) == cursor \div Unit

\* Mutant of Wrap: a repeated sound starts over at its first frame.
WrapToStart(pb) == [pb EXCEPT !.cursor = 0]

Wrap(pb) == [pb EXCEPT !.cursor = @ % (FramesOf(pb) * Unit)]

\* The cursor has run off the end: start over or finish.
AtEnd(pb) ==
  IF Index(pb.cursor) < FramesOf(pb) THEN pb
  ELSE IF pb.repeat THEN Wrap(pb)
  ELSE [pb EXCEPT !.finished = TRUE]

\* samples.get(i), which is None outside the sound (and 0.0 in the output)
Get(pb, i) == IF i < pb.samples THEN i ELSE None

\* Source frame idx on every channel of the device.
Upmix(pb, idx) ==
  [ch \in DOMAIN Silence |-> Get(pb, idx * pb.channels + (ch % pb.channels))]

\* What cursor_frames += step may give in f64.
Rounded(pb) ==
  LET sum == pb.cursor + Step(pb)
  IN IF pb.cursor % Unit = 0 /\ Step(pb) % Unit = 0 THEN {sum}
     ELSE (sum - Err)..(sum + Err)

Advance(pb, frame, cursor) ==
  [pb EXCEPT !.cursor = cursor,
             !.frames_played = @ + 1,
             !.elapsed = @ + Unit \div device,
             !.met = @ \cup {device},
             !.heard = @ \cup {frame[ch] : ch \in DOMAIN frame}]

\* The device asks for a buffer of n frames; without a playback it gets silence.
Callback(n) ==
  /\ device # None
  /\ left = 0
  /\ playback # None
  /\ playback.repeat => playback.elapsed < MaxElapsed
  /\ left' = n
  /\ UNCHANGED <<decoder, playback, device, out>>

\* A frame that the sound does not fill is silent and leaves the cursor alone.
Silent(pb) == pb.finished \/ FramesOf(pb) = 0

\* One round of the loop, and after the last one the end of the playback.
Frame ==
  LET pb == IF Silent(playback) THEN playback ELSE AtEnd(playback)
      frame == IF Silent(pb) THEN Silence ELSE Upmix(pb, Index(pb.cursor))
      nexts == IF Silent(pb) THEN {pb}
               ELSE {Advance(pb, frame, cursor) : cursor \in Rounded(pb)}
  IN /\ left > 0
     /\ left' = left - 1
     /\ out' = frame
     /\ \E next \in nexts :
          playback' = IF left = 1 /\ next.finished /\ ~next.repeat THEN None ELSE next
     /\ UNCHANGED <<decoder, device>>

Fill == (\E n \in 1..MaxBuffer : Callback(n)) \/ Frame

Decode ==
  \/ \E c \in SourceChannels, r \in SourceRates : Open(c, r)
  \/ \E n \in 0..MaxSamples : Packet(n)
  \/ DecodeError
  \/ EndOfStream

Next ==
  \/ Decode
  \/ \E repeat \in BOOLEAN : HandlePlay(repeat)
  \/ HandleStop
  \/ SwitchStream
  \/ Fill

Spec == Init /\ [][Next]_vars

\* An open stream keeps asking for samples.
FairSpec == Spec /\ WF_vars(Fill)

----
TypeOK ==
  /\ decoder \in Decoders \cup {None}
  /\ playback \in Playbacks \cup {None}
  /\ left \in 0..MaxBuffer
  /\ device \in DeviceRates \cup {None}
  /\ out \in Frames

\* The positions that the time for which pb was played allows, if each frame
\* played added a rounding error.
Near(pb) ==
  LET exact == pb.rate * pb.elapsed
      drift == Err * pb.frames_played
  IN {x \in (exact - drift)..(exact + drift) : x >= 0}

\* The frame that belongs to position x, counted from the first start of the sound.
FrameAt(pb, x) ==
  IF FramesOf(pb) > 0 /\ (pb.repeat \/ x < FramesOf(pb) * Unit)
  THEN [ch \in DOMAIN Silence |->
          ((x \div Unit) % FramesOf(pb)) * pb.channels + (ch % pb.channels)]
  ELSE Silence

\* A frame that is written now is the one that is due now.
DueIsWritten ==
  left' < left => \E x \in Near(playback) : out' = FrameAt(playback, x)

\* What fill_f32 writes depends on the time the sound has been playing: not on
\* how the device cuts the buffers, nor on how often its rate changed, nor on how
\* often the sound was repeated.  Every channel gets a sample of the frame that is
\* due, until the sound is over, and then silence.  The sum of the rounding
\* errors, one for each frame played, is all that it may be early or late.
PlaysInTime == [][DueIsWritten]_vars

\* Played by devices that are all faster, or all at its own rate.
Slow(pb) == (\A d \in pb.met : pb.rate < d) \/ pb.met \subseteq {pb.rate}

\* A sound that was slower than every device that played it, or of the same rate,
\* and that has no more channels is heard whole: it is finished only when each of
\* its samples was written, whatever the rounding did to the cursor.
HeardWhole ==
  (/\ playback # None
   /\ playback.finished
   /\ Slow(playback)
   /\ playback.channels <= DeviceChannels)
  => 0..(playback.samples - 1) \subseteq playback.heard

\* A sound that decode accepted comes to its end: once the stream stays open and
\* no other sound is played, only a repeated one is left in Shared.
SoundsEnd ==
  <>[](device # None /\ decoder = None) =>
    <>[](playback = None \/ playback.repeat)
====
