---- MODULE StateCodec ----
(***************************************************************************)
(* The byte layout of the persisted value (daemon/persistence/mod.rs):     *)
(* encode_state and decode_state, with the unprefixed legacy layout.       *)
(*                                                                         *)
(* Bytes are 0..Base-1 (256 in the code), next_fire is FireBytes wide (8)  *)
(* and the sound length LenBytes wide (2): the layout is the same for any  *)
(* widths, and small ones let TLC try every byte string.                   *)
(***************************************************************************)
EXTENDS Integers, Sequences, Option

CONSTANTS Base, FireBytes, LenBytes,
          MaxSound,    \* bound: length of a sound id
          MaxRaw       \* bound: length of a foreign value

\* Base to the n: a width of n bytes has this many values.
Pow[n \in Nat] == IF n = 0 THEN 1 ELSE Base * Pow[n - 1]

\* A sound id is the name of a file: its length fits the field.
ASSUME CodecAssumption ==
  /\ Base \in Nat /\ Base >= 4
  /\ FireBytes \in Nat \ {0} /\ LenBytes \in Nat \ {0}
  /\ MaxSound \in Nat /\ MaxSound < Pow[LenBytes]
  /\ MaxRaw \in Nat

VARIABLES raw,     \* the bytes stored under STATE_KEY
          saved,   \* the PersistedState they were encoded from, None if foreign
          cut      \* the encoding has lost its tail

vars == <<raw, saved, cut>>

Byte == 0 .. Base - 1

SCHEMA_MAGIC == <<Base - 2, Base - 1>>

SCHEMA_VERSION == 1

\* i64 of FireBytes bytes, two's complement.
Fire == -(Pow[FireBytes] \div 2) .. (Pow[FireBytes] \div 2) - 1

\* Sound ids are UTF-8: here Base-1 is a lead byte that needs the
\* continuation byte Base-2 behind it.
Utf8(s) ==
  /\ \A i \in DOMAIN s : s[i] = Base - 1 => i < Len(s) /\ s[i + 1] = Base - 2
  /\ \A i \in DOMAIN s : s[i] = Base - 2 => i > 1 /\ s[i - 1] = Base - 1

SoundId == {s \in UNION {[1 .. n -> Byte] : n \in 0 .. MaxSound} : Utf8(s)}

PersistedState == [armed : BOOLEAN, next_fire : Fire \cup {None},
                   sound : SoundId \cup {None}]

Default == [armed |-> FALSE, next_fire |-> None, sound |-> None]

\* None is no number, no sound id and no state.
ASSUME AbsentAssumption ==
  /\ None \notin Int /\ None \notin Seq(Byte) /\ None \notin PersistedState

----
ToLeBytes(v, n) == [i \in 1 .. n |-> ((v % Pow[n]) \div Pow[i - 1]) % Base]

FromLeBytes(b) ==
  LET sum[i \in 0 .. Len(b)] == IF i = 0 THEN 0 ELSE sum[i - 1] + b[i] * Pow[i - 1]
  IN sum[Len(b)]

\* Mutant of Signed: the bytes are read as an unsigned number.
Unsigned(u, n) == u

\* i64::from_le_bytes
Signed(u, n) == IF 2 * u >= Pow[n] THEN u - Pow[n] ELSE u

\* as_bytes, cut off where the length field ends (u16::MAX).
SoundBytes(id) == IF Len(id) < Pow[LenBytes] THEN id ELSE SubSeq(id, 1, Pow[LenBytes] - 1)

EncodeBody(s) ==
  <<IF s.armed THEN 1 ELSE 0>>
    \o (IF s.next_fire = None THEN <<0>>
        ELSE <<1>> \o ToLeBytes(s.next_fire, FireBytes))
    \o (IF s.sound = None THEN <<0>>
        ELSE <<1>> \o ToLeBytes(Len(SoundBytes(s.sound)), LenBytes)
                  \o SoundBytes(s.sound))

EncodeState(s) == SCHEMA_MAGIC \o <<SCHEMA_VERSION>> \o EncodeBody(s)

\* slice::get
Get(b, i) == IF i \in DOMAIN b THEN b[i] ELSE None

\* Err(PersistenceError::Corrupted)
Corrupted == None

\* Mutant of DecodeSound: the id is not checked to be UTF-8.
DecodeSoundRaw(b, at, armed, fire) ==
  LET tag == Get(b, at)
      body == at + LenBytes
      len == FromLeBytes(SubSeq(b, at + 1, body))
      id == SubSeq(b, body + 1, body + len)
      Result(s) == [armed |-> armed, next_fire |-> fire, sound |-> s]
  IN CASE tag \in {0, None}          -> Result(None)
       [] tag = 1 /\ Len(b) >= body
                  /\ Len(b) >= body + len -> Result(id)
       [] OTHER                      -> Corrupted

\* Mutant of DecodeSound: a short id is taken as it is.
DecodeSoundShort(b, at, armed, fire) ==
  LET tag == Get(b, at)
      body == at + LenBytes
      id == SubSeq(b, body + 1, Len(b))
      Result(s) == [armed |-> armed, next_fire |-> fire, sound |-> s]
  IN CASE tag \in {0, None}          -> Result(None)
       [] tag = 1 /\ Len(b) >= body
                  /\ Utf8(id)        -> Result(id)
       [] OTHER                      -> Corrupted

\* The sound field starts at cursor at; a missing tag counts as no sound.
DecodeSound(b, at, armed, fire) ==
  LET tag == Get(b, at)
      body == at + LenBytes
      len == FromLeBytes(SubSeq(b, at + 1, body))
      id == SubSeq(b, body + 1, body + len)
      Result(s) == [armed |-> armed, next_fire |-> fire, sound |-> s]
  IN CASE tag \in {0, None}                    -> Result(None)
       [] tag = 1 /\ Len(b) >= body
                  /\ Len(b) >= body + len
                  /\ Utf8(id)                  -> Result(id)
       [] OTHER                                -> Corrupted

\* An empty body is the default, and a body that ends after the armed byte
\* leaves the other fields unset.
DecodeBody(b) ==
  LET armed == b[1] # 0
      tag == Get(b, 2)
      end == 2 + FireBytes
  IN CASE b = <<>>   -> Default
       [] Get(b, 1) # None /\ tag = None -> [Default EXCEPT !.armed = armed]
       [] tag = 0    -> DecodeSound(b, 3, armed, None)
       [] tag = 1 /\ Len(b) >= end ->
            DecodeSound(b, end + 1, armed,
                        Signed(FromLeBytes(SubSeq(b, 3, end)), FireBytes))
       [] OTHER      -> Corrupted

DecodeState(b) ==
  IF Len(b) >= 3 /\ SubSeq(b, 1, 2) = SCHEMA_MAGIC
  THEN IF b[3] = SCHEMA_VERSION THEN DecodeBody(SubSeq(b, 4, Len(b)))
                                ELSE Corrupted
  ELSE DecodeBody(b)

----
Init == raw = <<>> /\ saved = None /\ cut = FALSE

\* save(): the value is replaced by the encoding of the state ...
Save(s) == raw' = EncodeState(s) /\ saved' = s /\ cut' = FALSE

\* ... or was left there by a v0 build, which wrote the body alone.
LegacySave(s) == raw' = EncodeBody(s) /\ saved' = s /\ cut' = FALSE

\* A value that lost its tail.
Truncate ==
  /\ saved # None
  /\ \E n \in 0 .. Len(raw) - 1 : raw' = SubSeq(raw, 1, n)
  /\ cut' = TRUE
  /\ UNCHANGED saved

\* A value nobody encoded: every byte string is reached.
Foreign(b) ==
  /\ saved = None
  /\ Len(raw) < MaxRaw
  /\ raw' = Append(raw, b)
  /\ UNCHANGED <<saved, cut>>

Next ==
  \/ \E s \in PersistedState : Save(s) \/ LegacySave(s)
  \/ Truncate
  \/ \E b \in Byte : Foreign(b)

Spec == Init /\ [][Next]_vars

----
\* What was saved is what is loaded, in the versioned layout and in the legacy
\* one, for the extreme fire times and sound ids too.
RoundTrip == (saved # None /\ ~cut) => DecodeState(raw) = saved

\* Whatever bytes are found, the state made of them has a well-formed sound id
\* and survives the next save unchanged ("until their next save rewrites them
\* in the versioned form").
DecodeIsCanonical ==
  LET s == DecodeState(raw)
  IN s # Corrupted => /\ s.sound # None => Utf8(s.sound)
                      /\ DecodeState(EncodeState(s)) = s

\* A damaged value is rejected or loses fields: it never yields a fire time or a
\* sound other than the saved ones, and an alarm that was not armed does not come
\* back armed.  There is one exception to the last: a value cut off inside the
\* magic, whose first byte alone is read as the armed byte of the legacy layout.
TruncationInventsNothing ==
  LET s == DecodeState(raw)
  IN (cut /\ s # Corrupted) => /\ s.next_fire \in {None, saved.next_fire}
                               /\ s.sound \in {None, saved.sound}
                               /\ s.armed => saved.armed \/ raw = <<SCHEMA_MAGIC[1]>>

\* PersistenceError::Corrupted is for a "body shorter than the layout requires":
\* whatever is left of a value that lost its tail, if anything, is reported so.
ShortIsCorrupted == (cut /\ raw # <<>>) => DecodeState(raw) = Corrupted
====
