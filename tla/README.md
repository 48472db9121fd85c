# alarm-daemon: TLA+ verification

This directory specifies the core of `alarm-daemon` in TLA+: the D-Bus control
object with its trigger tasks, the daemon state and its durable copy, the audio
worker thread, decoding and rendering of sounds, the byte layout of the persisted
value, recovery at startup, and the process under systemd. TLC checks the
modules on small instances; TLAPS proves the main invariants for every value of
the constants. `PROJECT.json` lists the runs, the map from definitions to
source lines, the hazards, the findings and the theorems.

    tlc -workers 2 -config MCControl.cfg MCControl      # one of the runs
    tlapm Control_proofs.tla                            # one of the proofs

## The system

Paths are relative to `alarm-daemon/src/`.

| Part | State | Operations | Interacts with |
|---|---|---|---|
| Daemon state (`daemon/alarm_daemon.rs`, `state.rs`) | `inner: RwLock<State>` (status, fire time, sound) | `arm_with_sound`, `disarm` (both `transition_to`), `status`, `current_sound`, `new_persistent` | called by every handler; saves to the store on a blocking thread |
| Store (`daemon/persistence/mod.rs`) | one redb file, one key | `load`, `save`, `lock_db`, `encode_state`, `decode_state`, `evaluate_recovery` | the file outlives the process |
| Control object (`ipc/control.rs`) | `trigger_task: Mutex<Option<JoinHandle>>` | `Arm`, `Disarm`, `Snooze`, `Dismiss`, `Status`, `CurrentSound`, `ListSounds`, signal `StateChanged` | daemon state, sound library, player, trigger tasks; zbus runs handlers of different calls concurrently |
| Trigger task (`ipc/control.rs:86`) | its sleep | sleep, decode, `play()` | aborted by `cancel_pending`, blocks on the player |
| Player (`audio/mod.rs`, `audio/cpal_audio.rs`) | command channel, `Shared { playback, device_lost }`, the stream | `play`, `stop`, `worker_main`, data and error callbacks, `Drop` | callers block up to 1 s on an ack; callbacks run on cpal's thread |
| Rendering (`fill_f32`, `audio/profile.rs`) | cursor, frames played | fill one buffer | data callback |
| Sound library (`audio/sounds.rs`), decoding (`audio/decoded.rs`) | two directories | `list_sounds`, `resolve_path`, `from_path` | handlers, trigger tasks |
| Process (`main.rs`, `systemd.rs`) | – | start, readiness, watchdog ping, shutdown | systemd |
| `config.rs`, `logging.rs`, error types, `alarm-daemon-client` | none that changes | – | – |

What is hard here:

* a handler is a chain *cancel, stop, transition, spawn, store, emit* with an
  await or a blocking call between any two, and nothing keeps the chains of two
  calls apart;
* `transition_to` orders state changes under a lock, but saves after releasing it;
* `abort()` reaches a trigger only while it sleeps;
* a command whose ack timed out is still executed;
* `device_lost` is written by two threads, around the rebuild of the stream;
* the cursor of a sound is a rounded fraction carried over buffers of any size and
  over devices of different rates;
* what was missed while the process was down is inferred from a file and a wall
  clock;
* the watchdog ping and the shutdown signal wait for worker threads that the
  handlers block;
* the process may die between any two of these steps.

What makes the parts correct: an acknowledged alarm has a live trigger; after
Disarm nothing sounds; the file never goes back behind what it held at rest and
a restart loads what somebody asked for; subscribers are told the truth; calls
return, triggers end, the stream comes back; a sound is heard whole and in time;
the codec loses and invents nothing; an alarm the process slept through is
reported; a healthy process is neither killed nor cut off, and a stalled one is.
Where the code falls short of its documents, TLC's counterexample is named below.

## Modules

| Module | Models | Composes |
|---|---|---|
| `Option` | `Option::None` | |
| `AlarmDaemon` | daemon state and store: actions only, no specification of its own | |
| `StoreOrder` | concurrent callers of `transition_to`, with history variables that number the state changes | `AlarmDaemon` |
| `AudioPlayer` | the abstract contract of the player: what `play()` and `stop()` promise | |
| `Control`, `MCControl` | control object, trigger tasks, process death and restart | `AlarmDaemon`, `AudioPlayer` |
| `CpalAudio` | the worker thread; shown to implement `AudioPlayer` | `INSTANCE AudioPlayer` |
| `StateCodec` | `encode_state`, `decode_state` | |
| `SoundLibrary` | `list_sounds`, `resolve_path` against a changing file system | |
| `Rendering` | `DecodedSound::decode`, `fill_f32`, `handle_play`, `handle_stop` | |
| `Recovery` | one client's alarms across restarts: clock, trigger, `evaluate_recovery`, `run` | `AlarmDaemon` |
| `Watchdog` | `run`, `watchdog_loop`, `wait_for_shutdown` among the tasks of the runtime, under systemd | |
| `StoreOrder_proofs`, `Control_proofs`, `StateCodec_proofs`, `Recovery_proofs`, `CpalAudio_proofs`, `SoundLibrary_proofs`, `Rendering_proofs`, `Watchdog_proofs` | the theorems about these modules | each extends its module |

**AlarmDaemon.** `inner` is the value behind the lock and `file` the redb file
(whether it exists, what the key holds). `phase[c]` is where caller `c` is in
`transition_to`: `CallTransition` queues for the lock; `SwapNoChange` and
`SwapChanged` are the critical section; `CreateDb`, `SaveCommit` and `SaveFail`
are the blocking save, which may fail at any point; `ReturnTransition` hands the
`Transition` back. A save that dies with the process either had committed or had
not, because a redb transaction is atomic and durable (assumed). `DaemonRestart`
is `new_persistent`.

**Control.** `call[c]` holds the handler that client `c` has running. A client
makes one call at a time, so one client means serialized calls; two clients
overlap in every possible way. The steps are those in the module's header. A
trigger's id is set aside when the call starts, which fixes the fire time at the
point where the code computes it. `Fires` stands for the values the clock can
give; the sleep may end at any time. `cancelled` records that a handle was
aborted: the task is dropped if it sleeps and runs on otherwise. `view` is what
the last `StateChanged` said, or `None` once an emission was lost. `restored`
marks a state that was loaded and not set. Status, CurrentSound and ListSounds
change nothing and are left out here.

**AudioPlayer.** `cmds` is the channel, `waiting` the blocked callers, `playing`
the trigger whose sound is current. `AckTimeout` clears the ack and leaves the
command queued.

**CpalAudio.** One action per step of `worker_main`, one per callback. The
channel's `Shutdown` is `closed`. cpal itself is external: a stream fails when
its device goes, or by itself; a failed stream reports errors while it is open
and may or may not render. Whether a device can be opened (`pick_device`,
`build_stream`) is the variable `device`.

**StateCodec.** Bytes are `0..Base-1`, and the fields `FireBytes` and `LenBytes`
wide, instead of 256, 8 and 2. UTF-8 is reduced to one two-byte character and the
single bytes. `saved` and `cut` are history: the state whose encoding `raw` was, and
whether bytes of it are missing. What is left of a value that was cut inside its
magic has no prefix and is decoded as a legacy body.

**SoundLibrary.** `list_sounds` as a walk over the two directories, an entry at a
time, while files are added, removed or replaced by dangling links. The stem ""
stands for files called `.wav`, which have no extension for `Path::extension` but
are found by `resolve_in`. One entry whose metadata cannot be read fails the whole
listing; a directory that cannot be opened does not, as in the code.

**Rendering.** `decoder` is the sound that `decode` is reading: packets append
samples, and the end of the stream accepts or refuses the whole. A sample is
represented by its position, so that the output can be compared with what ought
to be heard. A callback is `Callback` (the device asks for a buffer, the lock is
taken) and one `Frame` per round of the loop; `left` counts the rounds to go.
Cursors and times are in units of `1/Unit`, a common multiple of the device
rates. The cursor is an `f64` in the code, so a step adds `src_rate / dst_rate` only
up to a rounding error of the quotient and of the sum, together at most `Err` units
in either direction (`Rounded`); sums of whole numbers and the remainder of the
wrap-around are exact in `f64` and in the model. `elapsed`, `met` (the rates of the
devices that played the sound) and `heard` are history.
`decode` does not check that the sample rate is positive; `RenderingAssumption`
takes that of the readers. At rate 0 the step would be 0 and the sound would not
end. Control plays every sound once; `repeat` is in the interface and is modelled.

**Recovery.** The calls of one client on `AlarmDaemon`, the trigger with its sleep
by the monotonic clock, and a wall clock `now` that may be set to anything.
`Start` is `run` up to `new_persistent` and the `MissedWhileDown` log entry;
`Serve` is the rest, and a failure there is a `Crash`. `promise` is what the
client may rely on: the state its last call left, once that call has returned
and its save has succeeded, until the alarm is played. `asked` holds the state last
known to be in the file and those that calls have asked for since.

**Watchdog.** `proc` is where `main` is, `waiting` the number of tasks that are ready
and may block, `busy` and `stuck` the workers that a task blocks for some ticks or for
ever, `saving` the time until the saves on blocking threads have ended and `audio`
until the audio thread has. tokio is external, and next to nothing is supposed of its
scheduler: an idle worker takes any ready task, in any order, or looks at timers and
signals; no queue, no interval between two looks. Time may pass whenever some worker
is blocked, although another one is idle and something is ready, because the idle one
may be asleep and the blocked one have been the one to look. Only when no worker is
blocked is everything that is ready done before time passes. `deadline` is the next
tick of the ping's interval (a late one does not move the others, tokio's default),
`since` the time systemd has not heard of the process. After SIGTERM is noticed `run`
returns and drops what it holds; whoever is the last to hold the player, `run` or a
task that is dropped with the runtime, joins the audio thread (`DropPlayer`), which
may be opening a device. Dropping the runtime waits for the workers and for the saves
that have begun (`Quiet`). Without `WatchdogSec=` (the user unit, a shell) there is no
ping task and no timeout, and nothing to check.

## Runs

| Run | Instance | Shows |
|---|---|---|
| `store_order` | 2 callers, 3 states, 5 changes, 2 crashes | `NoRollbackPastSettled`: overlapping saves may be swapped, never past a moment at rest; `LoneSaveIsDurable`: one call that overlaps no other save repairs the file |
| `store_race` (violated) | 2 callers | `SettledIsDurable`: without that condition a restart recovers a state the daemon has left |
| `control` | 2 clients, 2 triggers, 2 fire times | `ArmedIsCovered`: no lost alarm under any overlap |
| `control_sole` | 1 client, 2 triggers, backlog 3, 1 crash, fairness | for serialized calls: `SleepingIsHeld`, `DisarmedIsQuiet`, `SubscribersAgree`; `CallsReturn`, `TriggersEnd` |
| `control_orphan` (violated) | 2 clients | `DisarmedIsQuiet`: Disarm overlapping Arm leaves a trigger that fires while Disarmed |
| `cpal_worker` | 3 callers, backlog 2, 2 faults, fairness | `ImplementsContract`: the worker is the player of `Control`; `AckIsComing`: no caller's ack gets lost; `HealthyStreamIsKept`, `StreamRecovers`, `PlaybackEnds`, `Answered` |
| `sound_library` | 2 directories, stems "" and "a", 3 extensions, 2 edits | `ListedCanBeArmed`, `SteadyIsListed`, `NothingInvented` |
| `codec` | base 4, every byte string up to 7 bytes | `RoundTrip`, `DecodeIsCanonical`, `TruncationInventsNothing` |
| `rendering` | source rates 2 and 5, up to 2 channels, device rates 2 and 3, 2 channels, rounding errors of 1/6 frame, up to 4 samples, buffers up to 2, fairness | `PlaysInTime`: the frame written depends on the time played and the rounding, and on nothing else; `HeardWhole`, `SoundsEnd` |
| `recovery` | 7 readings of the clock, delay 2, 3 crashes, 2 corrections of the clock | `RestartIsFaithful`, `MissedIsReported`, `NoPhantomReport` |
| `recovery_loss` (violated) | the same, with a right clock | `NoSilentLoss`: an alarm restored before its time passes unheard and unreported |
| `watchdog` | 2 workers, the unit's 10, 2 and 10 s, blocks of 1 s, 3 of them between two pings, fairness | `HealthySurvives`, `StopIsClean`, `StallIsEnded` |

The three violated runs state what the repository's documents say; the quotations are
in `PROJECT.json` under `findings`. Each property that holds has a mutant (an
operator `Mutant of ...` beside the definition it replaces) that breaks it.

What the passing properties make exceptions for is what the code really does. Where
a document says otherwise, the formula without the exception is stated in the module
beside the passing one, and TLC refutes it:

| Formula, configuration | What the code does | What the documents say |
|---|---|---|
| `NoSilentLoss` (run `recovery_loss`); `ArmedHasTrigger`, `MCControlRecovery.cfg` | an alarm restored before its time is not scheduled, and only a start after its time reports it | FR-9.3, FR-9.4 |
| `DisarmedIsQuiet` with two clients (run `control_orphan`) | a Disarm that overlaps an Arm leaves a trigger behind | "All methods are safe to call concurrently." (`Control.xml:45`) |
| `SubscribersAgree` with two clients, `MCControlSignals.cfg` | the signals of two overlapping calls may be sent in the opposite order of the changes; the last one is then wrong | "so subscribers can treat each emission as an authoritative change event" (`Control.xml:177-180`) |
| `SnoozeKeepsStatus`, `MCControlSnooze.cfg`, two clients | a Snooze that has read the sound before an overlapping Disarm arms the alarm again, and emits nothing | "Keeps the alarm armed." and the error "no sound is currently armed" (`Control.xml:100-101`, `108-109`) |
| `DisarmedIsSilent`, `MCControlLate.cfg`, one client | a trigger that is already decoding when Disarm aborts it plays after Disarm has returned (`cancelled` in `DisarmedIsQuiet`) | "Cancel any pending trigger, stop in-flight playback" (`Control.xml:87`) |
| `ListingIsWhole`, `MCSoundUnreadable.cfg` | a directory that cannot be opened is listed as empty, and `ListSounds` succeeds (`readable` in `SteadyIsListed`) | the error "sound directory is unreadable" (`Control.xml:165-167`) |
| `ShortIsCorrupted`, `MCStateCodecShort.cfg` | a body that ends after a whole field is accepted with the others unset | "body shorter than the layout requires" is `Corrupted` (`persistence_error.rs:25-26`) |

`SleepingIsHeld`, `DisarmedIsQuiet` and `SubscribersAgree` are therefore claimed for the
serialized calls of one client only, and `MissedIsReported` only for starts at or after
the time of the alarm. Exceptions that no document speaks about:

* a value of which only the first byte of the magic is left is read as an armed alarm
  without time and sound, whatever was saved (the last conjunct of
  `TruncationInventsNothing`);
* an alarm that was heard leaves the daemon Armed with its old fire time, so every
  later start reports it as missed (`promise` ends with `Fire`);
* a process that has lost one ping may be killed (`lost` in `HealthySurvives`).

**Bounds.** `MaxChanges`, `MaxCrashes`, `MaxBacklog`, `MaxFaults`, `MaxRaw`,
`MaxSound`, `MaxEdits`, `MaxSamples`, `MaxBuffer`, `MaxElapsed`, `MaxTime`,
`MaxAdjusts`, `MaxBlock`, `MaxLoad`, `MaxSave`, `MaxBuild`, `MaxLate` and the size of `Tasks` are bounds of the models, not of the code. Two
clients are enough for any pair of handlers to overlap, and two triggers for one
to overwrite or outlive the other; two fire times tell the states of two Arms
apart (the sound plays the same part as the fire time in `State`, so one is
enough). In `control` the backlog is 1 because the invariants checked there do
not depend on the channel; `control_sole`, which is about what will sound, has 3:
the one client's timed-out commands pile up with a trigger's, and one fire time:
its properties name the trigger itself, not its alarm. Five changes let
a lone save follow two pairs of overlapping ones. Two edits let a file go and come
back, or go in one directory and come in the other, during one walk. Two faults let a stream fail while
its predecessor is being replaced. Base 4 has the two values that tags and
versions tell apart, an unknown tag, and the two bytes of the magic, and a length
byte that can point past the end. The rates make steps
of 2/3, 1, 5/3 and 5/2 frames, and a change of device turns one into another; a
rounding error of 1/6 frame is half of what the assumption allows for the first; buffers up
to 2 frames end before, at and after the end of a sound; 7 units repeat every sound
of up to two frames, and every fast one. Three crashes are a death, a failed
start and a death during the next one; two corrections set the clock forward and
back, in either order. `MaxLate` is how far behind its interval a ping is followed: a
ping that is later than one period is due at once whatever the rest, so a period is
enough.

`LoadAssumption` is the load for which `HealthySurvives` and `StopIsClean` are
claimed. Half of the watchdog's timeout is left when a ping becomes due. In that time
one task may be running, and `MaxLoad` others may be run first, one after the other
and by the very worker that should have looked at the timers, each for `MaxBlock`. The
run has the numbers of `alarm-daemon.service` (10 s, 2 s, 10 s) and of
`COMMAND_ACK_TIMEOUT` (1 s): at most three handlers or triggers that block for a full
second become ready between two pings, and during a stop. The number of workers does
not matter. A poll that blocks for longer, such as the decoding of a long file, counts
once for every second; polls that do not block do not count. The bound is tight: with
four such tasks TLC finds a run in which a healthy process is killed. A `stop()` blocks
for a second only while the worker is opening a device or is held up, so a daemon with
few clients and a working device is within the bound, and one whose clients keep
calling while the audio thread hangs is not: nothing in the code prevents systemd from
killing it.

**Symmetry.** Clients, task ids and fire times are interchangeable in the
run `control`, which only compares them for equality; no run with fairness uses symmetry.

**Deadlock** is checked everywhere. `StoreOrder` stutters explicitly when its
bound is used up, `CpalAudio` when the worker has ended.  A stopped unit in
`Watchdog` can be started again.

**Fairness.** `control_sole` assumes that the tokio runtime polls handlers and
tasks, that sleeps end, that the worker serves its channel (`cpal_worker` shows
this of the worker's code: `Answered`) and that systemd restarts the process. It
does not assume that acks time out, that clients call, or that sounds end.
Strong fairness on the two actions that queue a command only undoes
`MaxBacklog`: the real channel never refuses a command. One client is enough
here: a handler waits for the player and its own save, never for another handler,
because both locks are released without waiting; the other callers that keep the
player busy are the triggers. `cpal_worker` assumes a
running worker thread, running callbacks of an open stream (a failed one need not
render) and passing time; the device may stay away, so the properties about it
are conditional on `DeviceStays`. `rendering` assumes only that an open stream keeps
asking for samples, and `watchdog` that threads that are not stuck run, time
passes, and systemd acts on its timeouts; calls, faults and operators need not
come.

## Proofs

The theorems hold for any constants that satisfy the assumptions named in the
modules: `None` is none of the values it stands in for (`NoneAssumption`,
`ValueAssumption`, `OutcomeAssumption`, `AudioAssumption`, the three
`AbsentAssumption`s); clients and triggers are disjoint (`ControlAssumption`); bounds
are naturals (`BoundsAssumption` and others); rates and channel counts are positive
and `Unit` is a multiple of the device rates (`RenderingAssumption`); rounding errors
are small (`RoundingAssumption`, below); a byte has at
least four values and a sound id, which names a file, fits its length field
(`CodecAssumption`); and, for the watchdog, the load stays within `LoadAssumption`. So every safety property of a
passing run is proved without the run's bounds. Each proof rests
on an inductive invariant `IInv`, which TLC checked before it was proved.

* `StoreOrder_proofs`: `TypeCorrect`, `NoRollback`, `LoneSaveDurable`. `saved >= settled` is not
  inductive: a pending save could carry an old version. The invariant adds that
  every snapshot still to be written is newer than `settled`, which holds because
  a swap takes a fresh version and `settled` moves only when no save is pending.
  `LoneSaveIsDurable` speaks of moments at rest; `LoneSave` extends it to the time
  in which the lone save is in flight and carries the in-memory state.
* `Control_proofs`: `TypeCorrect` and `NoLostAlarm` (`ArmedIsCovered`), for any
  number of clients. `ArmedIsCovered` speaks only of moments when all calls have
  returned. `Cover` extends it to every moment: an Armed state without its trigger
  is either about to be replaced, because some call has cancelled and not yet
  swapped, or about to get its trigger, because the call that set it has not yet
  spawned. The last call to swap decides, and a later cancel can only come from a
  call that will itself swap. `Links` supplies what the handlers need: a caller is
  inside `transition_to` only for its own call, and a trigger that is set aside
  belongs to one call.
* The second part of `Control_proofs` assumes one client (with two, `control_orphan` is a
  counterexample, and signals may be swapped).
  `SoleClientHolds` (`SleepingIsHeld`) needs that no handle is stored between a
  call's cancel and its store (`HandleTaken`).
  `SoleClientTells` (`SubscribersAgree`): `Told` follows the news from the swap
  through the `Transition` and the handler's `emit` to the subscribers. Snooze drops
  its `Transition`, which is harmless only because it runs from Armed to Armed, and
  that in turn because a disarmed state has no sound, in memory or in the file
  (`NothingToSnooze`).
  `SoleClientSilences` (`DisarmedIsQuiet`): after the cancel no uncancelled trigger
  runs (`ActiveIsHeld`), so the Stop is the last command behind any play of such a
  trigger, executed or not, acknowledged or timed out; from there on whatever will
  be heard was cancelled (`Quiet`), until the next spawn. `OnlySent` keeps the id of
  a new trigger apart from those in the channel.
* `Recovery_proofs`: `TypeCorrect`, `RestartLoadsWhatWasAsked` (`RestartIsFaithful`),
  `LateStartReports` (`MissedIsReported`), `DisarmedIsNotReported`
  (`NoPhantomReport`). The first needs that a call's state is on the list before
  anything of it can reach the file (`CallAsked`) and that `durable` means what it says
  (`DurableIsLoaded`). The others rest on `PromiseIsLoaded`: what was promised is what
  the file would be recovered to, at every moment and also while the process is down or
  half started, because a call withdraws the promise before it touches the file.
* `CpalAudio_proofs`: `TypeCorrect`, `HealthyStreamNeverDropped`
  (`HealthyStreamIsKept`), `NobodyWaitsInVain` (`AckIsComing`), and the refinement `WorkerIsPlayer`
  (`ImplementsContract`), step by step. The contract removes a command and its
  waiting caller in one step, the worker in several (receive, handle, acknowledge),
  during which other callers time out and send; the mapping keeps the command in the
  abstract channel until it takes effect. That each caller waits for one command
  only (`AcksDistinct`) makes the withdrawal of an ack the same on both levels, and
  keeps it from taking away the ack of somebody else.
* `SoundLibrary_proofs`: `WhatIsListedCanBeArmed`, `ReadableIsListed`
  (`SteadyIsListed`, for directories that can be read), `ListingInventsNothing`.
  `SteadyOnItsWay` extends completeness to a walk that is under way: a file nobody
  touched is still to be yielded, or listed.
* `Rendering_proofs`: `TypeCorrect`, `EveryFrameInTime` (`PlaysInTime`),
  `SlowSoundIsHeardWhole` (`HeardWhole`). `InStep`: the cursor, plus a whole number of
  rounds of a repeated sound, is within one rounding error per frame played of the rate
  times the time played; the lemmas about quotients and remainders carry it over the
  wrap and over a device with another step. `HeardSoFar` extends `HeardWhole` to an
  unfinished sound: nothing behind the cursor was left out, because a rounded step of
  less than a frame is at most a frame (`SlowStep`), and steps of one frame stay on
  whole frames (`EqualStep`, `Whole`).
* `Watchdog_proofs`: `TypeCorrect`, `HealthyProcessSurvives` (`HealthySurvives`),
  `StopsCleanly` (`StopIsClean`). Each wait has a potential: what the running task of
  each worker still takes, plus `ToCome`, a full block for every task that waits or may
  yet be asked for. Time passes only while some worker is blocked, or nothing is ready,
  so a tick lowers the one by what it adds to the other, and a worker that takes a task
  moves a block from `ToCome` to itself. The sum never exceeds `MaxDelay`. The
  invariant applies this to the ping task before its first run (`FirstRun`), to a ping
  that is due (`InTime`, which ties systemd's clock to the interval) and to SIGTERM
  (`Unnoticed`), and follows the exit through the join of the audio thread (`Closing`)
  and the end of workers and saves (`Leaving`).
* `StateCodec_proofs`: `SavedIsLoaded` (`RoundTrip`), `AcceptedIsCanonical`
  (`DecodeIsCanonical`), `DamageInventsNothing` (`TruncationInventsNothing`), for any
  base and any widths. The invariant says that the value is foreign, or an encoding of
  `saved`, or a proper prefix of one. The rest is about the operators. `BytesRoundTrip`:
  the bytes of a number read back as that number, modulo the width.
  It is an induction over the number of bytes, and the library's induction theorems
  take an operator, which the provers cannot instantiate; `Induction` states it for
  sets instead and follows from the well-foundedness of `<` (`WFMin`), and `Recursion`
  derives from it that `Pow` and the sum in `FromLeBytes` are what their recursive
  definitions say. `DecodedIsStorable`: what `decode_state` accepts lies in
  `Storable`, the states whose fields fit the layout; this is more than
  `PersistedState`, because a foreign value may hold a longer sound id.
  `BodyLayout` decodes the encoding of every storable state, and `CutSound`, `CutBody`,
  `CutLegacy` and `CutState` follow a cut through the fields: before the tag the field
  is lost, within a field the value is rejected, and the armed byte is kept
  (`KeptArmed`) unless only the first byte of the magic is left. The legacy layout needs
  one more fact: its first byte is 0 or 1 and so never the prefix.

In these proofs no leaf equates two `CASE` expressions: the encoding that the SMT
backend is given for such an equation can be proved although it is false. Decoders
are opened by one implication per case (`DecodeSoundCases`, `DecodeBodyCases`).

`RoundingAssumption` says that the error of a step is smaller than the step, and that a
step of less than a frame, with its error, is at most a frame. It holds of `f64` with
much to spare: for cursors below 2^31 frames and rates below 2^20, half an ulp of the
sum and of the quotient are together below 2^-21 frames, and such a step lacks at least
`1/dst_rate` > 2^-20 to a frame. `Unit` may be any common multiple of the device
rates, so that the errors are whole numbers of units. What the assumption does not
exclude is drift: `PlaysInTime` therefore allows for one error per frame played, because
44100/48000 summed up in `f64` does fall short of whole frames.
`HeardWhole` is claimed for a sound played by slower-than-device steps only, or by
steps of exactly one frame, and not for a mixture: six steps of 1/3 give
1.9999999999999998, and a step of 1.0 from there rounds to 3.0 and skips a frame.

One assumption was found by proof: a `WatchdogSec` of one tick cannot be met, because
half of it is none, so the 1 ms floor of `ping_period_for` makes the period as long as
the timeout (`WatchdogSec > 1` in `LoadAssumption`).

Only model-checked:

* the liveness properties `CallsReturn`, `TriggersEnd`, `StreamRecovers`,
  `PlaybackEnds`, `Answered`, `SoundsEnd`, `StallIsEnded`: the prover has no rules
  for fairness and `ENABLED`.

## Not modelled

* Gain and ramps (`audio/profile.rs`): the build has only `Ramp::Immediate`, and
  the control object plays at target 1.0, so every sample is multiplied by 1; the
  linear ramp exists in the tests only.
* Configuration: environment variables read once at startup; a bad one is a failed
  start (`StartFails`).
* Logging and error texts: output only. Error values are the outcomes of the
  modelled steps.
* The fake player: a test double. The client library: one D-Bus call per method,
  no state but the proxy; its users are the `Clients` of `Control`.
* The contents of decoded samples (symphonia) and the sample formats of the device
  (cpal converts).
* Lock poisoning is recovered from in the code and has no effect of its own.

## Plan

Done, in this order: `AlarmDaemon` and `StoreOrder`; `AudioPlayer` and `Control`;
`CpalAudio` with the refinement; `StateCodec`; `SoundLibrary`; `Rendering`,
`Watchdog` and `Recovery`; the proofs above. No component with state of its own is
left.

Every safety property of a passing run is proved. What could be proved next is smaller: lemmas that
would let `ArmedIsCovered` speak of overlapping calls before they return.
