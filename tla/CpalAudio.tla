---- MODULE CpalAudio ----
(***************************************************************************)
(* The audio worker thread (audio/cpal_audio.rs): its command loop, the    *)
(* output stream it opens, drops and reopens, and the two callbacks of     *)
(* that stream, which run on a thread of their own.                        *)
(*                                                                         *)
(* One round of worker_main:                                               *)
(*   loop   -> drop the stream if device_lost is set                       *)
(*   recv   -> take a command, or wait DEVICE_RETRY_INTERVAL               *)
(*   handle -> run it against Shared;  ack -> answer it                    *)
(*   retry  -> rebuild a missing stream if the interval has passed         *)
(*   built  -> the new stream runs, device_lost is not yet cleared         *)
(*                                                                         *)
(* cpal is external.  A stream fails when its device is unplugged, or by   *)
(* itself while the device stays usable; it then reports errors for as     *)
(* long as it is open, and may or may not go on asking for samples.        *)
(* Dropping a stream joins its callback thread.                            *)
(***************************************************************************)
EXTENDS Naturals, Sequences, Option

CONSTANTS Callers, Tasks, MaxBacklog,
          MaxFaults    \* bound: times the device goes away or a stream fails

ASSUME CpalAssumption ==
  /\ Tasks \subseteq Callers
  /\ None \notin Callers
  /\ MaxBacklog \in Nat \ {0}
  /\ MaxFaults \in Nat

VARIABLES chan,         \* mpsc channel of commands
          closed,       \* Inner was dropped: Shutdown is the last command
          waiting,      \* callers blocked in recv_timeout on their ack
          pc,           \* where worker_main is
          cmd,          \* the command taken from the channel
          stream,       \* the output stream: "none", "live" or "failed"
          playback,     \* Shared.playback
          device_lost,  \* Shared.device_lost
          retry_due,    \* DEVICE_RETRY_INTERVAL has passed since last_retry
          device,       \* a usable output device is plugged in
          faults        \* device and stream faults so far

vars == <<chan, closed, waiting, pc, cmd, stream, playback, device_lost,
          retry_due, device, faults>>

NoCommand == [play |-> None, ack |-> None]

\* Commands sent and not yet run, oldest first.
Pending == IF pc = "handle" THEN <<cmd>> \o chan ELSE chan

Init ==
  /\ chan = <<>> /\ closed = FALSE /\ waiting = {}
  /\ pc = "init" /\ cmd = NoCommand
  /\ stream = "none" /\ playback = None
  /\ device_lost = FALSE /\ retry_due = FALSE
  /\ device \in BOOLEAN /\ faults = 0

----
(* Callers: send_and_wait and Drop *)

Send(u, p) ==
  /\ ~closed
  /\ u \notin waiting
  /\ Len(Pending) < MaxBacklog
  /\ chan' = Append(chan, [play |-> p, ack |-> u])
  /\ waiting' = waiting \cup {u}
  /\ UNCHANGED <<closed, pc, cmd, stream, playback, device_lost, retry_due,
                 device, faults>>

Play(t) == Send(t, t)

Stop(u) == Send(u, None)

DropAck(u, c) == IF c.ack = u THEN [c EXCEPT !.ack = None] ELSE c

\* Mutant of AckTimeout: a timed out command is taken back.
AckTimeoutWithdraws(u) ==
  /\ u \in waiting
  /\ waiting' = waiting \ {u}
  /\ chan' = SelectSeq(chan, LAMBDA c : c.ack # u)
  /\ cmd' = DropAck(u, cmd)
  /\ UNCHANGED <<closed, pc, stream, playback, device_lost, retry_due, device,
                 faults>>

AckTimeout(u) ==
  /\ u \in waiting
  /\ waiting' = waiting \ {u}
  /\ chan' = [i \in DOMAIN chan |-> DropAck(u, chan[i])]
  /\ cmd' = DropAck(u, cmd)
  /\ UNCHANGED <<closed, pc, stream, playback, device_lost, retry_due, device,
                 faults>>

\* The last handle goes away, so nobody is inside play() or stop().
DropHandle ==
  /\ ~closed
  /\ waiting = {}
  /\ closed' = TRUE
  /\ UNCHANGED <<chan, waiting, pc, cmd, stream, playback, device_lost,
                 retry_due, device, faults>>

----
(* worker_main *)

\* Mutant of InitialBuild: the worker waits for a device before it serves
\* commands.
InitialBuildWaits ==
  /\ pc = "init"
  /\ device
  /\ stream' = "live"
  /\ pc' = "loop"
  /\ UNCHANGED <<chan, closed, waiting, cmd, playback, device_lost, retry_due,
                 device, faults>>

InitialBuild ==
  /\ pc = "init"
  /\ stream' = IF device THEN "live" ELSE "none"
  /\ device_lost' = (device_lost \/ ~device)
  /\ pc' = "loop"
  /\ UNCHANGED <<chan, closed, waiting, cmd, playback, retry_due, device, faults>>

\* Mutant of DropFailedStream: the failed stream is never dropped.
KeepFailedStream ==
  /\ pc = "loop"
  /\ pc' = "recv"
  /\ UNCHANGED <<chan, closed, waiting, cmd, stream, playback, device_lost,
                 retry_due, device, faults>>

DropFailedStream ==
  /\ pc = "loop"
  /\ stream' = IF device_lost THEN "none" ELSE stream
  /\ pc' = "recv"
  /\ UNCHANGED <<chan, closed, waiting, cmd, playback, device_lost, retry_due,
                 device, faults>>

Receive ==
  /\ pc = "recv"
  /\ chan # <<>>
  /\ cmd' = Head(chan)
  /\ chan' = Tail(chan)
  /\ pc' = "handle"
  /\ UNCHANGED <<closed, waiting, stream, playback, device_lost, retry_due,
                 device, faults>>

\* An empty channel for the whole interval, which is also the retry interval.
ReceiveTimeout ==
  /\ pc = "recv"
  /\ chan = <<>> /\ ~closed
  /\ retry_due' = TRUE
  /\ pc' = "retry"
  /\ UNCHANGED <<chan, closed, waiting, cmd, stream, playback, device_lost,
                 device, faults>>

\* Shutdown: leave the loop, drop the stream and with it Shared.
Exit ==
  /\ pc = "recv"
  /\ chan = <<>> /\ closed
  /\ pc' = "exited"
  /\ stream' = "none"
  /\ playback' = None
  /\ UNCHANGED <<chan, closed, waiting, cmd, device_lost, retry_due, device,
                 faults>>

\* Mutant of HandlePlay: a refused play() goes on with the next round and leaves
\* its ack unsent.
HandlePlaySkipsAck ==
  /\ pc = "handle" /\ cmd.play # None
  /\ playback' = IF stream = "none" THEN playback ELSE cmd.play
  /\ pc' = IF stream = "none" THEN "retry" ELSE "ack"
  /\ cmd' = IF stream = "none" THEN NoCommand ELSE cmd
  /\ UNCHANGED <<chan, closed, waiting, stream, device_lost, retry_due, device,
                 faults>>

\* handle_play replaces the playback, or refuses when no stream is open;
\* handle_stop clears it.
HandlePlay ==
  /\ pc = "handle" /\ cmd.play # None
  /\ playback' = IF stream = "none" THEN playback ELSE cmd.play
  /\ pc' = "ack"
  /\ UNCHANGED <<chan, closed, waiting, cmd, stream, device_lost, retry_due,
                 device, faults>>

HandleStop ==
  /\ pc = "handle" /\ cmd.play = None
  /\ playback' = None
  /\ pc' = "ack"
  /\ UNCHANGED <<chan, closed, waiting, cmd, stream, device_lost, retry_due,
                 device, faults>>

Ack ==
  /\ pc = "ack"
  /\ waiting' = waiting \ {cmd.ack}
  /\ cmd' = NoCommand
  /\ pc' = "retry"
  /\ UNCHANGED <<chan, closed, stream, playback, device_lost, retry_due, device,
                 faults>>

NoRetry ==
  /\ pc = "retry"
  /\ stream # "none" \/ ~retry_due
  /\ pc' = "loop"
  /\ UNCHANGED <<chan, closed, waiting, cmd, stream, playback, device_lost,
                 retry_due, device, faults>>

RetryFails ==
  /\ pc = "retry"
  /\ stream = "none" /\ retry_due /\ ~device
  /\ retry_due' = FALSE
  /\ pc' = "loop"
  /\ UNCHANGED <<chan, closed, waiting, cmd, stream, playback, device_lost,
                 device, faults>>

\* build_stream succeeds: from here on the callbacks of the new stream run.
RetryBuilds ==
  /\ pc = "retry"
  /\ stream = "none" /\ retry_due /\ device
  /\ stream' = "live"
  /\ pc' = "built"
  /\ UNCHANGED <<chan, closed, waiting, cmd, playback, device_lost, retry_due,
                 device, faults>>

\* Mutant of ClearLost: the flag stays up after the device has come back.
ClearLostForgotten ==
  /\ pc = "built"
  /\ retry_due' = FALSE
  /\ pc' = "loop"
  /\ UNCHANGED <<chan, closed, waiting, cmd, stream, playback, device_lost,
                 device, faults>>

\* device_lost = false wipes out an error reported since the build, too.
ClearLost ==
  /\ pc = "built"
  /\ device_lost' = FALSE
  /\ retry_due' = FALSE
  /\ pc' = "loop"
  /\ UNCHANGED <<chan, closed, waiting, cmd, stream, playback, device, faults>>

----
(* Stream callbacks, the clock, the device *)

\* Mutant of FillEnds: a finished playback is not cleared.
FillNeverEnds == FALSE /\ UNCHANGED vars

\* fill_f32 reaches the end of a sound that is not repeated.
FillEnds ==
  /\ stream # "none"
  /\ playback # None
  /\ playback' = None
  /\ UNCHANGED <<chan, closed, waiting, pc, cmd, stream, device_lost, retry_due,
                 device, faults>>

ErrorCallback ==
  /\ stream = "failed"
  /\ ~device_lost
  /\ device_lost' = TRUE
  /\ UNCHANGED <<chan, closed, waiting, pc, cmd, stream, playback, retry_due,
                 device, faults>>

RetryIntervalPasses ==
  /\ pc \notin {"init", "exited"}
  /\ ~retry_due
  /\ retry_due' = TRUE
  /\ UNCHANGED <<chan, closed, waiting, pc, cmd, stream, playback, device_lost,
                 device, faults>>

Unplug ==
  /\ device
  /\ faults < MaxFaults
  /\ device' = FALSE
  /\ faults' = faults + 1
  /\ stream' = IF stream = "live" THEN "failed" ELSE stream
  /\ UNCHANGED <<chan, closed, waiting, pc, cmd, playback, device_lost, retry_due>>

\* The stream breaks (or only says so), the device does not.
StreamFails ==
  /\ stream = "live"
  /\ faults < MaxFaults
  /\ stream' = "failed"
  /\ faults' = faults + 1
  /\ UNCHANGED <<chan, closed, waiting, pc, cmd, playback, device_lost, retry_due,
                 device>>

Plug ==
  /\ ~device
  /\ device' = TRUE
  /\ UNCHANGED <<chan, closed, waiting, pc, cmd, stream, playback, device_lost,
                 retry_due, faults>>

\* The thread has ended; Drop has joined it.
Joined == pc = "exited" /\ UNCHANGED vars

Loop ==
  \/ InitialBuild \/ DropFailedStream \/ Receive \/ ReceiveTimeout \/ Exit
  \/ HandlePlay \/ HandleStop \/ Ack \/ NoRetry \/ RetryFails \/ RetryBuilds
  \/ ClearLost

Next ==
  \/ \E t \in Tasks : Play(t)
  \/ \E u \in Callers : Stop(u) \/ AckTimeout(u)
  \/ DropHandle
  \/ Loop
  \/ FillEnds \/ ErrorCallback
  \/ RetryIntervalPasses \/ Unplug \/ StreamFails \/ Plug \/ Joined

Spec == Init /\ [][Next]_vars

\* The worker thread and the callbacks of an open stream keep running, and
\* time passes.  The device may stay away for ever, and
\* a failed stream need not ask for samples.
Fairness ==
  /\ WF_vars(Loop)
  /\ WF_vars(stream = "live" /\ FillEnds)
  /\ WF_vars(ErrorCallback)
  /\ WF_vars(RetryIntervalPasses)

FairSpec == Spec /\ Fairness

----
TypeOK ==
  /\ chan \in Seq([play : Tasks \cup {None}, ack : Callers \cup {None}])
  /\ closed \in BOOLEAN
  /\ waiting \subseteq Callers
  /\ pc \in {"init", "loop", "recv", "handle", "ack", "retry", "built", "exited"}
  /\ cmd \in [play : Tasks \cup {None}, ack : Callers \cup {None}]
  /\ stream \in {"none", "live", "failed"}
  /\ playback \in Tasks \cup {None}
  /\ device_lost \in BOOLEAN
  /\ retry_due \in BOOLEAN
  /\ device \in BOOLEAN
  /\ faults \in Nat

\* A stream that works is never dropped: the flag that drops it is down
\* whenever the worker looks at it, also after a device was lost and reopened.
HealthyStreamIsKept == (stream = "live" /\ pc # "built") => ~device_lost

\* Nobody waits in vain: the ack of every blocked caller is with a command in the
\* channel or with the one the worker is at, also when other callers gave up,
\* the play was refused or the stream was lost in between.
AckIsComing ==
  \A u \in waiting :
    \/ \E i \in DOMAIN chan : chan[i].ack = u
    \/ pc \in {"handle", "ack"} /\ cmd.ack = u

\* The worker implements the player contract that the control object relies
\* on.  A command counts as run when the worker has handled it; its ack may
\* still be on the way.
Contract == INSTANCE AudioPlayer WITH
  cmds <- Pending,
  playing <- playback,
  waiting <- IF pc = "ack" THEN waiting \ {cmd.ack} ELSE waiting

\* Commands run in the order they were sent, each once, timeouts notwithstanding;
\* losing and reopening the device neither ends nor starts a playback.
ImplementsContract == Contract!AudioSpec

\* Nobody drops the handle and the device is there for good.
DeviceStays == <>[](device /\ ~closed)

\* "retry stream build every 5 s until the device reappears": once the device
\* is there for good a stream is open and stays open, even when the error of a
\* failed stream raced with the reset of device_lost.
StreamRecovers == DeviceStays => <>[](stream = "live")

\* A sound that was accepted is heard to its end (or replaced or stopped), also
\* when the device was lost while it played.
PlaybackEnds ==
  DeviceStays => \A t \in Tasks : playback = t ~> playback # t

\* A caller never stays blocked although no ack timeout is assumed.
Answered == \A u \in Callers : u \in waiting ~> u \notin waiting
====
