---- MODULE AudioPlayer ----
(***************************************************************************)
(* What the AlarmAudio trait promises its callers (audio/mod.rs), with the *)
(* calling half of CpalAudio (send_and_wait).                              *)
(*                                                                         *)
(* play() and stop() put a command on an unbounded channel and block until *)
(* the worker acknowledges it or one second has passed.  After a timeout   *)
(* the command stays queued and is still executed: only its ack is lost.   *)
(* The worker executes commands in order; a play replaces the current one, *)
(* or is refused when no output stream is open; a stop ends it; a sound    *)
(* that is not repeated ends by itself.                                    *)
(***************************************************************************)
EXTENDS Naturals, Sequences, Option

CONSTANTS Callers,     \* threads and tasks that may call play() or stop()
          Tasks,       \* trigger tasks, which call play() with their sound
          MaxBacklog   \* bound: commands in the channel

ASSUME AudioAssumption ==
  /\ Tasks \subseteq Callers
  /\ None \notin Callers
  /\ MaxBacklog \in Nat \ {0}

VARIABLES cmds,        \* the command channel
          playing,     \* whose sound the current playback is
          waiting      \* callers blocked on an ack

audioVars == <<cmds, playing, waiting>>

\* play is the task whose sound is to be played, None for a Stop.
Commands == [play : Tasks \cup {None}, ack : Callers \cup {None}]

IsStop(cmd) == cmd.play = None

AudioInit == cmds = <<>> /\ playing = None /\ waiting = {}

----
\* The first half of send_and_wait: the command is queued.
Send(u, p) ==
  /\ u \notin waiting
  /\ Len(cmds) < MaxBacklog
  /\ cmds' = Append(cmds, [play |-> p, ack |-> u])
  /\ waiting' = waiting \cup {u}
  /\ UNCHANGED playing

Play(t) == Send(t, t)

Stop(u) == Send(u, None)

\* recv_timeout expires: the caller goes on with WorkerUnavailable.  The
\* command is still queued, but its ack has no receiver any more.
AckTimeout(u) ==
  /\ u \in waiting
  /\ waiting' = waiting \ {u}
  /\ cmds' = [i \in DOMAIN cmds |->
                IF cmds[i].ack = u THEN [cmds[i] EXCEPT !.ack = None]
                                   ELSE cmds[i]]
  /\ UNCHANGED playing

\* The worker takes the oldest command and acknowledges it.
Receive ==
  /\ cmds # <<>>
  /\ cmds' = Tail(cmds)
  /\ waiting' = waiting \ {Head(cmds).ack}

\* Mutant of ExecStop: the worker does not acknowledge a Stop.
ExecStopSilent ==
  /\ cmds # <<>>
  /\ IsStop(Head(cmds))
  /\ cmds' = Tail(cmds)
  /\ playing' = None
  /\ UNCHANGED waiting

ExecStop ==
  /\ Receive
  /\ IsStop(Head(cmds))
  /\ playing' = None

ExecPlay ==
  /\ Receive
  /\ ~IsStop(Head(cmds))
  /\ playing' = Head(cmds).play

\* No stream is open: DeviceUnavailable.
RefusePlay ==
  /\ Receive
  /\ ~IsStop(Head(cmds))
  /\ UNCHANGED playing

\* The last frame was rendered.
Finish ==
  /\ playing # None
  /\ playing' = None
  /\ UNCHANGED <<cmds, waiting>>

Worker == ExecStop \/ ExecPlay \/ RefusePlay

AudioNext ==
  \/ \E t \in Tasks : Play(t)
  \/ \E u \in Callers : Stop(u) \/ AckTimeout(u)
  \/ Worker
  \/ Finish

AudioSpec == AudioInit /\ [][AudioNext]_audioVars

----
AudioTypeOK ==
  /\ cmds \in Seq(Commands)
  /\ playing \in Tasks \cup {None}
  /\ waiting \subseteq Callers

\* What will be heard once the channel is drained: t is queued with no Stop
\* behind it, or it is playing and no Stop is queued.
WillSound(t) ==
  \/ \E i \in DOMAIN cmds :
        /\ cmds[i].play = t
        /\ \A j \in DOMAIN cmds : j > i => ~IsStop(cmds[j])
  \/ playing = t /\ \A j \in DOMAIN cmds : ~IsStop(cmds[j])
====
