---- MODULE Control ----
(***************************************************************************)
(* The D-Bus control object (ipc/control.rs) over AlarmDaemon and          *)
(* AudioPlayer.                                                            *)
(*                                                                         *)
(* zbus runs the handlers of different clients concurrently, and a handler *)
(* gives way at every await and at the blocking calls of the player, so    *)
(* each handler is a sequence of steps:                                    *)
(*                                                                         *)
(*    cancel -> stop -> stopping -> transition [-> spawn -> store]         *)
(*           [-> emit] -> reply                                            *)
(*                                                                         *)
(* A trigger task sleeps, decodes the sound, and calls play(); after the   *)
(* sleep it has no await left, so an abort no longer reaches it.           *)
(* With one client the calls are serialized, because a client awaits the   *)
(* reply to one call before it makes the next.                             *)
(***************************************************************************)
EXTENDS AlarmDaemon, AudioPlayer

CONSTANT MaxCrashes    \* bound: process deaths in one behaviour

ASSUME ControlAssumption ==
  /\ Callers = Clients \cup Tasks
  /\ Clients \cap Tasks = {}
  /\ MaxCrashes \in Nat

VARIABLES call,          \* the handler each client has running
          trigger_task,  \* Control.trigger_task: the stored JoinHandle
          task,          \* trigger tasks
          view,          \* what the last StateChanged told the subscribers;
                         \* None when an emission was lost
          restored,      \* the state was loaded at startup, not set by a call
          crashes        \* process deaths so far

controlVars == <<call, trigger_task, task, view, restored, crashes>>

vars == <<daemonVars, audioVars, controlVars>>

PCs == {"idle", "cancel", "stop", "stopping", "transition", "spawn", "store",
        "emit", "reply"}

Results == {"ok", "InvalidArgs", "Failed"}

\* task: the trigger this call will spawn, None for Disarm and Dismiss.
\* emit: the status StateChanged is to announce, None for no signal.
Calls == [pc : PCs, op : {"none", "Arm", "Snooze", "Disarm"},
          task : Tasks \cup {None}, emit : AlarmStatus \cup {None},
          result : Results]

NoCall == [pc |-> "idle", op |-> "none", task |-> None, emit |-> None,
           result |-> "ok"]

\* The handler has only its reply left to send.
Answer(result) == [NoCall EXCEPT !.pc = "reply", !.result = result]

\* unborn: a task id not yet used.  reserved: set aside for a call that will
\* spawn it.  killed: its process died.  cancelled: the abort flag of the
\* JoinHandle was set before the task finished.
TaskStates == {"unborn", "reserved", "sleeping", "decoding", "playing",
               "finished", "killed"}

TaskRecords == [st : TaskStates, sound : Sounds \cup {None},
                fire : Fires \cup {None}, cancelled : BOOLEAN]

Unborn == [st |-> "unborn", sound |-> None, fire |-> None, cancelled |-> FALSE]

Init ==
  /\ DaemonInit
  /\ AudioInit
  /\ call = [c \in Clients |-> NoCall]
  /\ trigger_task = None
  /\ task = [t \in Tasks |-> Unborn]
  /\ view = "Disarmed"
  /\ restored = FALSE
  /\ crashes = 0

Goto(c, pc) == call' = [call EXCEPT ![c].pc = pc]

SetTask(t, st) == task' = [task EXCEPT ![t].st = st]

----
(* Handlers: entry and early returns *)

\* schedule_trigger_with_delay up to its first await: the sound resolved, the
\* fire time computed from the clock (any value of Fires).
Schedule(c, op, sound) ==
  \E t \in Tasks, f \in Fires :
    /\ task[t].st = "unborn"
    /\ task' = [task EXCEPT ![t] = [st |-> "reserved", sound |-> sound,
                                    fire |-> f, cancelled |-> FALSE]]
    /\ call' = [call EXCEPT ![c] = [NoCall EXCEPT !.pc = "cancel", !.op = op,
                                                  !.task = t]]
    /\ UNCHANGED <<daemonVars, audioVars, trigger_task, view, restored, crashes>>

Idle(c) == up /\ call[c].pc = "idle"

\* Nothing has been cancelled or changed when a handler rejects its arguments.
Reject(c, result) ==
  /\ call' = [call EXCEPT ![c] = Answer(result)]
  /\ UNCHANGED <<daemonVars, audioVars, trigger_task, task, view, restored, crashes>>

Arm(c) == Idle(c) /\ \E s \in Sounds : Schedule(c, "Arm", s)

\* resolve_path fails: unknown id or no such file.
ArmUnresolved(c) == Idle(c) /\ Reject(c, "InvalidArgs")

\* current_sound() is read here; the state may change before the re-arm.
Snooze(c) ==
  /\ Idle(c)
  /\ inner.sound # None
  /\ Schedule(c, "Snooze", inner.sound)

\* duration_s = 0, or the sound's file has gone.
SnoozeInvalid(c) == Idle(c) /\ Reject(c, "InvalidArgs")

SnoozeUnset(c) ==
  /\ Idle(c)
  /\ inner.sound = None
  /\ Reject(c, "Failed")

Disarm(c) ==
  /\ Idle(c)
  /\ call' = [call EXCEPT ![c] = [NoCall EXCEPT !.pc = "cancel", !.op = "Disarm"]]
  /\ UNCHANGED <<daemonVars, audioVars, trigger_task, task, view, restored, crashes>>

\* Dismiss has the same body as Disarm.
Dismiss(c) == Disarm(c)

----
(* Handlers: the steps after the entry *)

\* JoinHandle::abort: a sleeping task is dropped; a task past its sleep runs
\* on to its end with the flag set; a finished one is left alone.
Abort(tr) ==
  CASE tr.st = "sleeping"              -> [tr EXCEPT !.st = "finished", !.cancelled = TRUE]
    [] tr.st \in {"decoding", "playing"} -> [tr EXCEPT !.cancelled = TRUE]
    [] OTHER                           -> tr

\* Mutant of Cancel: the handle is dropped without abort().
CancelDetaches(c) ==
  /\ call[c].pc = "cancel"
  /\ trigger_task' = None
  /\ Goto(c, "stop")
  /\ UNCHANGED <<daemonVars, audioVars, task, view, restored, crashes>>

\* cancel_pending: take the handle and abort it under the mutex.
Cancel(c) ==
  /\ call[c].pc = "cancel"
  /\ task' = [t \in Tasks |-> IF t = trigger_task THEN Abort(task[t]) ELSE task[t]]
  /\ trigger_task' = None
  /\ Goto(c, "stop")
  /\ UNCHANGED <<daemonVars, audioVars, view, restored, crashes>>

\* Mutant of StopSend: cancel_pending does not stop the player.
StopOmitted(c) ==
  /\ call[c].pc = "stop"
  /\ Goto(c, "stopping")
  /\ UNCHANGED <<daemonVars, audioVars, trigger_task, task, view, restored, crashes>>

\* cancel_pending: player.stop() queues the command ...
StopSend(c) ==
  /\ call[c].pc = "stop"
  /\ Stop(c)
  /\ Goto(c, "stopping")
  /\ UNCHANGED <<daemonVars, trigger_task, task, view, restored, crashes>>

Wanted(c) ==
  IF call[c].task = None
  THEN Disarmed
  ELSE Armed(task[call[c].task].sound, task[call[c].task].fire)

\* ... and returns, acknowledged or timed out; the handler enters transition_to.
StopReturn(c) ==
  /\ call[c].pc = "stopping"
  /\ c \notin waiting
  /\ CallTransition(c, Wanted(c))
  /\ Goto(c, "transition")
  /\ UNCHANGED <<audioVars, trigger_task, task, view, restored, crashes>>

\* The steps inside transition_to (AlarmDaemon).
Swap(c) ==
  /\ SwapNoChange(c) \/ SwapChanged(c)
  /\ restored' = FALSE
  /\ UNCHANGED <<audioVars, call, trigger_task, task, view, crashes>>

Save(c) ==
  /\ CreateDb(c) \/ SaveCommit(c) \/ SaveFail(c)
  /\ UNCHANGED <<audioVars, controlVars>>

\* Mutant of Signal: only Arm announces the new status.
SignalArmOnly(c) ==
  IF /\ call[c].op = "Arm"
     /\ outcome[c] # None
     /\ outcome[c].from # outcome[c].to
  THEN outcome[c].to
  ELSE None

\* A StateChanged is due when the status changed; Snooze drops the Transition.
Signal(c) ==
  IF /\ call[c].op # "Snooze"
     /\ outcome[c] # None
     /\ outcome[c].from # outcome[c].to
  THEN outcome[c].to
  ELSE None

AfterWork(emit) ==
  IF emit = None THEN Answer("ok")
                 ELSE [NoCall EXCEPT !.pc = "emit", !.emit = emit]

TransitionReturn(c) ==
  /\ call[c].pc = "transition"
  /\ ReturnTransition(c)
  /\ call' = [call EXCEPT ![c] =
                 IF call[c].task = None
                 THEN AfterWork(Signal(c))
                 ELSE [call[c] EXCEPT !.pc = "spawn", !.emit = Signal(c)]]
  /\ UNCHANGED <<audioVars, trigger_task, task, view, restored, crashes>>

Spawn(c) ==
  /\ call[c].pc = "spawn"
  /\ SetTask(call[c].task, "sleeping")
  /\ Goto(c, "store")
  /\ UNCHANGED <<daemonVars, audioVars, trigger_task, view, restored, crashes>>

\* Mutant of Store: the handle found in trigger_task is aborted, not dropped.
StoreAborts(c) ==
  /\ call[c].pc = "store"
  /\ trigger_task' = call[c].task
  /\ task' = [t \in Tasks |-> IF t = trigger_task THEN Abort(task[t]) ELSE task[t]]
  /\ call' = [call EXCEPT ![c] = AfterWork(call[c].emit)]
  /\ UNCHANGED <<daemonVars, audioVars, view, restored, crashes>>

\* The handle that was stored before is dropped, which detaches its task.
Store(c) ==
  /\ call[c].pc = "store"
  /\ trigger_task' = call[c].task
  /\ call' = [call EXCEPT ![c] = AfterWork(call[c].emit)]
  /\ UNCHANGED <<daemonVars, audioVars, task, view, restored, crashes>>

\* StateChanged(armed) is sent, or its sending fails with a warning.
Emit(c) ==
  /\ call[c].pc = "emit"
  /\ view' \in {call[c].emit, None}
  /\ call' = [call EXCEPT ![c] = Answer("ok")]
  /\ UNCHANGED <<daemonVars, audioVars, trigger_task, task, restored, crashes>>

Reply(c) ==
  /\ call[c].pc = "reply"
  /\ call' = [call EXCEPT ![c] = NoCall]
  /\ UNCHANGED <<daemonVars, audioVars, trigger_task, task, view, restored, crashes>>

----
(* Trigger tasks, the player, the process *)

\* The sleep is over.
Wake(t) ==
  /\ task[t].st = "sleeping"
  /\ SetTask(t, "decoding")
  /\ UNCHANGED <<daemonVars, audioVars, call, trigger_task, view, restored, crashes>>

DecodeFail(t) ==
  /\ task[t].st = "decoding"
  /\ SetTask(t, "finished")
  /\ UNCHANGED <<daemonVars, audioVars, call, trigger_task, view, restored, crashes>>

PlaySend(t) ==
  /\ task[t].st = "decoding"
  /\ Play(t)
  /\ SetTask(t, "playing")
  /\ UNCHANGED <<daemonVars, call, trigger_task, view, restored, crashes>>

\* Mutant of PlayReturn: a play() that failed is tried again for ever.
PlayRetries(t) ==
  /\ task[t].st = "playing"
  /\ t \notin waiting
  /\ SetTask(t, "decoding")
  /\ UNCHANGED <<daemonVars, audioVars, call, trigger_task, view, restored, crashes>>

PlayReturn(t) ==
  /\ task[t].st = "playing"
  /\ t \notin waiting
  /\ SetTask(t, "finished")
  /\ UNCHANGED <<daemonVars, audioVars, call, trigger_task, view, restored, crashes>>

Player ==
  /\ Worker \/ Finish \/ \E u \in Callers : AckTimeout(u)
  /\ UNCHANGED <<daemonVars, controlVars>>

Crash ==
  /\ crashes < MaxCrashes
  /\ crashes' = crashes + 1
  /\ DaemonCrash
  /\ cmds' = <<>> /\ playing' = None /\ waiting' = {}
  /\ call' = [c \in Clients |-> NoCall]
  /\ trigger_task' = None
  /\ task' = [t \in Tasks |-> IF task[t].st = "unborn"
                              THEN Unborn ELSE [task[t] EXCEPT !.st = "killed"]]
  /\ restored' = FALSE
  /\ UNCHANGED view

\* main::run: the state is loaded, the worker is new, no trigger is scheduled.
\* Subscribers see the bus name change owner and read Status again.
Restart ==
  /\ DaemonRestart
  /\ restored' = TRUE
  /\ view' = Recovered.status
  /\ UNCHANGED <<audioVars, call, trigger_task, task, crashes>>

Handler(c) ==
  \/ Cancel(c) \/ StopSend(c) \/ StopReturn(c) \/ Swap(c) \/ Save(c)
  \/ TransitionReturn(c) \/ Spawn(c) \/ Store(c) \/ Emit(c) \/ Reply(c)

Entry(c) ==
  \/ Arm(c) \/ ArmUnresolved(c) \/ Snooze(c) \/ SnoozeInvalid(c)
  \/ SnoozeUnset(c) \/ Disarm(c) \/ Dismiss(c)

Trigger(t) == Wake(t) \/ DecodeFail(t) \/ PlaySend(t) \/ PlayReturn(t)

Next ==
  \/ \E c \in Clients : Entry(c) \/ Handler(c)
  \/ \E t \in Tasks : Trigger(t)
  \/ Player
  \/ Crash
  \/ Restart

Spec == Init /\ [][Next]_vars

\* The runtime keeps polling handlers and tasks, timers expire, the worker
\* thread keeps serving its channel and systemd restarts the daemon.  Clients
\* need not make calls, and nothing forces a sound to end.
Fairness ==
  /\ \A c \in Clients : WF_vars(Handler(c))
  /\ \A t \in Tasks : WF_vars(Trigger(t))
  /\ WF_vars(Worker /\ UNCHANGED <<daemonVars, controlVars>>)
  /\ WF_vars(Restart)
  \* The channel itself is unbounded: MaxBacklog must not starve a sender.
  /\ \A c \in Clients : SF_vars(StopSend(c))
  /\ \A t \in Tasks : SF_vars(PlaySend(t))

FairSpec == Spec /\ Fairness

----
TypeOK ==
  /\ DaemonTypeOK
  /\ AudioTypeOK
  /\ call \in [Clients -> Calls]
  /\ trigger_task \in Tasks \cup {None}
  /\ task \in [Tasks -> TaskRecords]
  /\ view \in AlarmStatus \cup {None}
  /\ restored \in BOOLEAN
  /\ crashes \in Nat

AllIdle == \A c \in Clients : call[c].pc = "idle"

\* Trigger t was spawned for the sound and fire time of s and nothing
\* cancelled it: it is pending, sounding, or has run to its end.
Covers(t, s) ==
  /\ task[t].st \notin {"unborn", "reserved", "killed"}
  /\ ~task[t].cancelled
  /\ task[t].sound = s.sound
  /\ task[t].fire = s.next_fire

\* No lost alarm: whatever calls overlap, once they have all returned and the
\* daemon says Armed, the trigger for exactly that sound and fire time was
\* spawned and no cancel_pending has aborted it.  Only a state loaded at
\* startup is exempt (no trigger is scheduled for it).
ArmedIsCovered ==
  (up /\ AllIdle /\ IsArmed(inner) /\ ~restored) => \E t \in Tasks : Covers(t, inner)

\* As ArmedIsCovered, for a state loaded at startup too (REQUIREMENTS FR-9.3).
ArmedHasTrigger ==
  (up /\ AllIdle /\ IsArmed(inner)) => \E t \in Tasks : Covers(t, inner)

\* One client: a sleeping trigger is always the one whose handle is stored, or
\* is about to be, so the next cancel_pending reaches it.
SleepingIsHeld ==
  \A t \in Tasks : task[t].st = "sleeping" =>
    \/ trigger_task = t
    \/ \E c \in Clients : call[c].pc = "store" /\ call[c].task = t

\* Trigger t will be heard unless something else happens.
Threatens(t) == task[t].st \in {"sleeping", "decoding"} \/ WillSound(t)

\* After Disarm or Dismiss has returned nothing can sound any more, even when
\* the player was slow to answer stop(), except a trigger that was already past
\* its sleep, decoding, when cancel_pending aborted it.  It holds for the serialized
\* calls of one client; with two, a Disarm that overlaps an Arm may miss its trigger.
DisarmedIsQuiet ==
  (up /\ AllIdle /\ ~IsArmed(inner)) =>
    \A t \in Tasks : Threatens(t) => task[t].cancelled

\* As DisarmedIsQuiet, without the exception: once Disarm or Dismiss has returned,
\* no trigger sounds, or has its play() queued, with no stop behind it (the
\* interface: "Cancel any pending trigger, stop in-flight playback").
DisarmedIsSilent ==
  (up /\ AllIdle /\ ~IsArmed(inner)) => \A t \in Tasks : ~WillSound(t)

\* When every call has returned, the last StateChanged told the subscribers the
\* current status, unless an emission failed.  It holds for the serialized calls
\* of one client; with two, the signals of overlapping calls may be swapped, and
\* a Snooze that undoes an overlapping Disarm announces nothing.
SubscribersAgree == (up /\ AllIdle) => view \in {inner.status, None}

\* A Snooze finds the alarm armed and keeps it armed: what transition_to reports
\* to it is never a change of the status.
SnoozeKeepsStatus ==
  \A c \in Clients :
    (call[c].op = "Snooze" /\ outcome[c] # None) => outcome[c].from = outcome[c].to

\* Every call is answered (or dies with its process), even while the worker is
\* slow and the save fails.
CallsReturn == \A c \in Clients : call[c].pc # "idle" ~> call[c].pc = "idle"

\* A trigger that is spawned does not stay asleep, and its task ends even when
\* decoding fails or the player never answers in time.
TriggersEnd == \A t \in Tasks :
  task[t].st = "sleeping" ~> task[t].st \in {"finished", "killed"}
====
