---- MODULE Recovery ----
(***************************************************************************)
(* Alarms across restarts: one client, the daemon state and its file       *)
(* (AlarmDaemon), the trigger of the current alarm, a clock, and           *)
(* main::run with new_persistent and evaluate_recovery.                    *)
(*                                                                         *)
(* The fire time is a reading of the wall clock, which may be wrong and be *)
(* corrected at any time; the trigger sleeps for Delay by the monotonic    *)
(* clock, and starts only after the state has been saved.  A restarted     *)
(* process has no trigger: it only logs an alarm whose time has passed.    *)
(* Snooze is an Arm with another delay.                                    *)
(***************************************************************************)
EXTENDS AlarmDaemon

CONSTANTS Delay,        \* trigger_delay, in ticks
          MaxTime,      \* bound: last reading of the clock
          MaxCrashes,   \* bound: process deaths and failed starts
          MaxAdjusts    \* bound: corrections of the wall clock

ASSUME RecoveryAssumption ==
  /\ \E c \in Clients : Clients = {c}
  /\ Fires = 0..MaxTime
  /\ {Delay, MaxTime, MaxCrashes, MaxAdjusts} \subseteq Nat

VARIABLES now,        \* the wall clock
          serving,    \* main::run owns the bus name
          trigger,    \* the trigger task of the current alarm
          missed,     \* missed_while_down was logged for the restored alarm
          started,    \* what the clock said when the process loaded the file
          durable,    \* the file holds the in-memory state
          promise,    \* what the last call promised: the state it left behind when
                      \* it returned, None while a call is running, when its
                      \* save failed, or once the alarm was played (or could not be)
          asked,      \* the state that was last known to be in the file, and those
                      \* that calls have asked for since
          crashes, adjusts

recoveryVars == <<now, serving, trigger, missed, started, durable, promise,
                  asked, crashes, adjusts>>

vars == <<daemonVars, recoveryVars>>

\* sleep: ticks left; fire: the alarm it belongs to
Triggers == [st : {"sleeping", "woken"}, fire : Fires, sleep : 0..Delay]

\* No trigger is not a trigger, and no promise not a state.
ASSUME AbsentAssumption == None \notin Triggers /\ None \notin States

Init ==
  /\ DaemonInit
  /\ now = 0 /\ serving = TRUE
  /\ trigger = None /\ missed = FALSE /\ started = 0
  /\ durable = TRUE /\ promise = Disarmed /\ asked = {Disarmed}
  /\ crashes = 0 /\ adjusts = 0

----
(* Calls *)

\* A call cancels the pending trigger, and then enters transition_to.  (A trigger
\* that was woken still plays, but no longer for the current alarm.)
Call(c, s) ==
  /\ serving
  /\ CallTransition(c, s)
  /\ trigger' = None
  /\ missed' = FALSE
  /\ promise' = None
  /\ asked' = asked \cup {s}
  /\ UNCHANGED <<now, serving, started, durable, crashes, adjusts>>

\* The fire time is computed when the call comes in.
Arm(c, sound) == now + Delay <= MaxTime /\ Call(c, Armed(sound, now + Delay))

Disarm(c) == Call(c, Disarmed)

Swap(c) ==
  /\ SwapNoChange(c) \/ SwapChanged(c)
  /\ durable' = (durable /\ inner' = inner)
  /\ UNCHANGED <<now, serving, trigger, missed, started, promise, asked, crashes, adjusts>>

Save(c) ==
  /\ \/ CreateDb(c) /\ UNCHANGED durable
     \/ SaveCommit(c) /\ durable' = TRUE
     \/ SaveFail(c) /\ durable' = FALSE
  /\ UNCHANGED <<now, serving, trigger, missed, started, promise, asked, crashes, adjusts>>

\* Mutant of Return: the fire time is taken for the time to sleep.
ReturnAbsolute(c) ==
  /\ ReturnTransition(c)
  /\ trigger' = IF IsArmed(desired[c])
                THEN [st |-> "sleeping", fire |-> desired[c].next_fire,
                      sleep |-> desired[c].next_fire]
                ELSE None
  /\ promise' = IF durable THEN inner ELSE None
  /\ asked' = IF durable THEN {inner} ELSE asked
  /\ UNCHANGED <<now, serving, missed, started, durable, crashes, adjusts>>

\* The trigger is spawned, and the call returns.
Return(c) ==
  /\ ReturnTransition(c)
  /\ trigger' = IF IsArmed(desired[c])
                THEN [st |-> "sleeping", fire |-> desired[c].next_fire,
                      sleep |-> Delay]
                ELSE None
  /\ promise' = IF durable THEN inner ELSE None
  /\ asked' = IF durable THEN {inner} ELSE asked
  /\ UNCHANGED <<now, serving, missed, started, durable, crashes, adjusts>>

----
(* The trigger *)

Wake ==
  /\ trigger # None
  /\ trigger.st = "sleeping" /\ trigger.sleep = 0
  /\ trigger' = [trigger EXCEPT !.st = "woken"]
  /\ UNCHANGED <<daemonVars, now, serving, missed, started, durable, promise,
                 asked, crashes, adjusts>>

\* The sound is played, or cannot be decoded or played, which is logged.  The
\* daemon stays Armed, with the fire time that has passed.
Fire ==
  /\ trigger # None
  /\ trigger.st = "woken"
  /\ trigger' = None
  /\ promise' = None
  /\ UNCHANGED <<daemonVars, now, serving, missed, started, durable, asked, crashes,
                 adjusts>>

----
(* The process *)

\* A crash, a kill, or the end of run() after a signal: all but the file is gone.
Die ==
  /\ DaemonCrash
  /\ serving' = FALSE
  /\ trigger' = None
  /\ missed' = FALSE
  /\ UNCHANGED <<now, started, durable, promise, asked, adjusts>>

Crash ==
  /\ crashes < MaxCrashes
  /\ crashes' = crashes + 1
  /\ Die

\* Mutant of EvaluateRecovery: an alarm that is due right now is not reported.
EvaluateRecoveryLater(p, t) == p.armed /\ p.next_fire # None /\ p.next_fire < t

\* Mutant of EvaluateRecovery: no fire time counts as one that has passed.
EvaluateRecoveryUnset(p, t) == p.next_fire = None \/ p.next_fire <= t

EvaluateRecovery(p, t) == p.armed /\ p.next_fire # None /\ p.next_fire <= t

\* run() up to new_persistent: the file is read, and a missed alarm is logged.
Start ==
  /\ DaemonRestart
  /\ missed' = EvaluateRecovery(Load(file), now)
  /\ started' = now
  /\ durable' = TRUE
  /\ asked' = {Recovered}
  /\ UNCHANGED <<now, serving, trigger, promise, crashes, adjusts>>

\* The rest of run(): sound directories, audio thread, bus name.  If one of
\* them fails the process ends (Crash).
Serve ==
  /\ up /\ ~serving
  /\ serving' = TRUE
  /\ UNCHANGED <<daemonVars, now, trigger, missed, started, durable, promise,
                 asked, crashes, adjusts>>

----
(* Clocks *)

Tick ==
  /\ now < MaxTime
  /\ now' = now + 1
  /\ trigger' = IF trigger # None /\ trigger.sleep > 0
                THEN [trigger EXCEPT !.sleep = @ - 1]
                ELSE trigger
  /\ UNCHANGED <<daemonVars, serving, missed, started, durable, promise, asked,
                 crashes, adjusts>>

\* The wall clock is set; nothing subscribes to that.
Adjust ==
  /\ adjusts < MaxAdjusts
  /\ adjusts' = adjusts + 1
  /\ now' \in 0..MaxTime \ {now}
  /\ UNCHANGED <<daemonVars, serving, trigger, missed, started, durable, promise,
                 asked, crashes>>

ClientStep(c) ==
  \/ \E s \in Sounds : Arm(c, s)
  \/ Disarm(c) \/ Swap(c) \/ Save(c) \/ Return(c)

Next ==
  \/ \E c \in Clients : ClientStep(c)
  \/ Wake \/ Fire
  \/ Crash \/ Start \/ Serve
  \/ Tick \/ Adjust

Spec == Init /\ [][Next]_vars

----
TypeOK ==
  /\ DaemonTypeOK
  /\ {now, started} \subseteq 0..MaxTime
  /\ trigger \in Triggers \cup {None}
  /\ {serving, missed, durable} \subseteq BOOLEAN
  /\ promise \in States \cup {None}
  /\ asked \subseteq States
  /\ {crashes, adjusts} \subseteq Nat

\* The trigger of alarm s is on its way.
Pending(s) == trigger # None /\ trigger.fire = s.next_fire

\* What a restart would load is at every moment a whole state that somebody asked
\* for: the last one known to be saved or that of a call since, whatever failed,
\* died in mid-save or died while starting.
RestartIsFaithful == Recovered \in asked

\* A process that started at or after the time of a promised alarm has reported
\* it, however often the process died and failed to start before, and whatever
\* happened to the clock since the Arm.  Of an alarm that was still to come when
\* the process started this says nothing (see NoSilentLoss).
MissedIsReported ==
  (serving /\ promise # None /\ IsArmed(promise)) =>
    \/ Pending(promise)
    \/ missed
    \/ promise.next_fire > started

\* "No alarm armed before a power loss shall be silently lost": until it is
\* played, the trigger of a promised alarm is pending, or the running process has
\* reported it missed, or its time is still to come.
NoSilentLoss ==
  (serving /\ promise # None /\ IsArmed(promise)) =>
    \/ Pending(promise)
    \/ missed
    \/ promise.next_fire > now

\* After a Disarm that returned and was saved, no start reports a missed alarm.
NoPhantomReport == promise = Disarmed => ~missed
====
