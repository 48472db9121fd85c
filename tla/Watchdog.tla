---- MODULE Watchdog ----
(***************************************************************************)
(* The process under systemd (main.rs, systemd.rs and the limits of        *)
(* data/systemd/alarm-daemon.service): readiness, the watchdog ping,       *)
(* shutdown and restart.                                                   *)
(*                                                                         *)
(* The ping is a task of the same tokio runtime as the D-Bus handlers and  *)
(* triggers, and those block a worker thread: stop() and play() for up to  *)
(* a second, decoding for as long as it takes.  tokio is external, and as  *)
(* little as possible is supposed of it: an idle worker takes any task     *)
(* that is ready, in any order, or looks at the timers and signals.  Only  *)
(* when no worker is blocked is nothing left to wait; otherwise time may   *)
(* pass although another worker is idle, as when it sleeps and the one     *)
(* that should have looked runs a task instead.  Tasks that do not block   *)
(* take no time and are left out.                                          *)
(*                                                                         *)
(* Time advances by Tick.                                                  *)
(***************************************************************************)
EXTENDS Integers, Option

CONSTANTS Workers,      \* worker threads of the runtime
          WatchdogSec, RestartSec, TimeoutStopSec,   \* of the unit, in ticks
          MaxBlock,     \* bound: ticks for which a task blocks its worker
          MaxLoad,      \* bound: tasks between two pings, or during a stop
          MaxSave,      \* bound: ticks until all saves in flight have ended
          MaxBuild,     \* bound: ticks until the audio thread sees Shutdown and ends
          MaxLate       \* bound: ticks a late ping is followed, to be made up for

\* The load a healthy process is supposed to bear.  When a ping is due, or a signal
\* arrives, a worker may be in a task, and MaxLoad others may be done first, one
\* after the other.  Half of a timeout of one tick is none (the code then pings
\* once per timeout, which is too late).
ASSUME LoadAssumption ==
  /\ Workers # {}
  /\ {WatchdogSec, RestartSec, TimeoutStopSec} \subseteq Nat
  /\ {MaxBlock, MaxLoad, MaxSave, MaxBuild, MaxLate} \subseteq Nat
  /\ None \notin Int
  /\ WatchdogSec > 1
  /\ MaxBlock * (1 + MaxLoad) < WatchdogSec - WatchdogSec \div 2
  /\ MaxBlock * (1 + MaxLoad) + MaxSave + MaxBuild < TimeoutStopSec

VARIABLES proc,      \* where main is
          waiting,   \* tasks ready to run that may block
          asked,     \* such tasks since the last ping, or the start of a stop
          ping,      \* the ping task is ready to run
          busy,      \* ticks for which each worker is still blocked
          stuck,     \* workers that will never come back
          saving,    \* ticks until the saves in flight have ended
          audio,     \* ticks until the audio thread has ended, None before
                     \* Inner::drop told it to
          deadline,  \* ticks to the next tick of the ping's interval
          since,     \* ticks since systemd last heard of us
          timer,     \* ticks since the process died or was told to stop
          lost       \* a ping could not be sent

vars == <<proc, waiting, asked, ping, busy, stuck, saving, audio, deadline, since,
          timer, lost>>

tasks == <<waiting, asked, ping>>
clocks == <<deadline, since, timer, lost>>

\* stopping: SIGTERM was sent; closing: run returns, which drops what it holds;
\* leaving: the runtime is dropped.
Stopped == {"stopping", "closing", "leaving"}
Procs == {"starting", "up", "dead", "exited"} \cup Stopped

\* The runtime serves its tasks.
Running == proc \in {"starting", "up", "stopping", "closing"}

Idle(w) == busy[w] = 0 /\ w \notin stuck

\* Mutant of PingPeriodFor: the whole timeout.
PingPeriodWhole(period) == period

\* Half the timeout, but at least one tick (1 ms in the code).
PingPeriodFor(period) == IF period \div 2 > 1 THEN period \div 2 ELSE 1

Fresh(state) ==
  /\ proc' = state
  /\ waiting' = 0 /\ asked' = 0 /\ ping' = FALSE
  /\ busy' = [w \in Workers |-> 0]
  /\ stuck' = {}
  /\ saving' = 0
  /\ audio' = None
  /\ deadline' = None
  /\ since' = 0
  /\ timer' = 0
  /\ lost' = FALSE

Init ==
  /\ proc = "starting"
  /\ waiting = 0 /\ asked = 0 /\ ping = FALSE
  /\ busy = [w \in Workers |-> 0]
  /\ stuck = {}
  /\ saving = 0
  /\ audio = None
  /\ deadline = None
  /\ since = 0
  /\ timer = 0
  /\ lost = FALSE

----
(* The process *)

\* READY=1, and the ping task is spawned.  Calls were served a little earlier,
\* from the moment the bus name was owned.
Ready ==
  /\ proc = "starting"
  /\ proc' = "up"
  /\ since' = 0
  /\ ping' = TRUE
  /\ asked' = waiting
  /\ UNCHANGED <<waiting, busy, stuck, saving, audio, deadline, timer, lost>>

\* The store, the sound directories, the audio thread or the bus fails: run
\* returns an error and the exit code says so.
StartFails == proc = "starting" /\ Fresh("dead")

\* A call or a trigger is ready to run.
Request ==
  /\ Running
  /\ asked < MaxLoad
  /\ asked' = asked + 1
  /\ waiting' = waiting + 1
  /\ UNCHANGED <<proc, ping, busy, stuck, saving, audio, clocks>>

\* Worker w takes one of the tasks.
Take(w) ==
  /\ Running
  /\ Idle(w)
  /\ waiting > 0
  /\ waiting' = waiting - 1
  /\ UNCHANGED <<proc, asked, ping, saving, audio, clocks>>

\* Mutant of Work: the ack is awaited for longer than COMMAND_ACK_TIMEOUT.
WorkWaitsOn(w) ==
  /\ Take(w)
  /\ \E d \in 0..(MaxBlock + 1) : busy' = [busy EXCEPT ![w] = d]
  /\ UNCHANGED stuck

\* A handler or trigger runs and blocks its worker for d ticks.
Work(w) ==
  /\ Take(w)
  /\ \E d \in 0..MaxBlock : busy' = [busy EXCEPT ![w] = d]
  /\ UNCHANGED stuck

\* A task that never gives its worker back.
Stall(w) ==
  /\ Take(w)
  /\ stuck' = stuck \cup {w}
  /\ UNCHANGED busy

\* A task hands a save to a thread of the blocking pool.
Save ==
  /\ Running \/ (proc = "leaving" /\ \E w \in Workers : busy[w] > 0)
  /\ saving' \in (saving + 1)..MaxSave
  /\ UNCHANGED <<proc, tasks, busy, stuck, audio, clocks>>

\* The ping task runs for the first time: the interval starts now, and its
\* immediate first tick is consumed.
StartInterval(w) ==
  /\ Running /\ Idle(w)
  /\ ping /\ ping' = FALSE
  /\ deadline = None
  /\ deadline' = PingPeriodFor(WatchdogSec)
  /\ UNCHANGED <<proc, waiting, asked, busy, stuck, saving, audio, since, timer, lost>>

\* WATCHDOG=1 is sent, or cannot be, which is logged.  A late tick does not move
\* the ones after it.
Ping(w) ==
  /\ Running /\ Idle(w)
  /\ ping /\ ping' = FALSE
  /\ deadline # None
  /\ deadline' = deadline + PingPeriodFor(WatchdogSec)
  /\ asked' = IF proc = "up" THEN waiting ELSE asked
  /\ \/ since' = 0 /\ UNCHANGED lost
     \/ lost' = TRUE /\ UNCHANGED since
  /\ UNCHANGED <<proc, waiting, busy, stuck, saving, audio, timer>>

PingDue == deadline # None /\ deadline <= 0 /\ ~ping

\* Mutant of Due: the ping is sent by a thread of its own.
DueOwnThread(w) ==
  /\ Running
  /\ PingDue
  /\ since' = 0
  /\ deadline' = deadline + PingPeriodFor(WatchdogSec)
  /\ UNCHANGED <<proc, tasks, busy, stuck, saving, audio, timer, lost>>

\* Worker w looks at the timers: the interval has ticked, and the ping task is
\* ready.
Due(w) ==
  /\ Running /\ Idle(w)
  /\ PingDue
  /\ ping' = TRUE
  /\ UNCHANGED <<proc, waiting, asked, busy, stuck, saving, audio, clocks>>

\* Mutant of SignalDue: only SIGINT is waited for.
SignalDueSigint == FALSE

\* SIGTERM (or SIGINT) has arrived and has not been noticed.
SignalDue == proc = "stopping"

\* Worker w looks at the signals: wait_for_shutdown returns, on the main thread;
\* STOPPING=1; run returns.
Leave(w) ==
  /\ SignalDue /\ Idle(w)
  /\ proc' = "closing"
  /\ UNCHANGED <<tasks, busy, stuck, saving, audio, clocks>>

\* The last holder of the player drops it: run, with the connection, or a task that
\* is dropped with the runtime.  Inner::drop sends Shutdown to the audio thread,
\* which may be opening a device, and joins it.
DropPlayer ==
  /\ proc \in {"closing", "leaving"}
  /\ audio = None
  /\ audio' \in 0..MaxBuild
  /\ UNCHANGED <<proc, tasks, busy, stuck, saving, clocks>>

\* run has returned, and main drops the runtime: the tasks are dropped, the worker
\* threads and the saves that have begun are waited for.
DropRuntime ==
  /\ proc = "closing"
  /\ audio \in {None, 0}
  /\ proc' = "leaving"
  /\ waiting' = 0 /\ ping' = FALSE /\ deadline' = None
  /\ UNCHANGED <<asked, busy, stuck, saving, audio, since, timer, lost>>

\* Nobody works any more.
Quiet == (\A w \in Workers : Idle(w)) /\ saving = 0

Exit == proc = "leaving" /\ Quiet /\ audio = 0 /\ Fresh("exited")

----
(* systemd and time *)

WatchdogExpired == proc = "up" /\ since >= WatchdogSec

Kill == WatchdogExpired /\ Fresh("dead")

\* A process that dies while it is being stopped is not restarted.
Crash ==
  /\ proc \notin {"dead", "exited"}
  /\ Fresh(IF proc \in Stopped THEN "exited" ELSE "dead")

\* Restart=on-failure.
RestartDue == proc = "dead" /\ timer >= RestartSec

Restart == RestartDue /\ Fresh("starting")

\* systemctl stop, and start.  The watchdog is off from here on.
Sigterm ==
  /\ proc = "up"
  /\ proc' = "stopping"
  /\ timer' = 0
  /\ since' = 0
  /\ asked' = waiting
  /\ UNCHANGED <<waiting, ping, busy, stuck, saving, audio, deadline, lost>>

StopExpired == proc \in Stopped /\ timer >= TimeoutStopSec

StopTimeout == StopExpired /\ Fresh("exited")

StartUnit == proc = "exited" /\ Fresh("starting")

\* What is done before time passes: the workers have something to do and none of
\* them is blocked, main does not wait, or systemd acts.
Urgent ==
  \/ /\ Running
     /\ \A w \in Workers : Idle(w)
     /\ waiting > 0 \/ ping \/ PingDue \/ SignalDue
  \/ proc = "closing" /\ audio \in {None, 0}
  \/ proc = "leaving" /\ Quiet /\ audio \in {None, 0}
  \/ WatchdogExpired \/ RestartDue \/ StopExpired

Less(n) == IF n > 0 THEN n - 1 ELSE 0

\* The interval runs on.
Later == IF deadline = None \/ deadline = -MaxLate THEN deadline ELSE deadline - 1

Tick ==
  /\ ~Urgent
  /\ proc # "exited"
  /\ busy' = [w \in Workers |-> Less(busy[w])]
  /\ saving' = Less(saving)
  /\ audio' = IF audio = None THEN None ELSE Less(audio)
  /\ deadline' = Later
  /\ since' = IF proc = "up" THEN since + 1 ELSE since
  /\ timer' = IF proc \in Stopped \cup {"dead"} THEN timer + 1 ELSE timer
  /\ UNCHANGED <<proc, tasks, stuck, lost>>

Runtime == \E w \in Workers : Work(w) \/ StartInterval(w) \/ Ping(w) \/ Due(w) \/ Leave(w)

Shutdown == DropPlayer \/ DropRuntime \/ Exit

Next ==
  \/ Ready \/ StartFails \/ Request \/ Save \/ Runtime \/ Shutdown
  \/ \E w \in Workers : Stall(w)
  \/ Kill \/ Crash \/ Restart \/ Sigterm \/ StopTimeout \/ StartUnit
  \/ Tick

Spec == Init /\ [][Next]_vars

\* Threads that are not stuck run, time passes, and systemd does its part.
\* Calls, faults and operators need not come.
Fairness ==
  /\ WF_vars(Ready) /\ WF_vars(Runtime) /\ WF_vars(Shutdown)
  /\ WF_vars(Kill) /\ WF_vars(Restart) /\ WF_vars(StopTimeout)
  /\ WF_vars(Tick)

FairSpec == Spec /\ Fairness

----
TypeOK ==
  /\ proc \in Procs
  /\ waiting \in 0..asked /\ asked \in 0..MaxLoad
  /\ ping \in BOOLEAN /\ lost \in BOOLEAN
  /\ busy \in [Workers -> 0..MaxBlock]
  /\ stuck \subseteq Workers
  /\ saving \in 0..MaxSave
  /\ audio \in 0..MaxBuild \cup {None}
  /\ deadline \in Int \cup {None}
  /\ {since, timer} \subseteq Nat

\* A process whose workers all come back is never killed by the watchdog, as
\* long as the load stays within LoadAssumption and no ping is lost: the ping
\* gets its turn between the blocking calls in time, the first one included,
\* whatever order the runtime runs its tasks in.
HealthySurvives == (proc = "up" /\ stuck = {} /\ ~lost) => since < WatchdogSec

\* A stop of such a process is clean: the runtime has waited for its workers and
\* for the saves in flight, and the audio thread has been joined, before systemd
\* loses patience, so nothing is cut off.
StopIsClean == (proc \in Stopped /\ stuck = {}) => timer < TimeoutStopSec

\* "A runtime stall [...] lets systemd kill + restart us": when every worker is
\* stuck, the process is replaced (or stopped by an operator).
StallIsEnded == (proc = "up" /\ stuck = Workers) ~> proc \in {"starting", "exited"}
====
