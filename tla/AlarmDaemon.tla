---- MODULE AlarmDaemon ----
(***************************************************************************)
(* The daemon's shared state and its durable copy                          *)
(* (daemon/alarm_daemon.rs, daemon/state.rs, daemon/persistence/mod.rs).   *)
(*                                                                         *)
(* transition_to swaps the in-memory State under the write lock, releases  *)
(* the lock, and only then writes the snapshot to the redb file on a       *)
(* blocking thread, whose result it awaits.  Callers are concurrent, so    *)
(* the swap and the save of one caller interleave with those of others.    *)
(* The process may die between any two steps and be restarted.             *)
(***************************************************************************)
EXTENDS Naturals, Option

CONSTANTS Clients,   \* concurrent callers of transition_to
          Sounds,    \* sound ids
          Fires      \* fire timestamps (next_fire_unix_ms)

ASSUME NoneAssumption == None \notin Sounds /\ None \notin Fires

VARIABLES inner,     \* AlarmDaemon.inner: the State behind the RwLock
          file,      \* the redb file: does it exist, what does STATE_KEY hold
          phase,     \* where each caller is inside transition_to
          desired,   \* the State each caller asked for
          outcome,   \* the Transition each caller gets back
          up         \* the process is running

daemonVars == <<inner, file, phase, desired, outcome, up>>

AlarmStatus == {"Disarmed", "Armed"}

States == [status : AlarmStatus, next_fire : Fires \cup {None},
           sound : Sounds \cup {None}]

PersistedStates == [armed : BOOLEAN, next_fire : Fires \cup {None},
                    sound : Sounds \cup {None}]

\* A missing value is not a state.
ASSUME ValueAssumption == None \notin PersistedStates

Disarmed == [status |-> "Disarmed", next_fire |-> None, sound |-> None]

Armed(sound, fire) == [status |-> "Armed", next_fire |-> fire, sound |-> sound]

IsArmed(s) == s.status = "Armed"

ToPersisted(s) ==
  [armed |-> IsArmed(s), next_fire |-> s.next_fire, sound |-> s.sound]

\* The State new_persistent builds from what load() returned.
FromPersisted(p) ==
  [status |-> IF p.armed THEN "Armed" ELSE "Disarmed",
   next_fire |-> p.next_fire, sound |-> p.sound]

\* Mutant of Load: a missing value is read as a fire time of 0.
LoadZero(f) ==
  IF f.value = None
  THEN [armed |-> FALSE, next_fire |-> 0, sound |-> None]
  ELSE f.value

\* load(): no file, no table or no key all mean PersistedState::default().
Load(f) ==
  IF f.value = None
  THEN [armed |-> FALSE, next_fire |-> None, sound |-> None]
  ELSE f.value

Recovered == FromPersisted(Load(file))

\* Transition::Changed; Transition::NoChange is None.
Changed(from, to) == [from |-> from, to |-> to]

Outcomes == [from : AlarmStatus, to : AlarmStatus] \cup {None}

\* Nothing announced is not a status, and no transition is not a Transition.
ASSUME OutcomeAssumption ==
  None \notin AlarmStatus /\ None \notin [from : AlarmStatus, to : AlarmStatus]

Phases == {"out", "swap", "save", "ret"}

DaemonInit ==
  /\ inner = Disarmed
  /\ file = [exists |-> FALSE, value |-> None]
  /\ phase = [c \in Clients |-> "out"]
  /\ desired = [c \in Clients |-> None]
  /\ outcome = [c \in Clients |-> None]
  /\ up = TRUE

----
\* transition_to(s) is called: the caller queues for the write lock.
CallTransition(c, s) ==
  /\ up
  /\ phase[c] = "out"
  /\ phase' = [phase EXCEPT ![c] = "swap"]
  /\ desired' = [desired EXCEPT ![c] = s]
  /\ UNCHANGED <<inner, file, outcome, up>>

\* The state is already the desired one: return without touching the file.
SwapNoChange(c) ==
  /\ phase[c] = "swap"
  /\ inner = desired[c]
  /\ phase' = [phase EXCEPT ![c] = "ret"]
  /\ outcome' = [outcome EXCEPT ![c] = None]
  /\ UNCHANGED <<inner, file, desired, up>>

\* Mutant of SwapChanged: only a change of the status is written to the file.
SwapStatusOnly(c) ==
  /\ phase[c] = "swap"
  /\ inner # desired[c]
  /\ inner' = desired[c]
  /\ outcome' = [outcome EXCEPT ![c] = Changed(inner.status, desired[c].status)]
  /\ phase' = [phase EXCEPT ![c] = IF inner.status = desired[c].status
                                   THEN "ret" ELSE "save"]
  /\ UNCHANGED <<file, desired, up>>

\* The swap under the write lock.  desired[c] is from now on the snapshot
\* that the blocking thread will write.
SwapChanged(c) ==
  /\ phase[c] = "swap"
  /\ inner # desired[c]
  /\ inner' = desired[c]
  /\ outcome' = [outcome EXCEPT ![c] = Changed(inner.status, desired[c].status)]
  /\ phase' = [phase EXCEPT ![c] = "save"]
  /\ UNCHANGED <<file, desired, up>>

\* lock_db creates the file on the first save, before anything is committed.
CreateDb(c) ==
  /\ phase[c] = "save"
  /\ ~file.exists
  /\ file' = [file EXCEPT !.exists = TRUE]
  /\ UNCHANGED <<inner, phase, desired, outcome, up>>

\* Mutant of SaveCommit: the save is not awaited to its end, so a write that was
\* given up as failed may still reach the file.
SaveCommitLate(c) ==
  /\ phase[c] \in {"save", "ret"}
  /\ file.exists
  /\ file' = [file EXCEPT !.value = ToPersisted(desired[c])]
  /\ phase' = [phase EXCEPT ![c] = "ret"]
  /\ UNCHANGED <<inner, desired, outcome, up>>

\* Mutant of SaveCommit: the fields are written in two transactions.
SaveCommitInTwo(c) ==
  /\ phase[c] = "save"
  /\ file.exists
  /\ LET new == ToPersisted(desired[c])
     IN \/ /\ file' = [file EXCEPT !.value = [Load(file) EXCEPT !.armed = new.armed]]
           /\ UNCHANGED phase
        \/ /\ file' = [file EXCEPT !.value = new]
           /\ phase' = [phase EXCEPT ![c] = "ret"]
  /\ UNCHANGED <<inner, desired, outcome, up>>

\* The redb write transaction commits (atomic and durable).
SaveCommit(c) ==
  /\ phase[c] = "save"
  /\ file.exists
  /\ file' = [file EXCEPT !.value = ToPersisted(desired[c])]
  /\ phase' = [phase EXCEPT ![c] = "ret"]
  /\ UNCHANGED <<inner, desired, outcome, up>>

\* The save fails or its thread panics: a warning, no rollback, no retry.
SaveFail(c) ==
  /\ phase[c] = "save"
  /\ phase' = [phase EXCEPT ![c] = "ret"]
  /\ UNCHANGED <<inner, file, desired, outcome, up>>

\* The caller receives the Transition.
ReturnTransition(c) ==
  /\ phase[c] = "ret"
  /\ phase' = [phase EXCEPT ![c] = "out"]
  /\ desired' = [desired EXCEPT ![c] = None]
  /\ outcome' = [outcome EXCEPT ![c] = None]
  /\ UNCHANGED <<inner, file, up>>

\* The process dies (crash, SIGKILL, watchdog, power loss): only the file stays.
DaemonCrash ==
  /\ up
  /\ up' = FALSE
  /\ inner' = Disarmed
  /\ phase' = [c \in Clients |-> "out"]
  /\ desired' = [c \in Clients |-> None]
  /\ outcome' = [c \in Clients |-> None]
  /\ UNCHANGED file

\* The supervisor starts a new process; new_persistent loads the file.
DaemonRestart ==
  /\ ~up
  /\ up' = TRUE
  /\ inner' = Recovered
  /\ UNCHANGED <<file, phase, desired, outcome>>

----
DaemonTypeOK ==
  /\ inner \in States
  /\ file \in [exists : BOOLEAN, value : PersistedStates \cup {None}]
  /\ phase \in [Clients -> Phases]
  /\ desired \in [Clients -> States \cup {None}]
  /\ outcome \in [Clients -> Outcomes]
  /\ up \in BOOLEAN
====
