---- MODULE Recovery_proofs ----
(***************************************************************************)
(* Proofs about Recovery for any sounds, delay and clock range, and any    *)
(* number of crashes, failed starts and corrections of the clock.          *)
(***************************************************************************)
EXTENDS Recovery, TLAPS

\* While a call is inside transition_to nothing is promised or reported, and an
\* alarm it asks for has a fire time.
CallOpen ==
  \A c \in Clients :
    phase[c] # "out" =>
      /\ up /\ promise = None /\ ~missed
      /\ desired[c] \in States
      /\ IsArmed(desired[c]) => desired[c].next_fire \in Fires

\* After its swap the daemon is in the state the call asked for: nobody else
\* could have changed it.
Swapped ==
  \A c \in Clients : phase[c] \in {"save", "ret"} => inner = desired[c]

\* durable is true to its name.
DurableIsLoaded == (up /\ durable) => Recovered = inner

\* What the running call asked for is on the list.
CallAsked == \A c \in Clients : phase[c] # "out" => desired[c] \in asked

\* What makes the reports inductive: a restart recovers what was promised,
\* however often the process dies.
PromiseIsLoaded ==
  promise # None =>
    /\ Recovered = promise
    /\ IsArmed(promise) => promise.next_fire \in Fires

\* MissedIsReported, for a process that is starting too.
Accounted ==
  (up /\ promise # None /\ IsArmed(promise)) =>
    Pending(promise) \/ missed \/ promise.next_fire > started

ServesWhenUp == serving => up

IInv ==
  /\ TypeOK
  /\ CallOpen /\ Swapped /\ DurableIsLoaded /\ PromiseIsLoaded
  /\ CallAsked /\ RestartIsFaithful
  /\ Accounted /\ NoPhantomReport /\ ServesWhenUp

----
(* Values *)

\* State::disarmed() and State::armed() are States.
LEMMA StateTypes ==
  /\ Disarmed \in States /\ ~IsArmed(Disarmed)
  /\ \A s \in Sounds, f \in Fires :
       /\ Armed(s, f) \in States
       /\ Armed(s, f).next_fire = f
BY DEF Disarmed, Armed, States, AlarmStatus, IsArmed

\* What new_persistent makes of the file is a State, and it is armed exactly when
\* the stored value is.
LEMMA RecoveredType ==
  ASSUME DaemonTypeOK
  PROVE  /\ Recovered \in States
         /\ IsArmed(Recovered) <=> Load(file).armed
         /\ Recovered.next_fire = Load(file).next_fire
BY NoneAssumption
   DEF DaemonTypeOK, Recovered, FromPersisted, Load, States, PersistedStates,
       AlarmStatus, IsArmed

\* What is saved is what new_persistent gets back.
LEMMA SaveRecovers ==
  ASSUME NEW s \in States
  PROVE  ToPersisted(s) \in PersistedStates /\ FromPersisted(ToPersisted(s)) = s
BY DEF ToPersisted, FromPersisted, States, PersistedStates, IsArmed, AlarmStatus

\* Only the value in the file matters to a restart.
LEMMA RecoveredSame ==
  ASSUME file'.value = file.value
  PROVE  Recovered' = Recovered
BY DEF Recovered, Load

\* The clock never runs past its bound, so a sum below it is a fire time.
LEMMA FireTimes ==
  /\ None \notin Fires
  /\ \A f \in Fires : f \in Nat /\ f \in 0..MaxTime
  /\ \A n \in Nat : n <= MaxTime => n \in Fires
BY RecoveryAssumption, NoneAssumption

----
(* The initial state *)

\* A new installation satisfies the invariant.
LEMMA InitInv == Init => IInv
<1> SUFFICES ASSUME Init PROVE IInv
  OBVIOUS
<1>1. TypeOK
  <2>1. DaemonTypeOK
    BY StateTypes DEF Init, DaemonInit, DaemonTypeOK, Phases, Outcomes
  <2>2. {now, started} \subseteq 0..MaxTime /\ {crashes, adjusts} \subseteq Nat
    BY RecoveryAssumption DEF Init
  <2>3. {serving, missed, durable} \subseteq BOOLEAN
    BY Zenon DEF Init
  <2> QED
    BY <2>1, <2>2, <2>3, StateTypes DEF Init, TypeOK
<1>2. Recovered = Disarmed
  BY DEF Init, DaemonInit, Recovered, Load, FromPersisted, Disarmed
<1> QED
  BY <1>1, <1>2, StateTypes
  DEF Init, DaemonInit, IInv, CallOpen, Swapped, DurableIsLoaded, PromiseIsLoaded,
      Accounted, NoPhantomReport, ServesWhenUp, CallAsked, RestartIsFaithful

----
(* Calls *)

\* A call that comes in is open: its promise is yet to be made.
LEMMA CallInv ==
  ASSUME IInv, NEW c \in Clients, NEW s \in States,
         IsArmed(s) => s.next_fire \in Fires,
         Call(c, s)
  PROVE  IInv'
<1> USE DEF IInv
<1>c. Clients = {c}
  BY RecoveryAssumption
<1>0. /\ UNCHANGED <<inner, file, outcome, up, now, serving, started, durable, crashes, adjusts>>
      /\ trigger' = None /\ promise' = None /\ missed' = FALSE
      /\ up /\ phase'[c] = "swap" /\ desired'[c] = s /\ asked' = asked \cup {s}
  BY DEF Call, CallTransition, TypeOK, DaemonTypeOK
<1>1. DaemonTypeOK'
  BY DEF Call, CallTransition, TypeOK, DaemonTypeOK, Phases
<1>2. TypeOK'
  BY <1>0, <1>1 DEF TypeOK
<1>3. CallOpen' /\ Swapped' /\ CallAsked'
  BY <1>0, <1>c DEF CallOpen, Swapped, CallAsked
<1>4. Recovered' = Recovered
  BY <1>0, RecoveredSame
<1> QED
  BY <1>0, <1>2, <1>3, <1>4, StateTypes, NoneAssumption
  DEF RestartIsFaithful, DurableIsLoaded, PromiseIsLoaded, Accounted, NoPhantomReport, ServesWhenUp, Disarmed

\* The swap changes the daemon's state, and what it then is has yet to be saved.
LEMMA SwapInv ==
  ASSUME IInv, NEW c \in Clients, Swap(c)
  PROVE  IInv'
<1> USE DEF IInv
<1>c. Clients = {c}
  BY RecoveryAssumption
<1>0. /\ UNCHANGED <<file, desired, up, now, serving, trigger, missed, started, promise,
                     asked, crashes, adjusts>>
      /\ phase[c] = "swap" /\ phase'[c] \in {"save", "ret"}
      /\ inner' = desired[c]
      /\ durable' = (durable /\ inner' = inner)
  BY DEF Swap, SwapNoChange, SwapChanged, TypeOK, DaemonTypeOK
<1>1. up /\ promise = None /\ desired[c] \in States
  BY <1>0 DEF CallOpen
<1>2. DaemonTypeOK'
  <2>1. CASE SwapNoChange(c)
    BY <2>1 DEF SwapNoChange, TypeOK, DaemonTypeOK, Phases, Outcomes
  <2>2. CASE SwapChanged(c)
    <3>1. Changed(inner.status, desired[c].status) \in Outcomes
      BY <1>1 DEF TypeOK, DaemonTypeOK, Changed, Outcomes, States
    <3> QED
      BY <2>2, <1>1, <3>1 DEF SwapChanged, TypeOK, DaemonTypeOK, Phases
  <2> QED
    BY <2>1, <2>2 DEF Swap
<1>3. durable' \in BOOLEAN
  BY <1>0, Zenon
<1>4. TypeOK'
  BY <1>0, <1>2, <1>3 DEF TypeOK
<1>5. CallOpen' /\ Swapped' /\ CallAsked'
  BY <1>0, <1>c DEF CallOpen, Swapped, CallAsked
<1>6. Recovered' = Recovered
  BY <1>0, RecoveredSame
<1>7. DurableIsLoaded' /\ RestartIsFaithful'
  BY <1>0, <1>6 DEF DurableIsLoaded, RestartIsFaithful
<1> QED
  BY <1>0, <1>1, <1>4, <1>5, <1>6, <1>7
  DEF PromiseIsLoaded, Accounted, NoPhantomReport, ServesWhenUp, Pending

\* Creating the file loses nothing, a commit stores the daemon's state, a failure
\* is remembered.
LEMMA SaveInv ==
  ASSUME IInv, NEW c \in Clients, Save(c)
  PROVE  IInv'
<1> USE DEF IInv
<1>c. Clients = {c}
  BY RecoveryAssumption
<1>0. /\ UNCHANGED <<inner, desired, outcome, up, now, serving, trigger, missed, started,
                     promise, asked, crashes, adjusts>>
      /\ phase[c] = "save" /\ phase'[c] \in {"save", "ret"}
  BY DEF Save, CreateDb, SaveCommit, SaveFail, TypeOK, DaemonTypeOK
<1>1. /\ up /\ promise = None /\ ~missed /\ desired[c] \in States
      /\ inner = desired[c]
  BY <1>0 DEF CallOpen, Swapped
<1>2. ToPersisted(desired[c]) \in PersistedStates /\ FromPersisted(ToPersisted(desired[c])) = inner
  BY <1>1, SaveRecovers
<1>3. DaemonTypeOK'
  <2>1. file' \in [exists : BOOLEAN, value : PersistedStates \cup {None}]
    <3>1. file \in [exists : BOOLEAN, value : PersistedStates \cup {None}]
      BY DEF TypeOK, DaemonTypeOK
    <3>2. CASE CreateDb(c)
      BY <3>1, <3>2 DEF CreateDb
    <3>3. CASE SaveCommit(c)
      BY <1>2, <3>1, <3>3 DEF SaveCommit
    <3>4. CASE SaveFail(c)
      BY <3>1, <3>4 DEF SaveFail
    <3> QED
      BY <3>2, <3>3, <3>4 DEF Save
  <2>2. phase' \in [Clients -> Phases]
    BY DEF Save, CreateDb, SaveCommit, SaveFail, TypeOK, DaemonTypeOK, Phases
  <2> QED
    BY <1>0, <2>1, <2>2 DEF TypeOK, DaemonTypeOK
<1>4. durable' \in BOOLEAN
  BY Zenon DEF Save, TypeOK
<1>5. TypeOK'
  BY <1>0, <1>3, <1>4 DEF TypeOK
<1>6. CallOpen' /\ Swapped' /\ CallAsked'
  BY <1>0, <1>c DEF CallOpen, Swapped, CallAsked
<1>7. DurableIsLoaded' /\ RestartIsFaithful'
  <2>1. CASE CreateDb(c) /\ UNCHANGED durable
    <3>1. file'.value = file.value
      BY <2>1 DEF CreateDb, TypeOK, DaemonTypeOK
    <3> QED
      BY <1>0, <2>1, <3>1, RecoveredSame DEF DurableIsLoaded, RestartIsFaithful
  <2>2. CASE SaveCommit(c) /\ durable' = TRUE
    <3>1. file'.value = ToPersisted(desired[c])
      BY <2>2 DEF SaveCommit, TypeOK, DaemonTypeOK
    <3>2. file'.value # None
      BY <1>2, <3>1, ValueAssumption
    <3>3. Recovered' = inner
      BY <1>2, <3>1, <3>2 DEF Recovered, Load
    <3>4. inner \in asked
      BY <1>0, <1>1 DEF CallAsked
    <3> QED
      BY <1>0, <3>3, <3>4 DEF DurableIsLoaded, RestartIsFaithful
  <2>3. CASE SaveFail(c) /\ durable' = FALSE
    <3>1. file'.value = file.value
      BY <2>3 DEF SaveFail
    <3> QED
      BY <1>0, <2>3, <3>1, RecoveredSame DEF DurableIsLoaded, RestartIsFaithful
  <2> QED
    BY <2>1, <2>2, <2>3 DEF Save
<1> QED
  BY <1>0, <1>1, <1>5, <1>6, <1>7
  DEF PromiseIsLoaded, Accounted, NoPhantomReport, ServesWhenUp

\* The call returns: what it promises is in the file, and an alarm has its
\* trigger.
LEMMA ReturnInv ==
  ASSUME IInv, NEW c \in Clients, Return(c)
  PROVE  IInv'
<1> USE DEF IInv
<1>c. Clients = {c}
  BY RecoveryAssumption
<1>0. /\ UNCHANGED <<inner, file, up, now, serving, missed, started, durable, crashes, adjusts>>
      /\ phase[c] = "ret" /\ phase'[c] = "out"
      /\ promise' = IF durable THEN inner ELSE None
      /\ asked' = IF durable THEN {inner} ELSE asked
  BY DEF Return, ReturnTransition, TypeOK, DaemonTypeOK
<1>1. /\ up /\ ~missed /\ desired[c] \in States /\ inner = desired[c]
      /\ IsArmed(inner) => inner.next_fire \in Fires
  BY <1>0 DEF CallOpen, Swapped
<1>2. DaemonTypeOK'
  BY DEF Return, ReturnTransition, TypeOK, DaemonTypeOK, Phases, Outcomes
<1>3. /\ trigger' \in Triggers \cup {None}
      /\ IsArmed(inner) => trigger' # None /\ trigger'.fire = inner.next_fire
  <2>1. CASE IsArmed(inner)
    <3>1. [st |-> "sleeping", fire |-> inner.next_fire, sleep |-> Delay] \in Triggers
      BY <1>1, <2>1, RecoveryAssumption DEF Triggers
    <3> QED
      BY <1>1, <2>1, <3>1, AbsentAssumption DEF Return
  <2>2. CASE ~IsArmed(inner)
    BY <1>1, <2>2 DEF Return
  <2> QED
    BY <2>1, <2>2
<1>4. TypeOK'
  BY <1>0, <1>1, <1>2, <1>3 DEF TypeOK
<1>5. CallOpen' /\ Swapped' /\ CallAsked'
  BY <1>0, <1>c DEF CallOpen, Swapped, CallAsked
<1>6. Recovered' = Recovered
  BY <1>0, RecoveredSame
<1>7. DurableIsLoaded' /\ PromiseIsLoaded' /\ RestartIsFaithful'
  BY <1>0, <1>1, <1>6 DEF DurableIsLoaded, PromiseIsLoaded, RestartIsFaithful
<1>8. Accounted'
  BY <1>0, <1>3 DEF Accounted, Pending
<1> QED
  BY <1>0, <1>1, <1>4, <1>5, <1>7, <1>8 DEF NoPhantomReport, ServesWhenUp

----
(* The trigger, the process, the clocks *)

\* The steps that leave the daemon and its file alone.
LEMMA QuietInv ==
  ASSUME IInv, TypeOK', UNCHANGED <<daemonVars, missed, started, durable, asked>>,
         serving' => up,
         promise' = promise \/ promise' = None,
         (promise' # None /\ trigger # None) => trigger' # None /\ trigger'.fire = trigger.fire
  PROVE  IInv'
<1> USE DEF IInv
<1>1. Recovered' = Recovered
  BY RecoveredSame DEF daemonVars
<1>2. CallOpen' /\ Swapped' /\ CallAsked'
  BY DEF CallOpen, Swapped, CallAsked, daemonVars
<1>3. DurableIsLoaded' /\ PromiseIsLoaded' /\ RestartIsFaithful'
  BY <1>1 DEF DurableIsLoaded, PromiseIsLoaded, RestartIsFaithful, daemonVars
<1>4. Accounted'
  BY DEF Accounted, Pending, daemonVars
<1> QED
  BY <1>2, <1>3, <1>4, StateTypes, AbsentAssumption
  DEF NoPhantomReport, ServesWhenUp, daemonVars

\* The trigger wakes and plays, the process comes to serve, the clocks move.
LEMMA EnvInv ==
  ASSUME IInv, Wake \/ Fire \/ Serve \/ Tick \/ Adjust
  PROVE  IInv'
<1> USE DEF IInv
<1>t. trigger # None => trigger \in Triggers
  BY DEF TypeOK
<1>1. CASE Wake
  <2>1. [trigger EXCEPT !.st = "woken"] \in Triggers /\ trigger'.fire = trigger.fire
    BY <1>1, <1>t DEF Wake, Triggers
  <2>2. TypeOK' /\ trigger' # None
    BY <1>1, <2>1, AbsentAssumption DEF Wake, TypeOK, DaemonTypeOK, daemonVars
  <2> QED
    BY <1>1, <2>1, <2>2, QuietInv DEF Wake, ServesWhenUp
<1>2. CASE Fire
  <2>1. TypeOK'
    BY <1>2 DEF Fire, TypeOK, DaemonTypeOK, daemonVars
  <2> QED
    BY <1>2, <2>1, QuietInv DEF Fire, ServesWhenUp
<1>3. CASE Serve
  <2>1. TypeOK'
    BY <1>3 DEF Serve, TypeOK, DaemonTypeOK, daemonVars
  <2> QED
    BY <1>3, <2>1, QuietInv DEF Serve
<1>4. CASE Tick
  <2>1. trigger' = trigger \/ (trigger' \in Triggers /\ trigger'.fire = trigger.fire)
    BY <1>4, <1>t, RecoveryAssumption DEF Tick, Triggers
  <2>2. now' \in 0..MaxTime
    BY <1>4, RecoveryAssumption DEF Tick, TypeOK
  <2>3. TypeOK'
    BY <1>4, <2>1, <2>2 DEF Tick, TypeOK, DaemonTypeOK, daemonVars
  <2> QED
    BY <1>4, <2>1, <2>3, AbsentAssumption, QuietInv DEF Tick, ServesWhenUp
<1>5. CASE Adjust
  <2>1. TypeOK'
    BY <1>5 DEF Adjust, TypeOK, DaemonTypeOK, daemonVars
  <2> QED
    BY <1>5, <2>1, QuietInv DEF Adjust, ServesWhenUp
<1> QED
  BY <1>1, <1>2, <1>3, <1>4, <1>5

\* A death leaves the file and the promise.
LEMMA CrashInv ==
  ASSUME IInv, Crash
  PROVE  IInv'
<1> USE DEF IInv
<1>0. /\ up' = FALSE /\ serving' = FALSE /\ missed' = FALSE /\ trigger' = None
      /\ phase' = [c \in Clients |-> "out"]
      /\ UNCHANGED <<file, now, started, durable, promise, asked, adjusts>>
      /\ crashes' = crashes + 1
  BY DEF Crash, Die, DaemonCrash
<1>1. DaemonTypeOK'
  BY StateTypes DEF Crash, Die, DaemonCrash, TypeOK, DaemonTypeOK, Phases, Outcomes
<1>2. TypeOK'
  <2>1. {now', started'} \subseteq 0..MaxTime /\ {crashes', adjusts'} \subseteq Nat
    BY <1>0 DEF TypeOK
  <2>2. {serving', missed', durable'} \subseteq BOOLEAN
    BY <1>0, Zenon DEF TypeOK
  <2> QED
    BY <1>0, <1>1, <2>1, <2>2 DEF TypeOK
<1>3. Recovered' = Recovered
  BY <1>0, RecoveredSame
<1> QED
  BY <1>0, <1>2, <1>3
  DEF CallOpen, Swapped, DurableIsLoaded, PromiseIsLoaded, Accounted, NoPhantomReport,
      ServesWhenUp, CallAsked, RestartIsFaithful

\* A start loads what was promised, and reports it unless its time is to come.
LEMMA StartInv ==
  ASSUME IInv, Start
  PROVE  IInv'
<1> USE DEF IInv
<1>0. /\ ~up /\ up' /\ inner' = Recovered /\ durable' = TRUE
      /\ missed' = EvaluateRecovery(Load(file), now) /\ started' = now /\ asked' = {Recovered}
      /\ UNCHANGED <<file, phase, desired, outcome, now, serving, trigger, promise, crashes,
                     adjusts>>
  BY DEF Start, DaemonRestart
<1>1. /\ Recovered \in States
      /\ IsArmed(Recovered) <=> Load(file).armed
      /\ Recovered.next_fire = Load(file).next_fire
  BY RecoveredType DEF TypeOK
<1>2. DaemonTypeOK'
  BY <1>0, <1>1 DEF TypeOK, DaemonTypeOK, Start, DaemonRestart
<1>3. missed' \in BOOLEAN
  <2>1. Load(file) \in PersistedStates
    BY NoneAssumption DEF TypeOK, DaemonTypeOK, Load, PersistedStates
  <2>2. Load(file).armed \in BOOLEAN
    BY <2>1 DEF PersistedStates
  <2> QED
    BY <1>0, <2>2, Zenon DEF EvaluateRecovery
<1>4. TypeOK'
  BY <1>0, <1>1, <1>2, <1>3 DEF TypeOK
<1>5. Recovered' = Recovered
  BY <1>0, RecoveredSame
<1>6. /\ CallOpen' /\ Swapped' /\ DurableIsLoaded' /\ PromiseIsLoaded' /\ ServesWhenUp'
      /\ CallAsked' /\ RestartIsFaithful'
  BY <1>0, <1>5
  DEF CallOpen, Swapped, DurableIsLoaded, PromiseIsLoaded, ServesWhenUp, CallAsked,
      RestartIsFaithful
<1>7. Accounted'
  <2>1. ASSUME promise # None, IsArmed(promise)
        PROVE  missed' \/ promise.next_fire > now
    <3>1. Load(file).armed /\ Load(file).next_fire = promise.next_fire /\ promise.next_fire \in Fires
      BY <1>1, <2>1 DEF PromiseIsLoaded
    <3>2. promise.next_fire # None /\ promise.next_fire \in Nat /\ now \in Nat
      BY <3>1, FireTimes, RecoveryAssumption DEF TypeOK
    <3>3. CASE promise.next_fire <= now
      BY <1>0, <3>1, <3>2, <3>3, Zenon DEF EvaluateRecovery
    <3> QED
      BY <3>2, <3>3
  <2> QED
    BY <1>0, <2>1 DEF Accounted
<1>8. NoPhantomReport'
  <2>1. ASSUME promise = Disarmed, promise # None PROVE ~Load(file).armed
    BY <1>1, <2>1, StateTypes DEF PromiseIsLoaded
  <2>2. Disarmed # None
    BY StateTypes, AbsentAssumption
  <2> QED
    BY <1>0, <2>1, <2>2 DEF NoPhantomReport, EvaluateRecovery
<1> QED
  BY <1>4, <1>6, <1>7, <1>8

----
(* The theorems *)

\* Every step keeps the invariant.
LEMMA NextInv == IInv /\ [Next]_vars => IInv'
<1> SUFFICES ASSUME IInv, [Next]_vars PROVE IInv'
  OBVIOUS
<1>1. ASSUME NEW c \in Clients, NEW s \in Sounds, Arm(c, s) PROVE IInv'
  <2>1. now + Delay \in Fires
    BY <1>1, FireTimes, RecoveryAssumption DEF Arm, IInv, TypeOK
  <2> QED
    BY <1>1, <2>1, StateTypes, CallInv DEF Arm
<1>2. ASSUME NEW c \in Clients, Disarm(c) PROVE IInv'
  BY <1>2, StateTypes, CallInv DEF Disarm
<1>3. CASE UNCHANGED vars
  <2>1. TypeOK'
    BY <1>3 DEF IInv, TypeOK, DaemonTypeOK, vars, daemonVars, recoveryVars
  <2> QED
    BY <1>3, <2>1, QuietInv DEF vars, recoveryVars, IInv, ServesWhenUp
<1> QED
  BY <1>1, <1>2, <1>3, SwapInv, SaveInv, ReturnInv, EnvInv, CrashInv, StartInv
  DEF Next, ClientStep

\* Every reachable state is well typed.
THEOREM TypeCorrect == Spec => []TypeOK
<1>1. IInv => TypeOK
  BY DEF IInv
<1> QED
  BY <1>1, InitInv, NextInv, PTL DEF Spec

\* What a restart would load is always the last saved state or one that a call has
\* asked for since: for any number of crashes, failed saves and failed starts.
THEOREM RestartLoadsWhatWasAsked == Spec => []RestartIsFaithful
<1>1. IInv => RestartIsFaithful
  BY DEF IInv
<1> QED
  BY <1>1, InitInv, NextInv, PTL DEF Spec

\* A process that started at or after the time of an alarm that a call promised
\* and saved, and that was not played, has reported it.
THEOREM LateStartReports == Spec => []MissedIsReported
<1>1. IInv => MissedIsReported
  BY DEF IInv, Accounted, ServesWhenUp, MissedIsReported
<1> QED
  BY <1>1, InitInv, NextInv, PTL DEF Spec

\* After a Disarm that returned and was saved no start ever reports an alarm.
THEOREM DisarmedIsNotReported == Spec => []NoPhantomReport
<1>1. IInv => NoPhantomReport
  BY DEF IInv
<1> QED
  BY <1>1, InitInv, NextInv, PTL DEF Spec
====
