---- MODULE Control_proofs ----
(***************************************************************************)
(* Proofs about Control for any set of clients, tasks, sounds and fire     *)
(* times, any backlog and any number of crashes. The second part is about  *)
(* one client.                                                             *)
(***************************************************************************)
EXTENDS Control, TLAPS

\* Handler steps at which the call still has to spawn its trigger, if it has one.
BeforeSpawn == {"cancel", "stop", "stopping", "transition", "spawn"}

\* A caller is inside transition_to exactly while its handler awaits it, and
\* asks for the state of its own call.
InTransition ==
  \A c \in Clients :
    phase[c] # "out" => call[c].pc = "transition" /\ desired[c] = Wanted(c)

\* The trigger of a call is set aside for it until it is spawned; only calls
\* that spawn one have one.
OwnsReserved ==
  \A c \in Clients :
    /\ (call[c].pc \in BeforeSpawn /\ call[c].task # None) =>
         task[call[c].task].st = "reserved" /\ ~task[call[c].task].cancelled
    /\ call[c].pc \in {"spawn", "store"} => call[c].task # None

\* No two calls have set the same trigger aside.
OwnsAlone ==
  \A c, d \in Clients :
    (/\ c # d
     /\ call[c].pc \in BeforeSpawn /\ call[d].pc \in BeforeSpawn
     /\ call[c].task # None) => call[c].task # call[d].task

\* c has cancelled what was pending and has not yet swapped the state.
BeforeSwap(c) ==
  \/ call[c].pc \in {"stop", "stopping"}
  \/ call[c].pc = "transition" /\ phase[c] = "swap"

\* c has put the daemon in the state it wanted and will spawn the trigger for it.
AfterSwap(c) ==
  /\ \/ call[c].pc = "spawn"
     \/ call[c].pc = "transition" /\ phase[c] \in {"save", "ret"}
  /\ Wanted(c) = inner

\* What makes ArmedIsCovered inductive: an Armed state without its trigger is on
\* its way to be replaced (some call has cancelled and will swap) or to get one
\* (the call that set it will spawn).
Cover ==
  (up /\ IsArmed(inner) /\ ~restored) =>
    \/ \E c \in Clients : BeforeSwap(c)
    \/ \E c \in Clients : AfterSwap(c)
    \/ \E t \in Tasks : Covers(t, inner)

Links == InTransition /\ OwnsReserved /\ OwnsAlone

IInv == TypeOK /\ Links /\ Cover

----
(* The player's variables *)

\* send_and_wait queues a Command.
LEMMA SendType ==
  ASSUME AudioTypeOK, NEW u \in Callers, NEW p \in Tasks \cup {None}, Send(u, p)
  PROVE  AudioTypeOK'
BY DEF AudioTypeOK, Send, Commands

\* Giving up an ack leaves a channel of Commands.
LEMMA AckTimeoutType ==
  ASSUME AudioTypeOK, NEW u \in Callers, AckTimeout(u)
  PROVE  AudioTypeOK'
<1>1. ASSUME NEW i \in DOMAIN cmds
      PROVE  (IF cmds[i].ack = u THEN [cmds[i] EXCEPT !.ack = None] ELSE cmds[i])
               \in Commands
  <2>1. cmds[i] \in Commands
    BY <1>1 DEF AudioTypeOK
  <2> QED
    BY <2>1 DEF Commands
<1>2. PICK n \in Nat : DOMAIN cmds = 1 .. n
  BY DEF AudioTypeOK
<1>3. cmds' \in [1 .. n -> Commands]
  BY <1>1, <1>2 DEF AckTimeout
<1>4. cmds' \in Seq(Commands)
  BY <1>3
<1> QED
  BY <1>4 DEF AudioTypeOK, AckTimeout

\* The worker and the end of a sound keep the types of the player.
LEMMA WorkerType ==
  ASSUME AudioTypeOK, Worker \/ Finish
  PROVE  AudioTypeOK'
<1>1. ASSUME Receive
      PROVE  cmds' \in Seq(Commands) /\ Head(cmds) \in Commands /\ waiting' \subseteq Callers
  BY <1>1 DEF AudioTypeOK, Receive
<1>2. CASE Finish
  BY <1>2 DEF AudioTypeOK, Finish
<1>3. CASE ExecStop
  BY <1>1, <1>3 DEF AudioTypeOK, ExecStop
<1>4. CASE ExecPlay
  BY <1>1, <1>4 DEF AudioTypeOK, ExecPlay, Commands
<1>5. CASE RefusePlay
  BY <1>1, <1>5 DEF AudioTypeOK, RefusePlay
<1> QED
  BY <1>2, <1>3, <1>4, <1>5 DEF Worker

----
(* Shapes of the values the handlers build *)

\* State::disarmed() and State::armed() are States, and only the second is armed.
LEMMA StateTypes ==
  /\ Disarmed \in States /\ ~IsArmed(Disarmed)
  /\ \A s \in Sounds \cup {None}, f \in Fires \cup {None} :
       Armed(s, f) \in States /\ IsArmed(Armed(s, f))
BY DEF Disarmed, Armed, States, AlarmStatus, IsArmed

\* What new_persistent makes of the file is a State.
LEMMA RecoveredType == DaemonTypeOK => Recovered \in States
BY NoneAssumption
   DEF DaemonTypeOK, Recovered, FromPersisted, Load, States, PersistedStates,
       AlarmStatus

\* The records that stand for a new, an emitting and an answered call.
LEMMA CallTypes ==
  /\ NoCall \in Calls /\ NoCall.pc = "idle" /\ NoCall.task = None
  /\ \A r \in Results :
       Answer(r) \in Calls /\ Answer(r).pc = "reply" /\ Answer(r).task = None
  /\ \A e \in AlarmStatus \cup {None} :
       /\ AfterWork(e) \in Calls
       /\ AfterWork(e).pc \in {"emit", "reply"}
       /\ AfterWork(e).task = None
BY DEF NoCall, Answer, AfterWork, Calls, PCs, Results, AlarmStatus

\* What a handler asks transition_to for is a State.
LEMMA WantedType ==
  ASSUME TypeOK, NEW c \in Clients
  PROVE  Wanted(c) \in States
<1>1. call[c].task \in Tasks \cup {None}
  BY DEF TypeOK, Calls
<1>2. CASE call[c].task = None
  BY <1>2, StateTypes DEF Wanted
<1>3. CASE call[c].task \in Tasks /\ call[c].task # None
  <2>1. task[call[c].task] \in TaskRecords
    BY <1>3 DEF TypeOK
  <2> QED
    BY <1>3, <2>1, StateTypes DEF Wanted, TaskRecords
<1> QED
  BY <1>1, <1>2, <1>3

\* abort() keeps the sound and the fire time of a task, and its type.
LEMMA AbortType ==
  ASSUME NEW r \in TaskRecords
  PROVE  /\ Abort(r) \in TaskRecords
         /\ r.st = "reserved" => Abort(r) = r
         /\ Abort(r).sound = r.sound /\ Abort(r).fire = r.fire
BY DEF Abort, TaskRecords, TaskStates

----
(* Type correctness *)

\* The initial state has its type.
LEMMA InitType == Init => TypeOK
<1> SUFFICES ASSUME Init PROVE TypeOK
  OBVIOUS
<1>1. DaemonTypeOK
  BY StateTypes DEF Init, DaemonInit, DaemonTypeOK, Phases, Outcomes
<1>2. AudioTypeOK
  BY DEF Init, AudioInit, AudioTypeOK
<1>3. Unborn \in TaskRecords
  BY DEF Unborn, TaskRecords, TaskStates
<1> QED
  BY <1>1, <1>2, <1>3, CallTypes DEF Init, TypeOK, AlarmStatus

\* The steps that start a call or turn it down.
LEMMA EntryType ==
  ASSUME TypeOK, NEW c \in Clients, Entry(c)
  PROVE  TypeOK'
<1>1. ASSUME NEW op \in {"Arm", "Snooze"}, NEW s \in Sounds \cup {None}, Schedule(c, op, s)
      PROVE  TypeOK'
  <2>1. PICK t \in Tasks, f \in Fires :
          /\ task' = [task EXCEPT ![t] = [st |-> "reserved", sound |-> s,
                                          fire |-> f, cancelled |-> FALSE]]
          /\ call' = [call EXCEPT ![c] = [NoCall EXCEPT !.pc = "cancel", !.op = op,
                                                        !.task = t]]
    BY <1>1 DEF Schedule
  <2>2. [st |-> "reserved", sound |-> s, fire |-> f, cancelled |-> FALSE] \in TaskRecords
    BY DEF TaskRecords, TaskStates
  <2>3. [NoCall EXCEPT !.pc = "cancel", !.op = op, !.task = t] \in Calls
    BY CallTypes DEF Calls, PCs
  <2>4. task' \in [Tasks -> TaskRecords] /\ call' \in [Clients -> Calls]
    BY <2>1, <2>2, <2>3 DEF TypeOK
  <2> QED
    BY <1>1, <2>4 DEF Schedule, TypeOK, DaemonTypeOK, AudioTypeOK, daemonVars, audioVars
<1>2. ASSUME NEW r \in Results, Reject(c, r) PROVE TypeOK'
  <2>1. call' \in [Clients -> Calls]
    BY <1>2, CallTypes DEF Reject, TypeOK
  <2> QED
    BY <1>2, <2>1 DEF Reject, TypeOK, DaemonTypeOK, AudioTypeOK, daemonVars, audioVars
<1>3. CASE Disarm(c) \/ Dismiss(c)
  <2>1. [NoCall EXCEPT !.pc = "cancel", !.op = "Disarm"] \in Calls
    BY CallTypes DEF Calls, PCs
  <2>2. call' \in [Clients -> Calls]
    BY <1>3, <2>1 DEF Disarm, Dismiss, TypeOK
  <2> QED
    BY <1>3, <2>2 DEF Disarm, Dismiss, TypeOK, DaemonTypeOK, AudioTypeOK,
                      daemonVars, audioVars
<1>4. CASE Arm(c)
  BY <1>1, <1>4 DEF Arm
<1>5. CASE Snooze(c)
  <2>1. inner.sound \in Sounds \cup {None}
    BY DEF TypeOK, DaemonTypeOK, States
  <2> QED
    BY <1>1, <1>5, <2>1 DEF Snooze
<1>6. CASE ArmUnresolved(c) \/ SnoozeInvalid(c) \/ SnoozeUnset(c)
  BY <1>2, <1>6 DEF ArmUnresolved, SnoozeInvalid, SnoozeUnset, Results
<1> QED
  BY <1>3, <1>4, <1>5, <1>6 DEF Entry

\* Goto leaves a call a call.
LEMMA GotoType ==
  ASSUME TypeOK, NEW c \in Clients, NEW l \in PCs, Goto(c, l)
  PROVE  call' \in [Clients -> Calls]
<1>1. [call[c] EXCEPT !.pc = l] \in Calls
  BY DEF TypeOK, Calls
<1> QED
  BY <1>1 DEF TypeOK, Goto

\* SetTask leaves a task record a task record.
LEMMA SetTaskType ==
  ASSUME TypeOK, NEW t \in Tasks, NEW st \in TaskStates, SetTask(t, st)
  PROVE  task' \in [Tasks -> TaskRecords]
<1>1. [task[t] EXCEPT !.st = st] \in TaskRecords
  BY DEF TypeOK, TaskRecords
<1> QED
  BY <1>1 DEF TypeOK, SetTask

\* The steps of a handler, those inside transition_to included.
LEMMA HandlerType ==
  ASSUME TypeOK, Links, NEW c \in Clients, Handler(c)
  PROVE  TypeOK'
<1> USE DEF PCs
<1>w. Wanted(c) \in States
  BY WantedType
<1>d. phase[c] # "out" => desired[c] \in States
  BY <1>w DEF Links, InTransition
<1>1. CASE Cancel(c)
  <2>1. task' \in [Tasks -> TaskRecords]
    BY <1>1, AbortType DEF Cancel, TypeOK
  <2>2. call' \in [Clients -> Calls]
    BY <1>1, GotoType DEF Cancel
  <2> QED
    BY <1>1, <2>1, <2>2 DEF Cancel, TypeOK, DaemonTypeOK, AudioTypeOK, daemonVars, audioVars
<1>2. CASE StopSend(c)
  <2>1. AudioTypeOK'
    BY <1>2, SendType, ControlAssumption DEF StopSend, Stop, TypeOK
  <2>2. call' \in [Clients -> Calls]
    BY <1>2, GotoType DEF StopSend
  <2> QED
    BY <1>2, <2>1, <2>2 DEF StopSend, TypeOK, DaemonTypeOK, daemonVars
<1>3. CASE StopReturn(c)
  <2>1. call' \in [Clients -> Calls]
    BY <1>3, GotoType DEF StopReturn
  <2>2. DaemonTypeOK'
    BY <1>3, <1>w DEF StopReturn, CallTransition, TypeOK, DaemonTypeOK, Phases
  <2> QED
    BY <1>3, <2>1, <2>2 DEF StopReturn, TypeOK, AudioTypeOK, audioVars
<1>4. CASE Swap(c)
  <2>1. CASE SwapNoChange(c)
    BY <2>1 , <1>4 DEF Swap, SwapNoChange, TypeOK, DaemonTypeOK, AudioTypeOK, Phases,
                       Outcomes, audioVars
  <2>2. CASE SwapChanged(c)
    <3>1. Changed(inner.status, desired[c].status) \in Outcomes
      BY <2>2, <1>d DEF SwapChanged, TypeOK, DaemonTypeOK, Changed, Outcomes, States
    <3>2. DaemonTypeOK'
      BY <2>2, <3>1, <1>d DEF SwapChanged, TypeOK, DaemonTypeOK, Phases
    <3> QED
      BY <1>4, <3>2 DEF Swap, TypeOK, AudioTypeOK, audioVars
  <2> QED
    BY <1>4, <2>1, <2>2 DEF Swap
<1>5. CASE Save(c)
  <2>1. phase[c] = "save" => ToPersisted(desired[c]) \in PersistedStates
    BY <1>d DEF ToPersisted, IsArmed, States, PersistedStates
  <2>2. DaemonTypeOK'
    <3>1. file \in [exists : BOOLEAN, value : PersistedStates \cup {None}]
      BY DEF TypeOK, DaemonTypeOK
    <3>2. CASE CreateDb(c)
      BY <3>1, <3>2 DEF CreateDb, TypeOK, DaemonTypeOK
    <3>3. CASE SaveCommit(c)
      <4>1. file' \in [exists : BOOLEAN, value : PersistedStates \cup {None}]
        BY <2>1, <3>1, <3>3 DEF SaveCommit
      <4>2. phase' \in [Clients -> Phases]
        BY <3>3 DEF SaveCommit, TypeOK, DaemonTypeOK, Phases
      <4> QED
        BY <3>3, <4>1, <4>2 DEF SaveCommit, TypeOK, DaemonTypeOK
    <3>4. CASE SaveFail(c)
      <4>1. phase' \in [Clients -> Phases]
        BY <3>4 DEF SaveFail, TypeOK, DaemonTypeOK, Phases
      <4> QED
        BY <3>4, <4>1 DEF SaveFail, TypeOK, DaemonTypeOK
    <3> QED
      BY <1>5, <3>2, <3>3, <3>4 DEF Save
  <2> QED
    BY <1>5, <2>2 DEF Save, TypeOK, AudioTypeOK, audioVars, controlVars
<1>6. CASE TransitionReturn(c)
  <2>1. DaemonTypeOK'
    BY <1>6 DEF TransitionReturn, ReturnTransition, TypeOK, DaemonTypeOK, Phases, Outcomes
  <2>2. Signal(c) \in AlarmStatus \cup {None}
    <3>1. outcome[c] \in Outcomes
      BY DEF TypeOK, DaemonTypeOK
    <3> QED
      BY <3>1 DEF Signal, Outcomes
  <2>3. [call[c] EXCEPT !.pc = "spawn", !.emit = Signal(c)] \in Calls
    BY <2>2 DEF TypeOK, Calls
  <2>4. call' \in [Clients -> Calls]
    BY <1>6, <2>2, <2>3, CallTypes DEF TransitionReturn, TypeOK
  <2> QED
    BY <1>6, <2>1, <2>4 DEF TransitionReturn, TypeOK, AudioTypeOK, audioVars
<1>7. CASE Spawn(c)
  <2>1. call[c].task \in Tasks
    BY <1>7 DEF Spawn, Links, OwnsReserved, TypeOK, Calls
  <2>2. task' \in [Tasks -> TaskRecords]
    BY <1>7, <2>1, SetTaskType DEF Spawn, TaskStates
  <2>3. call' \in [Clients -> Calls]
    BY <1>7, GotoType DEF Spawn
  <2> QED
    BY <1>7, <2>2, <2>3 DEF Spawn, TypeOK, DaemonTypeOK, AudioTypeOK, daemonVars, audioVars
<1>8. CASE Store(c)
  <2>1. call[c] \in Calls
    BY DEF TypeOK
  <2>2. call' \in [Clients -> Calls]
    BY <1>8, <2>1, CallTypes DEF Store, TypeOK, Calls
  <2>3. trigger_task' \in Tasks \cup {None}
    BY <1>8, <2>1 DEF Store, Calls
  <2> QED
    BY <1>8, <2>2, <2>3 DEF Store, TypeOK, DaemonTypeOK, AudioTypeOK, daemonVars, audioVars
<1>9. CASE Emit(c)
  <2>1. call[c] \in Calls
    BY DEF TypeOK
  <2>2. call' \in [Clients -> Calls]
    BY <1>9, CallTypes DEF Emit, TypeOK, Results
  <2>3. view' \in AlarmStatus \cup {None}
    BY <1>9, <2>1 DEF Emit, Calls
  <2> QED
    BY <1>9, <2>2, <2>3 DEF Emit, TypeOK, DaemonTypeOK, AudioTypeOK, daemonVars, audioVars
<1>10. CASE Reply(c)
  <2>1. call' \in [Clients -> Calls]
    BY <1>10, CallTypes DEF Reply, TypeOK
  <2> QED
    BY <1>10, <2>1 DEF Reply, TypeOK, DaemonTypeOK, AudioTypeOK, daemonVars, audioVars
<1> QED
  BY <1>1, <1>2, <1>3, <1>4, <1>5, <1>6, <1>7, <1>8, <1>9, <1>10 DEF Handler

\* The steps of a trigger task keep the types.
LEMMA TriggerType ==
  ASSUME TypeOK, NEW t \in Tasks, Trigger(t)
  PROVE  TypeOK'
<1>1. task' \in [Tasks -> TaskRecords]
  BY SetTaskType DEF Trigger, Wake, DecodeFail, PlaySend, PlayReturn, TaskStates
<1>2. AudioTypeOK'
  <2>1. CASE PlaySend(t)
    BY <2>1, SendType, ControlAssumption DEF PlaySend, Play, TypeOK
  <2>2. CASE Wake(t) \/ DecodeFail(t) \/ PlayReturn(t)
    BY <2>2 DEF Wake, DecodeFail, PlayReturn, TypeOK, AudioTypeOK, audioVars
  <2> QED
    BY <2>1, <2>2 DEF Trigger
<1>3. UNCHANGED <<daemonVars, call, trigger_task, view, restored, crashes>>
  BY DEF Trigger, Wake, DecodeFail, PlaySend, PlayReturn
<1> QED
  BY <1>1, <1>2, <1>3 DEF TypeOK, DaemonTypeOK, daemonVars

\* Every step keeps the types.
LEMMA NextType == TypeOK /\ Links /\ [Next]_vars => TypeOK'
<1> SUFFICES ASSUME TypeOK, Links, [Next]_vars PROVE TypeOK'
  OBVIOUS
<1>1. CASE Player
  <2>1. AudioTypeOK'
    BY <1>1, WorkerType, AckTimeoutType DEF Player, TypeOK
  <2> QED
    BY <1>1, <2>1 DEF Player, TypeOK, DaemonTypeOK, daemonVars, controlVars
<1>2. CASE Crash
  <2>1. DaemonTypeOK'
    BY <1>2, StateTypes DEF Crash, DaemonCrash, TypeOK, DaemonTypeOK, Phases, Outcomes
  <2>2. AudioTypeOK'
    BY <1>2 DEF Crash, AudioTypeOK
  <2>3. task' \in [Tasks -> TaskRecords]
    <3>1. ASSUME NEW t \in Tasks
          PROVE  Unborn \in TaskRecords /\ [task[t] EXCEPT !.st = "killed"] \in TaskRecords
      BY DEF TypeOK, Unborn, TaskRecords, TaskStates
    <3> QED
      BY <1>2, <3>1 DEF Crash
  <2>4. call' \in [Clients -> Calls] /\ crashes' \in Nat
    BY <1>2, CallTypes DEF Crash, TypeOK
  <2>5. restored' \in BOOLEAN
    BY <1>2 DEF Crash
  <2>6. trigger_task' \in Tasks \cup {None} /\ view' \in AlarmStatus \cup {None}
    BY <1>2 DEF Crash, TypeOK
  <2> QED
    BY <2>1, <2>2, <2>3, <2>4, <2>5, <2>6 DEF TypeOK
<1>3. CASE Restart
  <2>1. DaemonTypeOK' /\ view' \in AlarmStatus
    BY <1>3, RecoveredType DEF Restart, DaemonRestart, TypeOK, DaemonTypeOK, States
  <2> QED
    BY <1>3, <2>1 DEF Restart, TypeOK, AudioTypeOK, audioVars
<1>4. CASE UNCHANGED vars
  BY <1>4 DEF vars, daemonVars, audioVars, controlVars, TypeOK, DaemonTypeOK, AudioTypeOK
<1> QED
  BY <1>1, <1>2, <1>3, <1>4, EntryType, HandlerType, TriggerType DEF Next

----
(* Who owns which trigger *)

\* No call owns a trigger at the start.
LEMMA InitLinks == Init => Links
BY CallTypes
   DEF Init, DaemonInit, Links, InTransition, OwnsReserved, OwnsAlone, BeforeSpawn

\* A new call sets aside a trigger that nobody has, or none at all.
LEMMA EntryLinks ==
  ASSUME TypeOK, Links, NEW c \in Clients, Entry(c)
  PROVE  Links'
<1> USE DEF Links, InTransition, OwnsReserved, OwnsAlone, BeforeSpawn
<1>0. call[c].pc = "idle" /\ phase[c] = "out" /\ UNCHANGED <<phase, desired>>
  BY DEF Entry, Arm, ArmUnresolved, Snooze, SnoozeInvalid, SnoozeUnset, Disarm, Dismiss,
         Idle, Schedule, Reject, daemonVars
<1>1. ASSUME NEW op \in {"Arm", "Snooze"}, NEW s \in Sounds \cup {None}, Schedule(c, op, s)
      PROVE  Links'
  <2>1. PICK t \in Tasks, f \in Fires :
          /\ task[t].st = "unborn"
          /\ task' = [task EXCEPT ![t] = [st |-> "reserved", sound |-> s,
                                          fire |-> f, cancelled |-> FALSE]]
          /\ call' = [call EXCEPT ![c] = [NoCall EXCEPT !.pc = "cancel", !.op = op,
                                                        !.task = t]]
    BY <1>1 DEF Schedule
  <2>2. call'[c].pc = "cancel" /\ call'[c].task = t
    BY <2>1, CallTypes DEF TypeOK, NoCall
  <2>3. \A d \in Clients : d # c => call'[d] = call[d]
    BY <2>1 DEF TypeOK
  <2>4. task'[t].st = "reserved" /\ ~task'[t].cancelled
    BY <2>1 DEF TypeOK
  <2>5. \A u \in Tasks : u # t => task'[u] = task[u]
    BY <2>1 DEF TypeOK
  <2>6. \A d \in Clients : d # c /\ call[d].pc \in BeforeSpawn => call[d].task # t
    BY <2>1, AudioAssumption
  <2>7. \A d \in Clients : call[d].task \in Tasks \cup {None}
    BY DEF TypeOK, Calls
  <2>8. \A d \in Clients : d # c /\ call[d].pc \in BeforeSpawn => Wanted(d)' = Wanted(d)
    BY <2>3, <2>5, <2>6, <2>7 DEF Wanted
  <2>9. InTransition'
    BY <1>0, <2>3, <2>8
  <2>10. OwnsReserved'
    BY <2>2, <2>3, <2>4, <2>5, <2>6, <2>7
  <2>11. OwnsAlone'
    BY <2>2, <2>3, <2>6
  <2> QED
    BY <2>9, <2>10, <2>11
<1>2. ASSUME NEW k \in Calls, k.task = None, k.pc \notin {"spawn", "store"},
             call' = [call EXCEPT ![c] = k], UNCHANGED task
      PROVE  Links'
  <2>1. call'[c] = k /\ \A d \in Clients : d # c => call'[d] = call[d]
    BY <1>2 DEF TypeOK
  <2>2. \A d \in Clients : d # c => Wanted(d)' = Wanted(d)
    BY <1>2, <2>1 DEF Wanted
  <2> QED
    BY <1>0, <1>2, <2>1, <2>2
<1>3. CASE Disarm(c) \/ Dismiss(c)
  <2> DEFINE k == [NoCall EXCEPT !.pc = "cancel", !.op = "Disarm"]
  <2>1. k \in Calls /\ k.task = None /\ k.pc = "cancel"
    BY CallTypes DEF NoCall, Calls, PCs
  <2> QED
    BY <1>2, <1>3, <2>1 DEF Disarm, Dismiss
<1>4. CASE Arm(c)
  BY <1>1, <1>4 DEF Arm
<1>5. CASE Snooze(c)
  <2>1. inner.sound \in Sounds \cup {None}
    BY DEF TypeOK, DaemonTypeOK, States
  <2> QED
    BY <1>1, <1>5, <2>1 DEF Snooze
<1>6. CASE ArmUnresolved(c) \/ SnoozeInvalid(c) \/ SnoozeUnset(c)
  <2>1. PICK r \in Results : Reject(c, r)
    BY <1>6 DEF ArmUnresolved, SnoozeInvalid, SnoozeUnset, Results
  <2> QED
    BY <1>2, <2>1, CallTypes DEF Reject
<1> QED
  BY <1>3, <1>4, <1>5, <1>6 DEF Entry

\* The other steps never touch a trigger that is set aside, but for the Spawn of
\* its owner, and never its sound or fire time.
LEMMA HandlerLinks ==
  ASSUME TypeOK, Links, NEW c \in Clients, Handler(c)
  PROVE  Links'
<1> USE DEF Links, InTransition, OwnsReserved, OwnsAlone, BeforeSpawn
<1>t. \A d \in Clients : call[d] \in Calls /\ call[d].task \in Tasks \cup {None}
  BY DEF TypeOK, Calls
<1>1. ASSUME NEW l \in PCs, Goto(c, l), UNCHANGED task, call[c].pc \in BeforeSpawn,
             l \in BeforeSpawn, l # "spawn",
             \A d \in Clients : d # c => phase'[d] = phase[d] /\ desired'[d] = desired[d],
             \/ phase'[c] = "out"
             \/ l = "transition" /\ desired'[c] = Wanted(c)
      PROVE  Links'
  <2>1. call'[c].pc = l /\ call'[c].task = call[c].task
        /\ \A d \in Clients : d # c => call'[d] = call[d]
    BY <1>1, <1>t DEF Goto, TypeOK, Calls
  <2>2. \A d \in Clients : Wanted(d)' = Wanted(d)
    BY <1>1, <2>1 DEF Wanted
  <2> QED
    BY <1>1, <2>1, <2>2
<1>2. CASE Cancel(c)
  <2>1. \A t \in Tasks : /\ task[t].st = "reserved" => task'[t] = task[t]
                         /\ task'[t].sound = task[t].sound /\ task'[t].fire = task[t].fire
    BY <1>2, AbortType DEF Cancel, TypeOK
  <2>2. call'[c].pc = "stop" /\ call'[c].task = call[c].task
        /\ \A d \in Clients : d # c => call'[d] = call[d]
    BY <1>2, <1>t DEF Cancel, Goto, TypeOK, Calls
  <2>3. \A d \in Clients : Wanted(d)' = Wanted(d)
    BY <2>1, <2>2, <1>t DEF Wanted
  <2>4. UNCHANGED <<phase, desired>> /\ call[c].pc = "cancel"
    BY <1>2 DEF Cancel, daemonVars
  <2>5. InTransition'
    BY <2>2, <2>3, <2>4
  <2>6. OwnsReserved' /\ OwnsAlone'
    BY <2>1, <2>2, <2>4, <1>t
  <2> QED
    BY <2>5, <2>6
<1>3. CASE StopSend(c)
  BY <1>1, <1>3 DEF StopSend, daemonVars, PCs
<1>4. CASE StopReturn(c)
  <2>1. /\ \A d \in Clients : d # c => phase'[d] = phase[d] /\ desired'[d] = desired[d]
        /\ desired'[c] = Wanted(c)
    BY <1>4 DEF StopReturn, CallTransition, TypeOK, DaemonTypeOK
  <2> QED
    BY <1>1, <1>4, <2>1 DEF StopReturn, PCs
<1>5. CASE Swap(c) \/ Save(c)
  <2>1. UNCHANGED <<call, task, desired>> /\ \A d \in Clients : phase'[d] # "out" => phase[d] # "out"
    BY <1>5 DEF Swap, Save, SwapNoChange, SwapChanged, CreateDb, SaveCommit, SaveFail,
                controlVars, TypeOK, DaemonTypeOK
  <2>2. \A d \in Clients : Wanted(d)' = Wanted(d)
    BY <2>1 DEF Wanted
  <2> QED
    BY <2>1, <2>2
<1>6. CASE TransitionReturn(c)
  <2>1. /\ \A d \in Clients : d # c => /\ phase'[d] = phase[d]
                                       /\ desired'[d] = desired[d]
                                       /\ call'[d] = call[d]
        /\ phase'[c] = "out" /\ UNCHANGED task /\ call[c].pc = "transition"
    BY <1>6 DEF TransitionReturn, ReturnTransition, TypeOK, DaemonTypeOK
  <2>2. \/ call'[c].pc = "spawn" /\ call'[c].task = call[c].task /\ call[c].task # None
        \/ call'[c].pc \in {"emit", "reply"} /\ call'[c].task = None
    <3>1. Signal(c) \in AlarmStatus \cup {None}
      <4>1. outcome[c] \in Outcomes
        BY DEF TypeOK, DaemonTypeOK
      <4> QED
        BY <4>1 DEF Signal, Outcomes
    <3>2. CASE call[c].task = None
      BY <1>6, <3>1, <3>2, CallTypes DEF TransitionReturn, TypeOK
    <3>3. CASE call[c].task # None
      BY <1>6, <3>3, <1>t DEF TransitionReturn, TypeOK, Calls
    <3> QED
      BY <3>2, <3>3
  <2>3. \A d \in Clients : d # c => Wanted(d)' = Wanted(d)
    BY <2>1 DEF Wanted
  <2>4. InTransition'
    BY <2>1, <2>3
  <2>5. OwnsReserved' /\ OwnsAlone'
    BY <2>1, <2>2
  <2> QED
    BY <2>4, <2>5
<1>7. CASE Spawn(c)
  <2> DEFINE t == call[c].task
  <2>1. t \in Tasks /\ call[c].pc = "spawn"
    BY <1>7, <1>t DEF Spawn
  <2>2. \A u \in Tasks : /\ u # t => task'[u] = task[u]
                         /\ task'[u].sound = task[u].sound /\ task'[u].fire = task[u].fire
    BY <1>7, <2>1 DEF Spawn, SetTask, TypeOK, TaskRecords
  <2>3. call'[c].pc = "store" /\ call'[c].task = t
        /\ \A d \in Clients : d # c => call'[d] = call[d]
    BY <1>7, <1>t DEF Spawn, Goto, TypeOK, Calls
  <2>4. \A d \in Clients : Wanted(d)' = Wanted(d)
    BY <2>2, <2>3, <1>t DEF Wanted
  <2>5. UNCHANGED <<phase, desired>>
    BY <1>7 DEF Spawn, daemonVars
  <2>6. \A d \in Clients : d # c /\ call[d].pc \in BeforeSpawn => call[d].task # t
    BY <2>1, AudioAssumption
  <2>7. InTransition'
    BY <2>1, <2>3, <2>4, <2>5
  <2>8. OwnsReserved' /\ OwnsAlone'
    BY <2>1, <2>2, <2>3, <2>6, <1>t
  <2> QED
    BY <2>7, <2>8
<1>8. CASE Store(c) \/ Emit(c) \/ Reply(c)
  <2>1. UNCHANGED <<task, phase, desired>>
    BY <1>8 DEF Store, Emit, Reply, daemonVars
  <2>2. /\ \A d \in Clients : d # c => call'[d] = call[d]
        /\ call[c].pc \in {"store", "emit", "reply"}
    BY <1>8 DEF Store, Emit, Reply, TypeOK
  <2>3. call'[c].pc \in {"idle", "emit", "reply"}
    <3>1. call[c].emit \in AlarmStatus \cup {None}
      BY <1>t DEF Calls
    <3> QED
      BY <1>8, <3>1, CallTypes DEF Store, Emit, Reply, TypeOK, Results
  <2>4. \A d \in Clients : d # c => Wanted(d)' = Wanted(d)
    BY <2>1, <2>2 DEF Wanted
  <2> QED
    BY <2>1, <2>2, <2>3, <2>4
<1> QED
  BY <1>2, <1>3, <1>4, <1>5, <1>6, <1>7, <1>8 DEF Handler

\* A trigger task only ever changes its own state, and it is past being set aside.
LEMMA TriggerFrame ==
  ASSUME TypeOK, NEW t \in Tasks, Trigger(t)
  PROVE  /\ UNCHANGED <<daemonVars, call, trigger_task, view, restored, crashes>>
         /\ task[t].st \in {"sleeping", "decoding", "playing"}
         /\ task'[t].st \in {"decoding", "playing", "finished"}
         /\ \A u \in Tasks : /\ u # t => task'[u] = task[u]
                             /\ task'[u].sound = task[u].sound
                             /\ task'[u].fire = task[u].fire
                             /\ task'[u].cancelled = task[u].cancelled
<1>1. UNCHANGED <<daemonVars, call, trigger_task, view, restored, crashes>>
  BY DEF Trigger, Wake, DecodeFail, PlaySend, PlayReturn
<1>2. PICK st \in {"decoding", "playing", "finished"} : SetTask(t, st)
  BY DEF Trigger, Wake, DecodeFail, PlaySend, PlayReturn
<1>3. task[t].st \in {"sleeping", "decoding", "playing"}
  BY DEF Trigger, Wake, DecodeFail, PlaySend, PlayReturn
<1> QED
  BY <1>1, <1>2, <1>3 DEF SetTask, TypeOK, TaskRecords

\* Every step keeps the ownership of triggers and the tie between a handler
\* and its transition_to.
LEMMA NextLinks == TypeOK /\ Links /\ [Next]_vars => Links'
<1> SUFFICES ASSUME TypeOK, Links, [Next]_vars PROVE Links'
  OBVIOUS
<1> USE DEF Links, InTransition, OwnsReserved, OwnsAlone, BeforeSpawn
<1>t. \A d \in Clients : call[d].task \in Tasks \cup {None}
  BY DEF TypeOK, Calls
<1>1. ASSUME NEW t \in Tasks, Trigger(t) PROVE Links'
  <2>1. /\ UNCHANGED <<phase, desired, call>>
        /\ \A u \in Tasks : task[u].st = "reserved" => task'[u] = task[u]
        /\ \A u \in Tasks : task'[u].sound = task[u].sound /\ task'[u].fire = task[u].fire
    BY <1>1, TriggerFrame DEF daemonVars
  <2>2. \A d \in Clients : Wanted(d)' = Wanted(d)
    BY <2>1, <1>t DEF Wanted
  <2> QED
    BY <2>1, <2>2, <1>t
<1>2. CASE Crash
  BY <1>2, CallTypes DEF Crash, DaemonCrash
<1>3. CASE Player \/ Restart \/ UNCHANGED vars
  <2>1. UNCHANGED <<phase, desired, call, task>>
    BY <1>3 DEF Player, Restart, DaemonRestart, vars, daemonVars, controlVars
  <2>2. \A d \in Clients : Wanted(d)' = Wanted(d)
    BY <2>1 DEF Wanted
  <2> QED
    BY <2>1, <2>2
<1> QED
  BY <1>1, <1>2, <1>3, EntryLinks, HandlerLinks DEF Next

----
(* No lost alarm *)

\* Cover at work: what is needed of a step that leaves the state alone.
LEMMA CoverKept ==
  ASSUME Cover, UNCHANGED <<inner, up, restored>>,
         \A c \in Clients : BeforeSwap(c) => BeforeSwap(c)',
         \A c \in Clients : AfterSwap(c) /\ IsArmed(inner) =>
                              AfterSwap(c)' \/ \E t \in Tasks : Covers(t, inner)',
         \A t \in Tasks : Covers(t, inner) => Covers(t, inner)'
  PROVE  Cover'
BY DEF Cover, IsArmed

\* A call that starts or is turned down uncovers no armed state.
LEMMA EntryCover ==
  ASSUME TypeOK, Links, Cover, NEW c \in Clients, Entry(c)
  PROVE  Cover'
<1>0. call[c].pc = "idle" /\ UNCHANGED daemonVars /\ UNCHANGED restored
  BY DEF Entry, Arm, ArmUnresolved, Snooze, SnoozeInvalid, SnoozeUnset, Disarm, Dismiss,
         Idle, Schedule, Reject
<1>1. /\ \A d \in Clients : d # c => call'[d] = call[d]
      /\ \A t \in Tasks : task[t].st # "unborn" => task'[t] = task[t]
  BY DEF Entry, Arm, ArmUnresolved, Snooze, SnoozeInvalid, SnoozeUnset, Disarm, Dismiss,
         Schedule, Reject, TypeOK
<1>2. \A d \in Clients : d # c /\ call[d].pc \in BeforeSpawn => Wanted(d)' = Wanted(d)
  BY <1>1 DEF Wanted, Links, OwnsReserved, TypeOK, Calls
<1>3. \A d \in Clients : BeforeSwap(d) => BeforeSwap(d)'
  BY <1>0, <1>1 DEF BeforeSwap, daemonVars
<1>4. \A d \in Clients : AfterSwap(d) => AfterSwap(d)'
  BY <1>0, <1>1, <1>2 DEF AfterSwap, BeforeSpawn, daemonVars
<1>5. \A t \in Tasks : Covers(t, inner) => Covers(t, inner)'
  BY <1>0, <1>1 DEF Covers, daemonVars
<1> QED
  BY <1>0, <1>3, <1>4, <1>5, CoverKept DEF daemonVars

\* No step of a handler uncovers an armed state: a cancel is followed by a swap
\* of its own call, and a swap by the spawn of the trigger it announced.
LEMMA HandlerCover ==
  ASSUME TypeOK, Links, Links', Cover, NEW c \in Clients, Handler(c)
  PROVE  Cover'
<1>t. \A d \in Clients : call[d] \in Calls /\ call[d].task \in Tasks \cup {None}
  BY DEF TypeOK, Calls
<1>1. CASE Cancel(c)
  <2>1. BeforeSwap(c)'
    BY <1>1, <1>t DEF Cancel, Goto, BeforeSwap, TypeOK, Calls
  <2> QED
    BY <2>1 DEF Cover
<1>2. CASE StopSend(c) \/ StopReturn(c)
  <2>1. BeforeSwap(c)'
    BY <1>2, <1>t DEF StopSend, StopReturn, CallTransition, Goto, BeforeSwap, TypeOK,
                      DaemonTypeOK, Calls
  <2> QED
    BY <2>1 DEF Cover
<1>3. CASE Swap(c)
  <2>1. UNCHANGED <<call, task>> /\ phase[c] = "swap" /\ call[c].pc = "transition"
        /\ desired[c] = Wanted(c)
    BY <1>3 DEF Swap, SwapNoChange, SwapChanged, Links, InTransition
  <2>2. inner' = desired[c] /\ phase'[c] \in {"save", "ret"}
    BY <1>3 DEF Swap, SwapNoChange, SwapChanged, TypeOK, DaemonTypeOK
  <2>3. AfterSwap(c)'
    BY <2>1, <2>2 DEF AfterSwap, Wanted
  <2> QED
    BY <2>3 DEF Cover
<1>4. CASE Save(c)
  <2>1. UNCHANGED <<inner, up, restored, call, task>>
    BY <1>4 DEF Save, CreateDb, SaveCommit, SaveFail, controlVars
  <2>2. \A d \in Clients : /\ phase[d] = "swap" => phase'[d] = "swap"
                           /\ phase[d] \in {"save", "ret"} => phase'[d] \in {"save", "ret"}
    BY <1>4 DEF Save, CreateDb, SaveCommit, SaveFail, TypeOK, DaemonTypeOK
  <2>3. \A d \in Clients : Wanted(d)' = Wanted(d)
    BY <2>1 DEF Wanted
  <2>4. \A d \in Clients : BeforeSwap(d) => BeforeSwap(d)'
    BY <2>1, <2>2 DEF BeforeSwap
  <2>5. \A d \in Clients : AfterSwap(d) => AfterSwap(d)'
    BY <2>1, <2>2, <2>3 DEF AfterSwap
  <2>6. \A t \in Tasks : Covers(t, inner) => Covers(t, inner)'
    BY <2>1 DEF Covers
  <2> QED
    BY <2>1, <2>4, <2>5, <2>6, CoverKept
<1>5. CASE TransitionReturn(c)
  <2>1. /\ UNCHANGED <<inner, up, restored, task>>
        /\ phase[c] = "ret" /\ call[c].pc = "transition"
        /\ \A d \in Clients : d # c => phase'[d] = phase[d] /\ call'[d] = call[d]
    BY <1>5 DEF TransitionReturn, ReturnTransition, TypeOK, DaemonTypeOK
  <2>2. call[c].task # None => call'[c].pc = "spawn" /\ call'[c].task = call[c].task
    BY <1>5, <1>t DEF TransitionReturn, TypeOK, Calls
  <2>3. AfterSwap(c) /\ IsArmed(inner) => call[c].task # None
    BY StateTypes DEF AfterSwap, Wanted
  <2>4. \A d \in Clients : BeforeSwap(d) => BeforeSwap(d)'
    BY <2>1 DEF BeforeSwap
  <2>5. \A d \in Clients : AfterSwap(d) /\ IsArmed(inner) => AfterSwap(d)'
    BY <2>1, <2>2, <2>3 DEF AfterSwap, Wanted
  <2>6. \A t \in Tasks : Covers(t, inner) => Covers(t, inner)'
    BY <2>1 DEF Covers
  <2> QED
    BY <2>1, <2>4, <2>5, <2>6, CoverKept
<1>6. CASE Spawn(c)
  <2>0. PICK own \in Tasks : own = call[c].task
    BY <1>6, <1>t DEF Spawn, Links, OwnsReserved
  <2>1. own = call[c].task /\ own # None /\ call[c].pc = "spawn"
        /\ task[own].st = "reserved" /\ ~task[own].cancelled
    BY <1>6, <2>0 DEF Spawn, Links, OwnsReserved, BeforeSpawn
  <2>2. UNCHANGED <<inner, up, restored, phase>>
    BY <1>6 DEF Spawn, daemonVars
  <2>3. /\ \A u \in Tasks : u # own => task'[u] = task[u]
        /\ \A u \in Tasks : task'[u].sound = task[u].sound /\ task'[u].fire = task[u].fire
        /\ task'[own].st = "sleeping" /\ ~task'[own].cancelled
    BY <1>6, <2>1 DEF Spawn, SetTask, TypeOK, TaskRecords
  <2>4. \A d \in Clients : d # c => call'[d] = call[d]
    BY <1>6 DEF Spawn, Goto, TypeOK
  <2>5. \A d \in Clients : d # c => Wanted(d)' = Wanted(d)
    BY <2>3, <2>4, <1>t DEF Wanted
  <2>6. \A d \in Clients : BeforeSwap(d) => BeforeSwap(d)'
    BY <2>1, <2>2, <2>4 DEF BeforeSwap
  <2>7. AfterSwap(c) => Covers(own, inner)'
    BY <2>1, <2>2, <2>3 DEF AfterSwap, Wanted, Covers, Armed
  <2>8. \A d \in Clients : d # c /\ AfterSwap(d) => AfterSwap(d)'
    BY <2>2, <2>4, <2>5 DEF AfterSwap
  <2>9. \A t \in Tasks : Covers(t, inner) => Covers(t, inner)'
    BY <2>1, <2>2, <2>3 DEF Covers
  <2> QED
    BY <2>1, <2>2, <2>6, <2>7, <2>8, <2>9, CoverKept
<1>7. CASE Store(c) \/ Emit(c) \/ Reply(c)
  <2>1. UNCHANGED <<inner, up, restored, task, phase>>
        /\ call[c].pc \in {"store", "emit", "reply"}
    BY <1>7 DEF Store, Emit, Reply, daemonVars
  <2>2. \A d \in Clients : d # c => call'[d] = call[d]
    BY <1>7 DEF Store, Emit, Reply, TypeOK
  <2>3. \A d \in Clients : BeforeSwap(d) => BeforeSwap(d)'
    BY <2>1, <2>2 DEF BeforeSwap
  <2>4. \A d \in Clients : AfterSwap(d) => AfterSwap(d)'
    BY <2>1, <2>2 DEF AfterSwap, Wanted
  <2>5. \A t \in Tasks : Covers(t, inner) => Covers(t, inner)'
    BY <2>1 DEF Covers
  <2> QED
    BY <2>1, <2>3, <2>4, <2>5, CoverKept
<1> QED
  BY <1>1, <1>2, <1>3, <1>4, <1>5, <1>6, <1>7 DEF Handler

\* No step uncovers an armed state.
LEMMA NextCover == TypeOK /\ Links /\ Links' /\ Cover /\ [Next]_vars => Cover'
<1> SUFFICES ASSUME TypeOK, Links, Links', Cover, [Next]_vars PROVE Cover'
  OBVIOUS
<1>1. ASSUME NEW t \in Tasks, Trigger(t) PROVE Cover'
  <2>1. UNCHANGED <<inner, up, restored, phase, call>>
    BY <1>1, TriggerFrame DEF daemonVars
  <2>2. /\ task[t].st \in {"sleeping", "decoding", "playing"}
        /\ task'[t].st \in {"decoding", "playing", "finished"}
        /\ \A u \in Tasks : /\ u # t => task'[u] = task[u]
                            /\ task'[u].sound = task[u].sound
                            /\ task'[u].fire = task[u].fire
                            /\ task'[u].cancelled = task[u].cancelled
    BY <1>1, TriggerFrame
  <2>3. \A d \in Clients : Wanted(d)' = Wanted(d)
    BY <2>1, <2>2 DEF Wanted, TypeOK, Calls
  <2>4. \A d \in Clients : BeforeSwap(d) => BeforeSwap(d)'
    BY <2>1 DEF BeforeSwap
  <2>5. \A d \in Clients : AfterSwap(d) => AfterSwap(d)'
    BY <2>1, <2>3 DEF AfterSwap
  <2>6. \A u \in Tasks : Covers(u, inner) => Covers(u, inner)'
    BY <2>1, <2>2 DEF Covers
  <2> QED
    BY <2>1, <2>4, <2>5, <2>6, CoverKept
<1>2. CASE Crash
  BY <1>2 DEF Crash, DaemonCrash, Cover
<1>3. CASE Restart
  BY <1>3 DEF Restart, Cover
<1>4. CASE Player \/ UNCHANGED vars
  <2>1. UNCHANGED <<inner, up, restored, phase, call, task>>
    BY <1>4 DEF Player, vars, daemonVars, controlVars
  <2>2. \A d \in Clients : /\ BeforeSwap(d) => BeforeSwap(d)'
                           /\ AfterSwap(d) => AfterSwap(d)'
    BY <2>1 DEF BeforeSwap, AfterSwap, Wanted
  <2>3. \A t \in Tasks : Covers(t, inner) => Covers(t, inner)'
    BY <2>1 DEF Covers
  <2> QED
    BY <2>1, <2>2, <2>3, CoverKept
<1> QED
  BY <1>1, <1>2, <1>3, <1>4, EntryCover, HandlerCover DEF Next

\* The initial state is disarmed.
LEMMA InitCover == Init => Cover
BY StateTypes DEF Init, DaemonInit, Cover

\* With all calls returned, Cover is ArmedIsCovered.
LEMMA CoverSuffices == Cover => ArmedIsCovered
BY DEF Cover, ArmedIsCovered, AllIdle, BeforeSwap, AfterSwap

\* Every reachable state is well typed.
THEOREM TypeCorrect == Spec => []TypeOK
<1>1. Init => TypeOK /\ Links
  BY InitType, InitLinks
<1>2. TypeOK /\ Links /\ [Next]_vars => (TypeOK /\ Links)'
  BY NextType, NextLinks
<1> QED
  BY <1>1, <1>2, PTL DEF Spec

\* Whatever calls overlap, whatever the player, the store and the process do:
\* when all calls have returned, an Armed state set by a call has its trigger,
\* and no cancel_pending has aborted it.
THEOREM NoLostAlarm == Spec => []ArmedIsCovered
<1>1. Init => IInv
  BY InitType, InitLinks, InitCover DEF IInv
<1>2. IInv /\ [Next]_vars => IInv'
  BY NextType, NextLinks, NextCover DEF IInv
<1>3. IInv => ArmedIsCovered
  BY CoverSuffices DEF IInv
<1> QED
  BY <1>1, <1>2, <1>3, PTL DEF Spec

----
(***************************************************************************)
(* A single client, which awaits the reply to one call before it makes the *)
(* next: what overlapping calls can break.                                 *)
(***************************************************************************)
(* The next cancel_pending reaches what is pending *)

\* Between the Cancel and the Store of its call no handle is stored.
HandleTaken ==
  \A c \in Clients :
    call[c].pc \in {"stop", "stopping", "transition", "spawn", "store"} =>
      trigger_task = None

Held == SleepingIsHeld /\ HandleTaken

\* No trigger sleeps at the start.
LEMMA InitHeld == Init => Held
BY CallTypes DEF Init, Held, SleepingIsHeld, HandleTaken, Unborn

\* With one client every step keeps sleeping triggers within reach of the next
\* cancel_pending.
LEMMA NextHeld ==
  ASSUME \A c, d \in Clients : c = d,
         TypeOK, Links, Held, [Next]_vars
  PROVE  Held'
<1> USE DEF Held, SleepingIsHeld, HandleTaken
<1>t. \A d \in Clients : call[d] \in Calls /\ call[d].task \in Tasks \cup {None}
  BY DEF TypeOK, Calls
<1>1. ASSUME NEW c \in Clients, Entry(c) PROVE Held'
  <2>1. call[c].pc = "idle" /\ call'[c].pc \in {"cancel", "reply"} /\ UNCHANGED trigger_task
    <3>1. \A r : call' = [call EXCEPT ![c] = r] => call'[c] = r
      BY DEF TypeOK
    <3>2. ASSUME NEW op, NEW s, Schedule(c, op, s)
          PROVE  call'[c].pc = "cancel" /\ UNCHANGED trigger_task
      <4>1. PICK t \in Tasks :
              call' = [call EXCEPT ![c] = [NoCall EXCEPT !.pc = "cancel", !.op = op, !.task = t]]
        BY <3>2 DEF Schedule
      <4>2. call'[c] = [NoCall EXCEPT !.pc = "cancel", !.op = op, !.task = t]
        BY <3>1, <4>1
      <4> QED
        BY <3>2, <4>2 DEF Schedule, NoCall
    <3>3. ASSUME NEW r \in Results, Reject(c, r)
          PROVE  call'[c].pc = "reply" /\ UNCHANGED trigger_task
      <4>1. call'[c] = Answer(r) /\ UNCHANGED trigger_task
        BY <3>1, <3>3, Zenon DEF Reject
      <4> QED
        BY <4>1 DEF Answer, NoCall
    <3>4. ASSUME Disarm(c)
          PROVE  call'[c].pc = "cancel" /\ UNCHANGED trigger_task
      <4>1. call'[c] = [NoCall EXCEPT !.pc = "cancel", !.op = "Disarm"] /\ UNCHANGED trigger_task
        BY <3>1, <3>4, Zenon DEF Disarm
      <4> QED
        BY <4>1 DEF NoCall
    <3>5. \/ \E op, s : Schedule(c, op, s)
          \/ \E r \in Results : Reject(c, r)
          \/ Disarm(c)
      BY <1>1 DEF Entry, Arm, ArmUnresolved, Snooze, SnoozeInvalid, SnoozeUnset, Dismiss, Results
    <3>6. call[c].pc = "idle"
      BY <1>1 DEF Entry, Arm, ArmUnresolved, Snooze, SnoozeInvalid, SnoozeUnset, Disarm,
                  Dismiss, Idle
    <3> QED
      BY <3>2, <3>3, <3>4, <3>5, <3>6
  <2>2. CASE UNCHANGED task
    BY <2>1, <2>2
  <2>3. ASSUME NEW op, NEW s, Schedule(c, op, s)
        PROVE  \A t \in Tasks : task'[t].st = "sleeping" => task[t].st = "sleeping"
    BY <2>3 DEF Schedule, TypeOK
  <2>4. UNCHANGED task \/ \E op, s : Schedule(c, op, s)
    BY <1>1 DEF Entry, Arm, ArmUnresolved, Snooze, SnoozeInvalid, SnoozeUnset, Disarm,
                Dismiss, Reject
  <2> QED
    BY <2>1, <2>2, <2>3, <2>4
<1>2. ASSUME NEW c \in Clients, Cancel(c) PROVE Held'
  <2>1. \A r \in TaskRecords : Abort(r).st # "sleeping"
    BY DEF Abort, TaskRecords
  <2>2. \A t \in Tasks : task[t] \in TaskRecords
    BY DEF TypeOK
  <2>3. \A t \in Tasks : task'[t].st = "sleeping" => task[t].st = "sleeping" /\ t # trigger_task
    BY <1>2, <2>1, <2>2 DEF Cancel
  <2> QED
    BY <1>2, <2>3, <1>t DEF Cancel, Goto, TypeOK, Calls
<1>3. ASSUME NEW c \in Clients, StopSend(c) \/ StopReturn(c) PROVE Held'
  <2>1. UNCHANGED <<trigger_task, task>> /\ call[c].pc \in {"stop", "stopping"}
    BY <1>3 DEF StopSend, StopReturn
  <2>2. \A t \in Tasks : task[t].st = "sleeping" => trigger_task = t
    BY <2>1
  <2> QED
    BY <2>1, <2>2
<1>4. ASSUME NEW c \in Clients, Swap(c) \/ Save(c) PROVE Held'
  BY <1>4 DEF Swap, Save, controlVars
<1>5. ASSUME NEW c \in Clients, TransitionReturn(c) PROVE Held'
  <2>1. UNCHANGED <<trigger_task, task>> /\ call[c].pc = "transition"
    BY <1>5 DEF TransitionReturn
  <2>2. \A t \in Tasks : task[t].st = "sleeping" => trigger_task = t
    BY <2>1
  <2> QED
    BY <2>1, <2>2
<1>6. ASSUME NEW c \in Clients, Spawn(c) PROVE Held'
  <2>1. UNCHANGED trigger_task /\ call[c].pc = "spawn" /\ trigger_task = None
    BY <1>6 DEF Spawn
  <2>2. call'[c].pc = "store" /\ call'[c].task = call[c].task
    BY <1>6, <1>t DEF Spawn, Goto, TypeOK, Calls
  <2>3. \A t \in Tasks : t # call[c].task => task'[t] = task[t]
    BY <1>6 DEF Spawn, SetTask, TypeOK
  <2>4. \A t \in Tasks : task[t].st # "sleeping"
    BY <2>1, AudioAssumption
  <2> QED
    BY <2>1, <2>2, <2>3, <2>4
<1>7. ASSUME NEW c \in Clients, Store(c) PROVE Held'
  <2>1. /\ UNCHANGED task /\ call[c].pc = "store" /\ trigger_task = None
        /\ trigger_task' = call[c].task
    BY <1>7 DEF Store
  <2>2. call'[c].pc \in {"emit", "reply"}
    BY <1>7, <1>t, CallTypes DEF Store, TypeOK, Calls
  <2>3. \A t \in Tasks : task[t].st = "sleeping" => t = call[c].task
    BY <2>1, AudioAssumption
  <2> QED
    BY <2>1, <2>2, <2>3
<1>8. ASSUME NEW c \in Clients, Emit(c) \/ Reply(c) PROVE Held'
  <2>1. UNCHANGED <<trigger_task, task>> /\ call[c].pc \in {"emit", "reply"}
    BY <1>8 DEF Emit, Reply
  <2>2. call'[c].pc \in {"idle", "reply"}
    BY <1>8, CallTypes DEF Emit, Reply, TypeOK, Results
  <2> QED
    BY <2>1, <2>2
<1>9. ASSUME NEW t \in Tasks, Trigger(t) PROVE Held'
  <2>1. /\ UNCHANGED <<call, trigger_task>>
        /\ \A u \in Tasks : task'[u].st = "sleeping" => task[u].st = "sleeping"
    BY <1>9, TriggerFrame
  <2> QED
    BY <2>1
<1>10. CASE Crash
  BY <1>10, CallTypes DEF Crash, TypeOK, Unborn, TaskRecords
<1>11. CASE Player \/ Restart \/ UNCHANGED vars
  BY <1>11 DEF Player, Restart, vars, controlVars
<1> QED
  BY <1>1, <1>2, <1>3, <1>4, <1>5, <1>6, <1>7, <1>8, <1>9, <1>10, <1>11
  DEF Next, Handler

\* A client that awaits each reply can always cancel: with one client every
\* sleeping trigger is held by trigger_task, or by the call about to store it.
THEOREM SoleClientHolds ==
  ASSUME \A c, d \in Clients : c = d
  PROVE  Spec => []SleepingIsHeld
<1>1. Init => TypeOK /\ Links /\ Held
  BY InitType, InitLinks, InitHeld
<1>2. TypeOK /\ Links /\ Held /\ [Next]_vars => (TypeOK /\ Links /\ Held)'
  BY NextType, NextLinks, NextHeld
<1>3. Held => SleepingIsHeld
  BY DEF Held
<1> QED
  BY <1>1, <1>2, <1>3, PTL DEF Spec

----
(* What holds between the steps of the only call *)

\* While the process is down nobody is served, and nothing is armed.
Down == ~up => AllIdle /\ ~IsArmed(inner)

\* The state stays the one the call has set, for as long as the call runs; a call
\* that spawns a trigger has armed the daemon.
SetByCall ==
  \A c \in Clients :
    /\ phase[c] \in {"save", "ret"} => inner = Wanted(c)
    /\ call[c].pc \in {"spawn", "store"} => IsArmed(inner)

\* A disarmed daemon has no sound to snooze, in memory or in the file.
NothingToSnooze ==
  /\ ~IsArmed(inner) => inner.sound = None
  /\ (file.value # None /\ ~file.value.armed) => file.value.sound = None

\* A Snooze runs from armed to armed.
SnoozeIsArmed ==
  \A c \in Clients :
    (call[c].op = "Snooze" /\ call[c].pc \in BeforeSpawn) =>
      IsArmed(inner) /\ call[c].task # None

Serial == Down /\ SetByCall /\ NothingToSnooze /\ SnoozeIsArmed

\* Only a call with a trigger asks for an armed state; the other has no sound.
LEMMA WantedShape ==
  ASSUME NEW c \in Clients
  PROVE  /\ call[c].task # None => IsArmed(Wanted(c))
         /\ call[c].task = None => Wanted(c) = Disarmed
         /\ ~IsArmed(Wanted(c)) => Wanted(c).sound = None
BY DEF Wanted, IsArmed, Armed, Disarmed

\* What the entry of a call does.
LEMMA EntryFrame ==
  ASSUME NEW c, Clients = {c}, TypeOK, Entry(c)
  PROVE  /\ up /\ call[c].pc = "idle"
         /\ UNCHANGED <<daemonVars, audioVars, trigger_task, view, restored, crashes>>
         /\ call'[c].pc \in {"cancel", "reply"}
         /\ (call'[c].op = "Snooze" /\ call'[c].pc = "cancel") =>
              inner.sound # None /\ call'[c].task # None
         /\ \A t \in Tasks : \/ task'[t] = task[t]
                             \/ task[t].st = "unborn" /\ task'[t].st = "reserved"
<1>0. c \in Clients /\ None \notin Tasks
  BY AudioAssumption
<1>1. up /\ call[c].pc = "idle"
  BY DEF Entry, Arm, ArmUnresolved, Snooze, SnoozeInvalid, SnoozeUnset, Disarm, Dismiss, Idle
<1>2. UNCHANGED <<daemonVars, audioVars, trigger_task, view, restored, crashes>>
  BY DEF Entry, Arm, ArmUnresolved, Snooze, SnoozeInvalid, SnoozeUnset, Disarm, Dismiss,
         Schedule, Reject
<1>3. ASSUME NEW op, NEW s, Schedule(c, op, s)
      PROVE  /\ call'[c].pc = "cancel" /\ call'[c].task # None
             /\ \A t \in Tasks : \/ task'[t] = task[t]
                                 \/ task[t].st = "unborn" /\ task'[t].st = "reserved"
  <2>1. PICK t \in Tasks, f \in Fires :
          /\ task[t].st = "unborn"
          /\ task' = [task EXCEPT ![t] = [st |-> "reserved", sound |-> s,
                                          fire |-> f, cancelled |-> FALSE]]
          /\ call' = [call EXCEPT ![c] = [NoCall EXCEPT !.pc = "cancel", !.op = op,
                                                        !.task = t]]
    BY <1>3 DEF Schedule
  <2>2. call'[c].pc = "cancel" /\ call'[c].task = t
    BY <1>0, <2>1 DEF TypeOK, NoCall
  <2>3. \A u \in Tasks : u # t => task'[u] = task[u]
    BY <2>1 DEF TypeOK
  <2>4. task'[t].st = "reserved"
    BY <2>1 DEF TypeOK
  <2> QED
    BY <1>0, <2>1, <2>2, <2>3, <2>4
<1>4. ASSUME NEW r \in Results, Reject(c, r)
      PROVE  call'[c].pc = "reply" /\ task' = task
  BY <1>0, <1>4, CallTypes DEF Reject, TypeOK
<1>5. CASE Disarm(c) \/ Dismiss(c)
  <2>1. call'[c].pc = "cancel" /\ call'[c].op = "Disarm" /\ task' = task
    BY <1>0, <1>5 DEF Disarm, Dismiss, TypeOK, NoCall
  <2> QED
    BY <1>1, <1>2, <2>1
<1>6. CASE Arm(c)
  <2>1. call'[c].pc = "cancel" /\ call'[c].op # "Snooze"
    BY <1>0, <1>6 DEF Arm, Schedule, TypeOK, NoCall
  <2> QED
    BY <1>1, <1>2, <1>3, <1>6, <2>1 DEF Arm
<1>7. CASE Snooze(c)
  BY <1>1, <1>2, <1>3, <1>7 DEF Snooze
<1>8. CASE ArmUnresolved(c) \/ SnoozeInvalid(c) \/ SnoozeUnset(c)
  BY <1>1, <1>2, <1>4, <1>8 DEF ArmUnresolved, SnoozeInvalid, SnoozeUnset, Results
<1> QED
  BY <1>5, <1>6, <1>7, <1>8 DEF Entry

\* The start is disarmed and without calls.
LEMMA InitSerial == Init => Serial
BY CallTypes
   DEF Init, DaemonInit, Serial, Down, SetByCall, NothingToSnooze, SnoozeIsArmed,
       Disarmed, IsArmed, BeforeSpawn

\* No call changes the state under another.
LEMMA NextSerial ==
  ASSUME NEW c, Clients = {c}, TypeOK, Links, Serial, [Next]_vars
  PROVE  Serial'
<1> USE DEF Serial, Down, SetByCall, NothingToSnooze, SnoozeIsArmed, AllIdle
<1>0. c \in Clients /\ call[c] \in Calls /\ inner \in States
  BY DEF TypeOK, DaemonTypeOK
<1>l. phase[c] # "out" => call[c].pc = "transition" /\ desired[c] = Wanted(c)
  BY <1>0 DEF Links, InTransition
<1>o. call[c].pc \in {"spawn", "store"} => call[c].task # None
  BY <1>0 DEF Links, OwnsReserved
<1>w. /\ call[c].task # None => IsArmed(Wanted(c))
      /\ ~IsArmed(Wanted(c)) => Wanted(c).sound = None
  BY <1>0, WantedShape
<1>1. CASE Entry(c)
  <2>1. /\ up /\ call[c].pc = "idle" /\ UNCHANGED daemonVars
        /\ call'[c].pc \in {"cancel", "reply"}
        /\ (call'[c].op = "Snooze" /\ call'[c].pc = "cancel") =>
              inner.sound # None /\ call'[c].task # None
    BY <1>1, EntryFrame
  <2> QED
    BY <2>1, <1>0, <1>l DEF BeforeSpawn, daemonVars
<1>2. CASE Cancel(c) \/ StopSend(c)
  <2>1. UNCHANGED daemonVars /\ call[c].pc \in {"cancel", "stop"}
    BY <1>2 DEF Cancel, StopSend
  <2>2. /\ call'[c].pc \in {"stop", "stopping"} /\ call'[c].op = call[c].op
        /\ call'[c].task = call[c].task
    BY <1>0, <1>2 DEF Cancel, StopSend, Goto, TypeOK, Calls
  <2> QED
    BY <2>1, <2>2, <1>0, <1>l DEF BeforeSpawn, daemonVars
<1>3. CASE StopReturn(c)
  <2>1. UNCHANGED <<inner, file, up>> /\ up /\ phase'[c] = "swap" /\ call[c].pc = "stopping"
    BY <1>0, <1>3 DEF StopReturn, CallTransition, TypeOK, DaemonTypeOK
  <2>2. /\ call'[c].pc = "transition" /\ call'[c].op = call[c].op
        /\ call'[c].task = call[c].task
    BY <1>0, <1>3 DEF StopReturn, Goto, TypeOK, Calls
  <2> QED
    BY <2>1, <2>2, <1>0 DEF BeforeSpawn
<1>4. CASE Swap(c)
  <2>1. /\ UNCHANGED <<call, task, file, up>> /\ phase[c] = "swap"
        /\ inner' = desired[c] /\ phase'[c] \in {"save", "ret"}
    BY <1>0, <1>4 DEF Swap, SwapNoChange, SwapChanged, TypeOK, DaemonTypeOK
  <2>2. inner' = Wanted(c) /\ Wanted(c)' = Wanted(c) /\ call[c].pc = "transition" /\ up
    BY <2>1, <1>0, <1>l DEF Wanted
  <2> QED
    BY <2>1, <2>2, <1>0, <1>w DEF BeforeSpawn
<1>5. CASE Save(c)
  <2>1. UNCHANGED <<inner, up, call, task>> /\ phase[c] = "save" /\ phase'[c] \in {"save", "ret"}
    BY <1>0, <1>5 DEF Save, CreateDb, SaveCommit, SaveFail, controlVars, TypeOK, DaemonTypeOK
  <2>2. Wanted(c)' = Wanted(c)
    BY <2>1 DEF Wanted
  <2>3. file'.value = file.value \/ file'.value = ToPersisted(Wanted(c))
    BY <1>0, <1>5, <1>l DEF Save, CreateDb, SaveCommit, SaveFail, TypeOK, DaemonTypeOK
  <2>4. ToPersisted(Wanted(c)).armed = IsArmed(Wanted(c))
        /\ ToPersisted(Wanted(c)).sound = Wanted(c).sound
    BY DEF ToPersisted
  <2>5. (file'.value # None /\ ~file'.value.armed) => file'.value.sound = None
    BY <1>w, <2>3, <2>4
  <2>6. Down' /\ SetByCall' /\ SnoozeIsArmed'
    BY <1>0, <2>1, <2>2
  <2> QED
    BY <2>1, <2>5, <2>6
<1>6. CASE TransitionReturn(c)
  <2>1. /\ UNCHANGED <<inner, file, up>> /\ phase[c] = "ret" /\ phase'[c] = "out"
        /\ call[c].pc = "transition"
    BY <1>0, <1>6 DEF TransitionReturn, ReturnTransition, TypeOK, DaemonTypeOK
  <2>2. CASE call[c].task = None
    <3>1. Signal(c) \in AlarmStatus \cup {None}
      BY <1>0 DEF Signal, TypeOK, DaemonTypeOK, Outcomes
    <3>2. call'[c].pc \in {"emit", "reply"}
      BY <1>0, <1>6, <2>2, <3>1, CallTypes DEF TransitionReturn, TypeOK
    <3> QED
      BY <1>0, <2>1, <3>2 DEF BeforeSpawn
  <2>3. CASE call[c].task # None
    <3>1. /\ call'[c].pc = "spawn" /\ call'[c].op = call[c].op
          /\ call'[c].task = call[c].task
      BY <1>0, <1>6, <2>3 DEF TransitionReturn, TypeOK, Calls
    <3>2. IsArmed(inner)
      BY <1>0, <1>w, <2>1, <2>3
    <3> QED
      BY <1>0, <2>1, <2>3, <3>1, <3>2 DEF IsArmed
  <2> QED
    BY <2>2, <2>3
<1>7. CASE Spawn(c) \/ Store(c) \/ Emit(c) \/ Reply(c)
  <2>1. UNCHANGED daemonVars /\ call[c].pc \in {"spawn", "store", "emit", "reply"}
    BY <1>7 DEF Spawn, Store, Emit, Reply
  <2>2. /\ call'[c].pc \notin BeforeSpawn
        /\ call'[c].pc = "store" => call[c].pc = "spawn"
    <3>1. CASE Spawn(c)
      BY <1>0, <3>1 DEF Spawn, Goto, TypeOK, Calls, BeforeSpawn
    <3>2. CASE Store(c)
      <4>1. call[c].emit \in AlarmStatus \cup {None}
        BY <1>0 DEF Calls
      <4> QED
        BY <1>0, <3>2, <4>1, CallTypes DEF Store, TypeOK, BeforeSpawn
    <3>3. CASE Emit(c) \/ Reply(c)
      BY <1>0, <3>3, CallTypes DEF Emit, Reply, TypeOK, BeforeSpawn, Results
    <3> QED
      BY <1>7, <3>1, <3>2, <3>3
  <2> QED
    BY <1>0, <1>l, <2>1, <2>2 DEF daemonVars, BeforeSpawn
<1>8. CASE Player \/ UNCHANGED vars \/ \E t \in Tasks : Trigger(t)
  <2>1. UNCHANGED <<daemonVars, call>>
    BY <1>8, TriggerFrame DEF Player, vars, controlVars
  <2>2. phase[c] # "out" => Wanted(c)' = Wanted(c)
    <3>1. CASE UNCHANGED task
      BY <2>1, <3>1 DEF Wanted
    <3>2. CASE \E t \in Tasks : Trigger(t)
      <4>1. \A u \in Tasks : task'[u].sound = task[u].sound /\ task'[u].fire = task[u].fire
        BY <3>2, TriggerFrame
      <4> QED
        BY <1>0, <2>1, <4>1 DEF Wanted, Calls
    <3> QED
      BY <1>8, <3>1, <3>2 DEF Player, vars, controlVars
  <2> QED
    BY <1>0, <2>1, <2>2 DEF daemonVars
<1>9. CASE Crash
  <2>1. /\ up' = FALSE /\ inner' = Disarmed /\ phase'[c] = "out" /\ file' = file
        /\ call'[c] = NoCall
    BY <1>0, <1>9 DEF Crash, DaemonCrash
  <2> QED
    BY <1>0, <2>1, CallTypes, StateTypes DEF BeforeSpawn, Disarmed
<1>10. CASE Restart
  <2>1. ~up /\ up' /\ inner' = Recovered /\ UNCHANGED <<file, phase, call>>
    BY <1>10 DEF Restart, DaemonRestart
  <2>2. call[c].pc = "idle" /\ phase[c] = "out"
    BY <1>0, <1>l, <2>1
  <2>3. ~IsArmed(Recovered) => Recovered.sound = None
    BY DEF Recovered, FromPersisted, Load, IsArmed
  <2> QED
    BY <1>0, <2>1, <2>2, <2>3 DEF BeforeSpawn
<1> QED
  BY <1>0, <1>1, <1>2, <1>3, <1>4, <1>5, <1>6, <1>7, <1>8, <1>9, <1>10 DEF Next, Handler

----
(* Subscribers *)

\* Where call c is: it has changed nothing, or told what it changed ...
Settled(c) ==
  \/ call[c].pc \in {"idle", "cancel", "stop", "stopping", "reply"}
  \/ call[c].pc = "transition" /\ phase[c] \notin {"save", "ret"}

\* ... it has changed the state and holds the Transition ...
Transiting(c) == call[c].pc = "transition" /\ phase[c] \in {"save", "ret"}

\* ... or holds the signal that is due.
Telling(c) == call[c].pc \in {"spawn", "store", "emit"}

UpToDate == view \in {inner.status, None}

\* What the subscribers know, or are about to be told.
Told ==
  up => \A c \in Clients :
    /\ Settled(c) => UpToDate
    /\ (Transiting(c) /\ outcome[c] = None) => UpToDate
    /\ (Transiting(c) /\ outcome[c] # None) =>
         /\ outcome[c].to = inner.status
         /\ view \in {outcome[c].from, None}
         /\ call[c].op = "Snooze" => outcome[c].from = outcome[c].to
    /\ (Telling(c) /\ call[c].emit = None) => UpToDate
    /\ (Telling(c) /\ call[c].emit # None) => call[c].emit = inner.status
    /\ call[c].pc = "emit" => call[c].emit # None

\* A signal that is due is emitted; without one the handler answers.
LEMMA AfterWorkShape ==
  /\ AfterWork(None).pc = "reply"
  /\ \A e : e # None => AfterWork(e).pc = "emit" /\ AfterWork(e).emit = e
BY DEF AfterWork, Answer, NoCall

\* The subscribers know that the daemon starts disarmed.
LEMMA InitTold == Init => Told
BY CallTypes
   DEF Init, DaemonInit, Told, Settled, Transiting, Telling, UpToDate, Disarmed

\* Every step keeps the subscribers informed.
LEMMA NextTold ==
  ASSUME NEW c, Clients = {c}, TypeOK, Links, Serial, Told, [Next]_vars
  PROVE  Told'
<1> USE DEF Told, Settled, Transiting, Telling, UpToDate
<1>0. c \in Clients /\ call[c] \in Calls /\ inner \in States
  BY DEF TypeOK, DaemonTypeOK
<1>p. call[c].pc # "idle" => up
  BY <1>0 DEF Serial, Down, AllIdle
<1>l. phase[c] # "out" => call[c].pc = "transition" /\ desired[c] = Wanted(c)
  BY <1>0 DEF Links, InTransition
<1>1. CASE Entry(c)
  <2>1. /\ up /\ call[c].pc = "idle" /\ UNCHANGED <<daemonVars, view>>
        /\ call'[c].pc \in {"cancel", "reply"}
    BY <1>1, EntryFrame
  <2> QED
    BY <1>0, <2>1 DEF daemonVars
<1>2. CASE Cancel(c) \/ StopSend(c)
  <2>1. UNCHANGED <<daemonVars, view>> /\ call[c].pc \in {"cancel", "stop"}
    BY <1>2 DEF Cancel, StopSend
  <2>2. call'[c].pc \in {"stop", "stopping"}
    BY <1>0, <1>2 DEF Cancel, StopSend, Goto, TypeOK, Calls
  <2> QED
    BY <1>0, <1>p, <2>1, <2>2 DEF daemonVars
<1>3. CASE StopReturn(c)
  <2>1. UNCHANGED <<inner, up, view>> /\ phase'[c] = "swap" /\ call[c].pc = "stopping"
    BY <1>0, <1>3 DEF StopReturn, CallTransition, TypeOK, DaemonTypeOK
  <2>2. call'[c].pc = "transition"
    BY <1>0, <1>3 DEF StopReturn, Goto, TypeOK, Calls
  <2> QED
    BY <1>0, <1>p, <2>1, <2>2
<1>4. CASE Swap(c)
  <2>1. UNCHANGED <<call, view, up>> /\ phase[c] = "swap" /\ phase'[c] \in {"save", "ret"}
    BY <1>0, <1>4 DEF Swap, SwapNoChange, SwapChanged, TypeOK, DaemonTypeOK
  <2>2. call[c].pc = "transition" /\ desired[c] = Wanted(c) /\ up /\ UpToDate
    BY <1>0, <1>l, <1>p, <2>1
  <2>3. CASE SwapNoChange(c)
    <3>1. inner' = inner /\ outcome'[c] = None
      BY <1>0, <2>3 DEF SwapNoChange, TypeOK, DaemonTypeOK
    <3> QED
      BY <1>0, <2>1, <2>2, <3>1
  <2>4. CASE SwapChanged(c)
    <3>1. inner' = Wanted(c) /\ outcome'[c] = Changed(inner.status, Wanted(c).status)
      BY <1>0, <2>2, <2>4 DEF SwapChanged, TypeOK, DaemonTypeOK
    <3>2. Wanted(c) \in States
      BY <1>0, WantedType
    <3>3. /\ outcome'[c] \in [from : AlarmStatus, to : AlarmStatus]
          /\ outcome'[c].from = inner.status /\ outcome'[c].to = inner'.status
      BY <1>0, <3>1, <3>2 DEF Changed, States
    <3>4. outcome'[c] # None
      BY <3>3, OutcomeAssumption
    <3>5. call[c].op = "Snooze" => outcome'[c].from = outcome'[c].to
      BY <1>0, <2>2, <3>1, <3>3, WantedShape
         DEF Serial, SnoozeIsArmed, BeforeSpawn, IsArmed
    <3> QED
      BY <1>0, <2>1, <2>2, <3>3, <3>4, <3>5
  <2> QED
    BY <1>4, <2>3, <2>4 DEF Swap
<1>5. CASE Save(c)
  <2>1. /\ UNCHANGED <<inner, up, call, view, outcome>>
        /\ phase[c] = "save" /\ phase'[c] \in {"save", "ret"}
    BY <1>0, <1>5 DEF Save, CreateDb, SaveCommit, SaveFail, controlVars, TypeOK, DaemonTypeOK
  <2> QED
    BY <1>0, <1>l, <2>1
<1>6. CASE TransitionReturn(c)
  <2>1. /\ UNCHANGED <<inner, up, view>> /\ phase[c] = "ret" /\ phase'[c] = "out"
        /\ call[c].pc = "transition" /\ up
    BY <1>0, <1>p, <1>6 DEF TransitionReturn, ReturnTransition, TypeOK, DaemonTypeOK
  <2>2. /\ Signal(c) = None => UpToDate
        /\ Signal(c) # None => Signal(c) = inner.status
    <3>1. CASE outcome[c] = None
      <4>1. Signal(c) = None
        BY <3>1 DEF Signal
      <4> QED
        BY <1>0, <2>1, <3>1, <4>1
    <3>2. CASE outcome[c] # None
      <4>1. /\ outcome[c].to = inner.status /\ view \in {outcome[c].from, None}
            /\ call[c].op = "Snooze" => outcome[c].from = outcome[c].to
        BY <1>0, <2>1, <3>2
      <4>2. CASE outcome[c].from = outcome[c].to
        BY <4>1, <4>2 DEF Signal
      <4>3. CASE outcome[c].from # outcome[c].to
        <5>1. Signal(c) = outcome[c].to
          BY <3>2, <4>1, <4>3 DEF Signal
        <5>2. outcome[c].to # None
          BY <1>0, <4>1, OutcomeAssumption DEF States
        <5> QED
          BY <4>1, <5>1, <5>2
      <4> QED
        BY <4>2, <4>3
    <3> QED
      BY <3>1, <3>2
  <2>3. \/ call'[c] = AfterWork(Signal(c))
        \/ call'[c].pc = "spawn" /\ call'[c].emit = Signal(c)
    BY <1>0, <1>6 DEF TransitionReturn, TypeOK, Calls
  <2> QED
    BY <1>0, <2>1, <2>2, <2>3, AfterWorkShape
<1>7. CASE Spawn(c)
  <2>1. UNCHANGED <<daemonVars, view>> /\ call[c].pc = "spawn"
    BY <1>7 DEF Spawn
  <2>2. call'[c].pc = "store" /\ call'[c].emit = call[c].emit
    BY <1>0, <1>7 DEF Spawn, Goto, TypeOK, Calls
  <2> QED
    BY <1>0, <1>p, <2>1, <2>2 DEF daemonVars
<1>8. CASE Store(c)
  <2>1. UNCHANGED <<daemonVars, view>> /\ call[c].pc = "store"
    BY <1>8 DEF Store
  <2>2. call'[c] = AfterWork(call[c].emit)
    BY <1>0, <1>8 DEF Store, TypeOK
  <2> QED
    BY <1>0, <1>p, <2>1, <2>2, AfterWorkShape DEF daemonVars
<1>9. CASE Emit(c)
  <2>1. UNCHANGED daemonVars /\ call[c].pc = "emit" /\ view' \in {call[c].emit, None}
    BY <1>9 DEF Emit
  <2>2. call'[c].pc = "reply"
    BY <1>0, <1>9, CallTypes DEF Emit, TypeOK, Results
  <2> QED
    BY <1>0, <1>p, <2>1, <2>2 DEF daemonVars
<1>10. CASE Reply(c)
  <2>1. UNCHANGED <<daemonVars, view>> /\ call[c].pc = "reply"
    BY <1>10 DEF Reply
  <2>2. call'[c].pc = "idle"
    BY <1>0, <1>10, CallTypes DEF Reply, TypeOK
  <2> QED
    BY <1>0, <1>p, <2>1, <2>2 DEF daemonVars
<1>11. CASE Player \/ UNCHANGED vars \/ \E t \in Tasks : Trigger(t)
  <2>1. UNCHANGED <<daemonVars, call, view>>
    BY <1>11, TriggerFrame DEF Player, vars, controlVars
  <2> QED
    BY <1>0, <2>1 DEF daemonVars
<1>12. CASE Crash
  BY <1>12 DEF Crash, DaemonCrash
<1>13. CASE Restart
  <2>1. /\ ~up /\ inner' = Recovered /\ view' = Recovered.status
        /\ UNCHANGED call
    BY <1>13 DEF Restart, DaemonRestart
  <2>2. call[c].pc = "idle"
    BY <1>0, <2>1 DEF Serial, Down, AllIdle
  <2> QED
    BY <1>0, <2>1, <2>2
<1> QED
  BY <1>0, <1>1, <1>2, <1>3, <1>4, <1>5, <1>6, <1>7, <1>8, <1>9, <1>10, <1>11, <1>12, <1>13
  DEF Next, Handler

\* With one client the subscribers' view is the daemon's status whenever no call is
\* running: every change of status is announced by the call that made it, before
\* the next one starts, and a Snooze, which announces nothing, changes none.
THEOREM SoleClientTells ==
  ASSUME NEW c, Clients = {c}
  PROVE  Spec => []SubscribersAgree
<1>1. Init => TypeOK /\ Links /\ Serial /\ Told
  BY InitType, InitLinks, InitSerial, InitTold
<1>2. TypeOK /\ Links /\ Serial /\ Told /\ [Next]_vars => (TypeOK /\ Links /\ Serial /\ Told)'
  BY NextType, NextLinks, NextSerial, NextTold
<1>3. Told => SubscribersAgree
  BY DEF Told, SubscribersAgree, AllIdle, Settled, UpToDate
<1> QED
  BY <1>1, <1>2, <1>3, PTL DEF Spec

----
(* Silence *)

\* A trigger that runs and was not cancelled is the one whose handle is stored,
\* or is about to be.
Active(t) == task[t].st \in {"sleeping", "decoding", "playing"} /\ ~task[t].cancelled

ActiveIsHeld ==
  \A t \in Tasks : Active(t) =>
      \/ trigger_task = t
      \/ \E c \in Clients : call[c].pc = "store" /\ call[c].task = t

\* Only triggers that called play() are queued or heard.
Queued(t) == playing = t \/ \E i \in DOMAIN cmds : cmds[i].play = t

Sent(t) == task[t].st \in {"playing", "finished"}

OnlySent == \A t \in Tasks : Queued(t) => Sent(t)

\* From the Stop of a call to its Spawn, or as long as the daemon is disarmed,
\* whatever will still be heard was cancelled too late.
Silenced(c) ==
  \/ call[c].pc \in {"stopping", "transition", "spawn"}
  \/ call[c].pc \in {"idle", "cancel", "emit", "reply"} /\ ~IsArmed(inner)

Harmless == \A t \in Tasks : Threatens(t) => task[t].cancelled

Quiet == \A c \in Clients : Silenced(c) => Harmless

\* The worker, the end of a sound and an ack timeout add no sound.
LEMMA PlayerSound ==
  ASSUME AudioTypeOK, Worker \/ Finish \/ \E u \in Callers : AckTimeout(u), NEW t \in Tasks
  PROVE  /\ WillSound(t)' => WillSound(t)
         /\ Queued(t)' => Queued(t)
<1>0. t # None
  BY AudioAssumption
<1>1. CASE Finish
  <2>1. playing' = None /\ cmds' = cmds
    BY <1>1 DEF Finish
  <2> QED
    BY <1>0, <2>1 DEF WillSound, Queued, IsStop
<1>2. CASE \E u \in Callers : AckTimeout(u)
  <2>1. PICK u \in Callers : AckTimeout(u)
    BY <1>2
  <2>2. playing' = playing /\ DOMAIN cmds' = DOMAIN cmds
    BY <2>1 DEF AckTimeout
  <2>3. \A i \in DOMAIN cmds : cmds'[i].play = cmds[i].play
    <3> SUFFICES ASSUME NEW i \in DOMAIN cmds PROVE cmds'[i].play = cmds[i].play
      OBVIOUS
    <3>1. cmds[i] \in Commands
      BY DEF AudioTypeOK
    <3>2. cmds'[i] = IF cmds[i].ack = u THEN [cmds[i] EXCEPT !.ack = None] ELSE cmds[i]
      BY <2>1 DEF AckTimeout
    <3> QED
      BY <3>1, <3>2 DEF Commands
  <2> QED
    BY <2>2, <2>3 DEF WillSound, Queued, IsStop
<1>3. CASE Worker
  <2>1. cmds # <<>> /\ cmds' = Tail(cmds)
    BY <1>3 DEF Worker, ExecStop, ExecPlay, RefusePlay, Receive
  <2>2. /\ Len(cmds) \in Nat /\ DOMAIN cmds = 1..Len(cmds) /\ DOMAIN cmds' = 1..(Len(cmds) - 1)
        /\ 1 \in DOMAIN cmds /\ cmds[1] = Head(cmds)
        /\ \A i \in DOMAIN cmds' : cmds'[i] = cmds[i + 1]
    BY <2>1 DEF AudioTypeOK
  <2>3. \A i \in DOMAIN cmds' : i \in Nat /\ i + 1 \in DOMAIN cmds /\ cmds'[i] = cmds[i + 1]
    BY <2>2
  <2>4. \A j \in DOMAIN cmds : /\ j \in Nat
                               /\ j > 1 => j - 1 \in DOMAIN cmds' /\ cmds'[j - 1] = cmds[j]
    BY <2>2
  <2>5. \/ playing' = None
        \/ ~IsStop(cmds[1]) /\ playing' \in {playing, cmds[1].play}
    BY <1>3, <2>2 DEF Worker, ExecStop, ExecPlay, RefusePlay
  <2>6. Queued(t)' => Queued(t)
    BY <1>0, <2>2, <2>3, <2>5 DEF Queued
  <2>7. ASSUME NEW i \in DOMAIN cmds', cmds'[i].play = t,
               \A j \in DOMAIN cmds' : j > i => ~IsStop(cmds'[j])
        PROVE  WillSound(t)
    <3>1. i \in Nat /\ i + 1 \in DOMAIN cmds /\ cmds[i + 1].play = t
      BY <2>3, <2>7
    <3>2. \A j \in DOMAIN cmds : j > i + 1 => ~IsStop(cmds[j])
      <4> SUFFICES ASSUME NEW j \in DOMAIN cmds, j > i + 1 PROVE ~IsStop(cmds[j])
        OBVIOUS
      <4>1. j \in Nat /\ j > 1 /\ j - 1 > i
        BY <2>4, <3>1
      <4>2. j - 1 \in DOMAIN cmds' /\ cmds'[j - 1] = cmds[j]
        BY <2>4, <4>1
      <4> QED
        BY <2>7, <4>1, <4>2
    <3> QED
      BY <3>1, <3>2 DEF WillSound
  <2>8. ASSUME playing' = t, \A j \in DOMAIN cmds' : ~IsStop(cmds'[j])
        PROVE  WillSound(t)
    <3>1. \A j \in DOMAIN cmds : j > 1 => ~IsStop(cmds[j])
      BY <2>4, <2>8
    <3>2. ~IsStop(cmds[1]) /\ t \in {playing, cmds[1].play}
      BY <1>0, <2>5, <2>8
    <3>3. \A j \in DOMAIN cmds : ~IsStop(cmds[j])
      <4> SUFFICES ASSUME NEW j \in DOMAIN cmds PROVE ~IsStop(cmds[j])
        OBVIOUS
      <4>1. j = 1 \/ j > 1
        BY <2>2
      <4> QED
        BY <3>1, <3>2, <4>1
    <3> QED
      BY <2>2, <3>2, <3>3 DEF WillSound
  <2>9. WillSound(t)' => WillSound(t)
    BY <2>7, <2>8 DEF WillSound, IsStop
  <2> QED
    BY <2>6, <2>9
<1> QED
  BY <1>1, <1>2, <1>3

\* A Stop at the end of the channel silences everything before it.
LEMMA StopSound ==
  ASSUME AudioTypeOK, NEW u, Stop(u), NEW t \in Tasks
  PROVE  /\ ~WillSound(t)'
         /\ Queued(t)' => Queued(t)
<1>0. t # None
  BY AudioAssumption
<1>1. cmds' = Append(cmds, [play |-> None, ack |-> u]) /\ playing' = playing
  BY DEF Stop, Send
<1>2. /\ Len(cmds) \in Nat /\ DOMAIN cmds = 1..Len(cmds) /\ DOMAIN cmds' = 1..(Len(cmds) + 1)
      /\ cmds'[Len(cmds) + 1] = [play |-> None, ack |-> u]
      /\ \A i \in DOMAIN cmds : cmds'[i] = cmds[i]
  BY <1>1 DEF AudioTypeOK
<1>3. /\ Len(cmds) + 1 \in DOMAIN cmds' /\ cmds'[Len(cmds) + 1].play = None
      /\ \A i \in DOMAIN cmds' : i = Len(cmds) + 1 \/ (i \in DOMAIN cmds /\ Len(cmds) + 1 > i)
  BY <1>2
<1>4. ~WillSound(t)'
  BY <1>0, <1>3 DEF WillSound, IsStop
<1> QED
  BY <1>0, <1>1, <1>2, <1>3, <1>4 DEF Queued

\* A Play adds its own sound only.
LEMMA PlaySound ==
  ASSUME AudioTypeOK, NEW u \in Tasks, Play(u), NEW t \in Tasks, t # u
  PROVE  /\ WillSound(t)' => WillSound(t)
         /\ Queued(t)' => Queued(t)
<1>1. cmds' = Append(cmds, [play |-> u, ack |-> u]) /\ playing' = playing
  BY DEF Play, Send
<1>2. /\ Len(cmds) \in Nat /\ DOMAIN cmds = 1..Len(cmds) /\ DOMAIN cmds' = 1..(Len(cmds) + 1)
      /\ cmds'[Len(cmds) + 1] = [play |-> u, ack |-> u]
      /\ \A i \in DOMAIN cmds : cmds'[i] = cmds[i]
  BY <1>1 DEF AudioTypeOK
<1>3. /\ cmds'[Len(cmds) + 1].play # t
      /\ \A i \in DOMAIN cmds' : i = Len(cmds) + 1 \/ i \in DOMAIN cmds
      /\ \A i \in DOMAIN cmds : i \in DOMAIN cmds'
  BY <1>2
<1> QED
  BY <1>1, <1>2, <1>3 DEF WillSound, Queued, IsStop

\* What is to be heard is queued.
LEMMA SoundIsQueued ==
  ASSUME NEW t, WillSound(t)
  PROVE  Queued(t)
BY DEF WillSound, Queued

\* Nothing runs at the start.
LEMMA InitQuiet == Init => ActiveIsHeld /\ OnlySent /\ Quiet
<1> SUFFICES ASSUME Init PROVE ActiveIsHeld /\ OnlySent /\ Quiet
  OBVIOUS
<1>1. \A t \in Tasks : task[t].st = "unborn" /\ t # None
  BY AudioAssumption DEF Init, Unborn
<1>2. \A t \in Tasks : ~Queued(t)
  BY <1>1 DEF Init, AudioInit, Queued
<1>3. \A t \in Tasks : ~Threatens(t)
  BY <1>1, <1>2, SoundIsQueued DEF Threatens
<1> QED
  BY <1>1, <1>2, <1>3 DEF ActiveIsHeld, Active, OnlySent, Quiet, Harmless

\* The steps that leave triggers and player alone.
Still == UNCHANGED <<task, trigger_task, audioVars>>

\* They change nothing that Quiet speaks about.
LEMMA StillFrame ==
  ASSUME Still
  PROVE  \A t \in Tasks : /\ Active(t)' <=> Active(t)
                          /\ Queued(t)' <=> Queued(t)
                          /\ WillSound(t)' <=> WillSound(t)
                          /\ Sent(t)' <=> Sent(t)
                          /\ Threatens(t)' <=> Threatens(t)
                          /\ task'[t] = task[t]
BY DEF Still, audioVars, Active, Queued, WillSound, Sent, Threatens, IsStop

\* cancel_pending, and a crash, leave no active trigger behind.
LEMMA NextActive ==
  ASSUME NEW c, Clients = {c}, TypeOK, Links, HandleTaken, ActiveIsHeld, [Next]_vars
  PROVE  ActiveIsHeld'
<1>0. c \in Clients /\ call[c] \in Calls
  BY DEF TypeOK
<1>n. None \notin Tasks
  BY AudioAssumption
<1>h. call[c].pc \in {"stop", "stopping", "transition", "spawn", "store"} => trigger_task = None
  BY <1>0 DEF HandleTaken
<1>a. \A t \in Tasks : Active(t) => \/ trigger_task = t
                                    \/ call[c].pc = "store" /\ call[c].task = t
  BY <1>0 DEF ActiveIsHeld
<1>1. CASE Entry(c)
  <2>1. /\ call[c].pc = "idle" /\ trigger_task' = trigger_task
        /\ \A t \in Tasks : \/ task'[t] = task[t]
                            \/ task[t].st = "unborn" /\ task'[t].st = "reserved"
    BY <1>1, EntryFrame
  <2>2. \A t \in Tasks : Active(t)' => Active(t)
    BY <2>1 DEF Active
  <2> QED
    BY <1>a, <2>1, <2>2 DEF ActiveIsHeld
<1>2. CASE Cancel(c)
  <2>1. \A r \in TaskRecords : Abort(r).st \notin {"sleeping", "decoding", "playing"} \/ Abort(r).cancelled
    BY DEF Abort, TaskRecords
  <2>2. \A t \in Tasks : task'[t] = IF t = trigger_task THEN Abort(task[t]) ELSE task[t]
    BY <1>2 DEF Cancel
  <2>3. \A t \in Tasks : task[t] \in TaskRecords
    BY DEF TypeOK
  <2>4. \A t \in Tasks : t # trigger_task => ~Active(t)
    BY <1>2, <1>a DEF Cancel
  <2>5. \A t \in Tasks : ~Active(t)'
    BY <2>1, <2>2, <2>3, <2>4 DEF Active
  <2> QED
    BY <2>5 DEF ActiveIsHeld
<1>3. CASE /\ StopSend(c) \/ StopReturn(c) \/ Swap(c) \/ Save(c) \/ TransitionReturn(c)
           /\ call[c].pc # "store"
  <2>1. UNCHANGED <<task, trigger_task>>
    BY <1>3 DEF StopSend, StopReturn, Swap, Save, TransitionReturn, controlVars
  <2> QED
    BY <1>3, <1>a, <2>1 DEF Active, ActiveIsHeld
<1>4. CASE Spawn(c)
  <2>1. trigger_task = None /\ call[c].pc = "spawn" /\ trigger_task' = trigger_task
    BY <1>4, <1>h DEF Spawn
  <2>2. \A t \in Tasks : ~Active(t)
    BY <1>a, <1>n, <2>1
  <2>3. call'[c].pc = "store" /\ call'[c].task = call[c].task
    BY <1>0, <1>4 DEF Spawn, Goto, TypeOK, Calls
  <2>4. \A t \in Tasks : t # call[c].task => task'[t] = task[t]
    BY <1>4 DEF Spawn, SetTask, TypeOK
  <2> QED
    BY <1>0, <2>2, <2>3, <2>4 DEF Active, ActiveIsHeld
<1>5. CASE Store(c)
  <2>1. /\ trigger_task = None /\ trigger_task' = call[c].task /\ task' = task
    BY <1>5, <1>h DEF Store
  <2> QED
    BY <1>a, <1>n, <2>1 DEF Active, ActiveIsHeld
<1>6. CASE Emit(c) \/ Reply(c)
  <2>1. UNCHANGED <<task, trigger_task>> /\ call[c].pc # "store"
    BY <1>6 DEF Emit, Reply
  <2> QED
    BY <1>a, <2>1 DEF Active, ActiveIsHeld
<1>7. CASE \E t \in Tasks : Trigger(t)
  <2>1. PICK t \in Tasks : Trigger(t)
    BY <1>7
  <2>2. /\ UNCHANGED <<call, trigger_task>>
        /\ task[t].st \in {"sleeping", "decoding", "playing"}
        /\ \A u \in Tasks : /\ u # t => task'[u] = task[u]
                            /\ task'[u].cancelled = task[u].cancelled
    BY <2>1, TriggerFrame
  <2>3. \A u \in Tasks : Active(u)' => Active(u)
    BY <2>2 DEF Active
  <2> QED
    BY <2>2, <2>3 DEF ActiveIsHeld
<1>8. CASE Crash
  <2>1. \A t \in Tasks : task'[t].st \in {"unborn", "killed"}
    BY <1>8 DEF Crash, Unborn, TypeOK, TaskRecords
  <2> QED
    BY <2>1 DEF Active, ActiveIsHeld
<1>9. CASE Player \/ Restart \/ UNCHANGED vars
  <2>1. UNCHANGED <<call, trigger_task, task>>
    BY <1>9 DEF Player, Restart, vars, controlVars
  <2> QED
    BY <2>1 DEF Active, ActiveIsHeld
<1>10. Swap(c) \/ Save(c) => call[c].pc = "transition"
  BY <1>0 DEF Swap, SwapNoChange, SwapChanged, Save, CreateDb, SaveCommit, SaveFail,
              Links, InTransition
<1>11. StopSend(c) \/ StopReturn(c) \/ TransitionReturn(c) => call[c].pc # "store"
  BY DEF StopSend, StopReturn, TransitionReturn
<1> QED
  BY <1>0, <1>1, <1>2, <1>3, <1>4, <1>5, <1>6, <1>7, <1>8, <1>9, <1>10, <1>11 DEF Next, Handler

\* The handler steps that neither touch a trigger nor the player.
LEMMA HandlerStill ==
  ASSUME NEW c, StopReturn(c) \/ Swap(c) \/ Save(c) \/ TransitionReturn(c) \/ Emit(c) \/ Reply(c)
  PROVE  Still
BY DEF StopReturn, Swap, Save, TransitionReturn, Emit, Reply, controlVars, Still

\* A trigger that has called play() has done so for good; nothing else is queued.
LEMMA NextOnlySent ==
  ASSUME NEW c, Clients = {c}, TypeOK, Links, OnlySent, [Next]_vars
  PROVE  OnlySent'
<1>0. c \in Clients /\ call[c] \in Calls /\ AudioTypeOK
  BY DEF TypeOK
<1>1. ASSUME \A t \in Tasks : Queued(t)' => Queued(t), \A t \in Tasks : Sent(t) => Sent(t)'
      PROVE  OnlySent'
  BY <1>1 DEF OnlySent
<1>2. ASSUME UNCHANGED audioVars PROVE \A t \in Tasks : Queued(t)' => Queued(t)
  BY <1>2 DEF audioVars, Queued
<1>3. CASE Entry(c)
  <2>1. /\ UNCHANGED audioVars
        /\ \A t \in Tasks : task'[t] = task[t] \/ task[t].st = "unborn"
    BY <1>3, EntryFrame
  <2>2. \A t \in Tasks : Sent(t) => Sent(t)'
    BY <2>1 DEF Sent
  <2> QED
    BY <1>1, <1>2, <2>1, <2>2
<1>4. CASE Cancel(c)
  <2>1. \A r \in TaskRecords : r.st \in {"playing", "finished"} => Abort(r).st = r.st
    BY DEF Abort, TaskRecords
  <2>2. \A t \in Tasks : task[t] \in TaskRecords
    BY DEF TypeOK
  <2>3. \A t \in Tasks : Sent(t) => Sent(t)'
    BY <1>4, <2>1, <2>2 DEF Cancel, Sent
  <2> QED
    BY <1>1, <1>2, <1>4, <2>3 DEF Cancel
<1>5. CASE StopSend(c)
  <2>1. \A t \in Tasks : Queued(t)' => Queued(t)
    BY <1>0, <1>5, StopSound DEF StopSend
  <2> QED
    BY <1>1, <1>5, <2>1 DEF StopSend, Sent
<1>6. CASE Spawn(c)
  <2>1. call[c].task \in Tasks /\ task[call[c].task].st = "reserved"
    BY <1>0, <1>6 DEF Spawn, Links, OwnsReserved, BeforeSpawn, Calls
  <2>2. \A t \in Tasks : t # call[c].task => task'[t] = task[t]
    BY <1>6 DEF Spawn, SetTask, TypeOK
  <2>3. \A t \in Tasks : Sent(t) => Sent(t)'
    BY <2>1, <2>2 DEF Sent
  <2> QED
    BY <1>1, <1>2, <1>6, <2>3 DEF Spawn
<1>7. CASE Store(c)
  BY <1>1, <1>2, <1>7 DEF Store, Sent
<1>8. CASE StopReturn(c) \/ Swap(c) \/ Save(c) \/ TransitionReturn(c) \/ Emit(c) \/ Reply(c)
  BY <1>8, HandlerStill, StillFrame DEF OnlySent
<1>9. CASE \E t \in Tasks : Trigger(t)
  <2>1. PICK t \in Tasks : Trigger(t)
    BY <1>9
  <2>2. /\ task[t].st \in {"sleeping", "decoding", "playing"}
        /\ \A u \in Tasks : u # t => task'[u] = task[u]
    BY <2>1, TriggerFrame
  <2>3. CASE PlaySend(t)
    <3>1. task'[t].st = "playing" /\ Play(t)
      BY <2>3 DEF PlaySend, SetTask, TypeOK, TaskRecords
    <3>2. \A u \in Tasks : u # t /\ Queued(u)' => Queued(u)
      BY <1>0, <3>1, PlaySound
    <3> QED
      BY <2>2, <3>1, <3>2 DEF OnlySent, Sent
  <2>4. CASE Wake(t) \/ DecodeFail(t) \/ PlayReturn(t)
    <3>1. UNCHANGED audioVars
      BY <2>4 DEF Wake, DecodeFail, PlayReturn
    <3>2. Sent(t) => Sent(t)'
      BY <2>4 DEF Wake, DecodeFail, PlayReturn, SetTask, Sent, TypeOK, TaskRecords
    <3>3. \A u \in Tasks : Sent(u) => Sent(u)'
      BY <2>2, <3>2 DEF Sent
    <3> QED
      BY <1>1, <1>2, <3>1, <3>3
  <2> QED
    BY <2>1, <2>3, <2>4 DEF Trigger
<1>10. CASE Player
  <2>1. \A t \in Tasks : Queued(t)' => Queued(t)
    BY <1>0, <1>10, PlayerSound DEF Player
  <2> QED
    BY <1>1, <1>10, <2>1 DEF Player, controlVars, Sent
<1>11. CASE Crash
  <2>1. cmds' = <<>> /\ playing' = None
    BY <1>11 DEF Crash
  <2>2. \A t \in Tasks : ~Queued(t)'
    BY <2>1, AudioAssumption DEF Queued
  <2> QED
    BY <2>2 DEF OnlySent
<1>12. CASE Restart \/ UNCHANGED vars
  BY <1>1, <1>2, <1>12 DEF Restart, vars, controlVars, Sent
<1> QED
  BY <1>0, <1>3, <1>4, <1>5, <1>6, <1>7, <1>8, <1>9, <1>10, <1>11, <1>12 DEF Next, Handler

\* Silence lasts until the next trigger is spawned.
LEMMA NextQuiet ==
  ASSUME NEW c, Clients = {c}, TypeOK, Links, HandleTaken, Serial, ActiveIsHeld, OnlySent,
         Quiet, [Next]_vars
  PROVE  Quiet'
<1>0. c \in Clients /\ call[c] \in Calls /\ AudioTypeOK
  BY DEF TypeOK
<1>q. Silenced(c) => Harmless
  BY <1>0 DEF Quiet
<1>1. ASSUME Silenced(c)' => Silenced(c),
             \A t \in Tasks : /\ Threatens(t)' => Threatens(t)
                              /\ Threatens(t)' => task'[t].cancelled = task[t].cancelled
      PROVE  Quiet'
  BY <1>1, <1>q DEF Quiet, Harmless
<1>2. ASSUME Silenced(c)' => Silenced(c), Still PROVE Quiet'
  BY <1>1, <1>2, StillFrame
<1>3. CASE Entry(c)
  <2>1. /\ call[c].pc = "idle" /\ call'[c].pc \in {"cancel", "reply"}
        /\ UNCHANGED <<daemonVars, audioVars>>
        /\ \A t \in Tasks : \/ task'[t] = task[t]
                            \/ task[t].st = "unborn" /\ task'[t].st = "reserved"
    BY <1>3, EntryFrame
  <2>2. Silenced(c)' => Silenced(c)
    BY <2>1 DEF Silenced, daemonVars, IsArmed
  <2>3. \A t \in Tasks : WillSound(t)' => WillSound(t) /\ Sent(t)
    BY <2>1, SoundIsQueued DEF WillSound, IsStop, audioVars, OnlySent
  <2>4. \A t \in Tasks : Threatens(t)' => Threatens(t) /\ task'[t] = task[t]
    BY <2>1, <2>3 DEF Threatens, Sent
  <2> QED
    BY <1>1, <2>2, <2>4
<1>4. CASE Cancel(c) \/ Spawn(c)
  <2>1. call'[c].pc \in {"stop", "store"}
    BY <1>0, <1>4 DEF Cancel, Spawn, Goto, TypeOK, Calls
  <2> QED
    BY <2>1 DEF Quiet, Silenced
<1>5. CASE StopSend(c)
  <2>1. \A t \in Tasks : ~WillSound(t)'
    BY <1>0, <1>5, StopSound DEF StopSend
  <2>2. task' = task /\ trigger_task = None /\ call[c].pc = "stop"
    BY <1>0, <1>5 DEF StopSend, HandleTaken
  <2>3. \A t \in Tasks : ~Active(t)
    BY <1>0, <2>2, AudioAssumption DEF ActiveIsHeld
  <2>4. Harmless'
    BY <2>1, <2>2, <2>3 DEF Harmless, Threatens, Active
  <2> QED
    BY <2>4 DEF Quiet
<1>6. CASE StopReturn(c) \/ TransitionReturn(c) \/ Emit(c) \/ Reply(c)
  <2>1. Still
    BY <1>6, HandlerStill
  <2>2. /\ call[c].pc \in {"stopping", "transition"} => Silenced(c)
        /\ inner' = inner
    BY <1>6 DEF StopReturn, CallTransition, TransitionReturn, ReturnTransition, Emit, Reply,
                daemonVars, Silenced
  <2>3. CASE StopReturn(c) \/ TransitionReturn(c)
    BY <1>2, <2>1, <2>2, <2>3 DEF StopReturn, TransitionReturn
  <2>4. CASE Emit(c) \/ Reply(c)
    <3>1. call[c].pc \in {"emit", "reply"} /\ call'[c].pc \in {"reply", "idle"}
      BY <1>0, <2>4, CallTypes DEF Emit, Reply, TypeOK, Results
    <3> QED
      BY <1>2, <2>1, <2>2, <3>1 DEF Silenced, IsArmed
  <2> QED
    BY <1>6, <2>3, <2>4
<1>7. CASE Swap(c) \/ Save(c)
  <2>1. Still /\ call[c].pc = "transition"
    BY <1>0, <1>7, HandlerStill
       DEF Swap, SwapNoChange, SwapChanged, Save, CreateDb, SaveCommit, SaveFail,
           Links, InTransition
  <2> QED
    BY <1>2, <2>1 DEF Silenced
<1>8. CASE Store(c)
  <2>1. call[c].pc = "store" /\ UNCHANGED inner
    BY <1>8 DEF Store, daemonVars
  <2>2. call'[c].pc \in {"emit", "reply"}
    <3>1. call[c].emit \in AlarmStatus \cup {None}
      BY <1>0 DEF Calls
    <3> QED
      BY <1>0, <1>8, <3>1, CallTypes DEF Store, TypeOK
  <2>3. IsArmed(inner)
    BY <1>0, <2>1 DEF Serial, SetByCall
  <2> QED
    BY <2>1, <2>2, <2>3 DEF Quiet, Silenced, IsArmed
<1>9. CASE \E t \in Tasks : Trigger(t)
  <2>1. PICK t \in Tasks : Trigger(t)
    BY <1>9
  <2>2. /\ UNCHANGED <<daemonVars, call>>
        /\ \A u \in Tasks : /\ u # t => task'[u] = task[u]
                            /\ task'[u].cancelled = task[u].cancelled
    BY <2>1, TriggerFrame
  <2>3. Silenced(c)' => Silenced(c)
    BY <2>2 DEF Silenced, daemonVars, IsArmed
  <2>4. CASE PlaySend(t)
    <3>1. task[t].st = "decoding" /\ Play(t)
      BY <2>4 DEF PlaySend
    <3>2. \A u \in Tasks : u # t /\ WillSound(u)' => WillSound(u)
      BY <1>0, <3>1, PlaySound
    <3>3. \A u \in Tasks : Threatens(u)' => Threatens(u)
      BY <2>2, <3>1, <3>2 DEF Threatens
    <3> QED
      BY <1>1, <2>2, <2>3, <3>3
  <2>5. CASE Wake(t) \/ DecodeFail(t) \/ PlayReturn(t)
    <3>1. UNCHANGED audioVars
      BY <2>5 DEF Wake, DecodeFail, PlayReturn
    <3>2. \A u \in Tasks : WillSound(u)' => WillSound(u)
      BY <3>1 DEF WillSound, IsStop, audioVars
    <3>3. task'[t].st \in {"sleeping", "decoding"} => task[t].st \in {"sleeping", "decoding"}
      BY <2>5 DEF Wake, DecodeFail, PlayReturn, SetTask, TypeOK, TaskRecords
    <3>4. \A u \in Tasks : Threatens(u)' => Threatens(u)
      BY <2>2, <3>2, <3>3 DEF Threatens
    <3> QED
      BY <1>1, <2>2, <2>3, <3>4
  <2> QED
    BY <2>1, <2>4, <2>5 DEF Trigger
<1>10. CASE Player
  <2>1. \A t \in Tasks : WillSound(t)' => WillSound(t)
    BY <1>0, <1>10, PlayerSound DEF Player
  <2>2. UNCHANGED <<inner, call, task>>
    BY <1>10 DEF Player, daemonVars, controlVars
  <2>3. Silenced(c)' => Silenced(c)
    BY <2>2 DEF Silenced, IsArmed
  <2>4. \A t \in Tasks : Threatens(t)' => Threatens(t)
    BY <2>1, <2>2 DEF Threatens
  <2> QED
    BY <1>1, <2>2, <2>3, <2>4
<1>11. CASE Crash
  <2>1. cmds' = <<>> /\ playing' = None
    BY <1>11 DEF Crash
  <2>2. \A t \in Tasks : ~WillSound(t)'
    BY <2>1, AudioAssumption DEF WillSound
  <2>3. \A t \in Tasks : task'[t].st \in {"unborn", "killed"}
    BY <1>11 DEF Crash, Unborn, TypeOK, TaskRecords
  <2> QED
    BY <2>2, <2>3 DEF Quiet, Harmless, Threatens
<1>12. CASE Restart
  <2>1. Still /\ ~up
    BY <1>12 DEF Restart, DaemonRestart, Still
  <2>2. Silenced(c)
    BY <1>0, <2>1 DEF Serial, Down, AllIdle, Silenced
  <2> QED
    BY <1>2, <2>1, <2>2
<1>13. CASE UNCHANGED vars
  <2>1. Still /\ UNCHANGED <<inner, call>>
    BY <1>13 DEF vars, daemonVars, controlVars, Still
  <2>2. Silenced(c)' => Silenced(c)
    BY <2>1 DEF Silenced, IsArmed
  <2> QED
    BY <1>2, <2>1, <2>2
<1> QED
  BY <1>0, <1>3, <1>4, <1>5, <1>6, <1>7, <1>8, <1>9, <1>10, <1>11, <1>12, <1>13
  DEF Next, Handler

\* With one client, when Disarm or Dismiss has returned nothing is heard any more
\* but a trigger that was past its sleep when it was cancelled, even if stop() timed
\* out: the Stop is queued behind every play() of a trigger that was not cancelled,
\* and no such trigger is left to call play() later.
THEOREM SoleClientSilences ==
  ASSUME NEW c, Clients = {c}
  PROVE  Spec => []DisarmedIsQuiet
<1> DEFINE I == /\ TypeOK /\ Links /\ Held /\ Serial
                /\ ActiveIsHeld /\ OnlySent /\ Quiet
<1>1. Init => I
  BY InitType, InitLinks, InitHeld, InitSerial, InitQuiet
<1>2. I /\ [Next]_vars => I'
  <2> SUFFICES ASSUME I, [Next]_vars PROVE I'
    OBVIOUS
  <2>1. TypeOK' /\ Links' /\ Held' /\ Serial'
    BY NextType, NextLinks, NextHeld, NextSerial
  <2>2. HandleTaken
    BY DEF Held
  <2>3. ActiveIsHeld' /\ OnlySent' /\ Quiet'
    BY <2>2, NextActive, NextOnlySent, NextQuiet
  <2> QED
    BY <2>1, <2>3
<1>3. I => DisarmedIsQuiet
  BY DEF Quiet, Silenced, Harmless, DisarmedIsQuiet, AllIdle
<1> QED
  BY <1>1, <1>2, <1>3, PTL DEF Spec
====
