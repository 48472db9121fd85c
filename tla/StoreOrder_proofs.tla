---- MODULE StoreOrder_proofs ----
(***************************************************************************)
(* Proofs about StoreOrder for any number of clients, sounds, fire times,  *)
(* state changes and crashes.                                              *)
(***************************************************************************)
EXTENDS StoreOrder, TLAPS

\* A caller inside transition_to carries a State.
DesiredIsState == \A c \in Clients : phase[c] # "out" => desired[c] \in States

\* Every snapshot still to be written is newer than the settled version, and no
\* version is ahead of the counter: what makes NoRollbackPastSettled inductive.
SnapshotsAreFresh ==
  /\ \A c \in Clients : phase[c] = "save" => snap[c] > settled
  /\ \A c \in Clients : snap[c] <= version
  /\ settled <= version /\ saved <= version

IInv == TypeOK /\ DesiredIsState /\ SnapshotsAreFresh /\ NoRollbackPastSettled

----
\* What new_persistent makes of the file is a State.
LEMMA RecoveredType == TypeOK => Recovered \in States
BY NoneAssumption
   DEF TypeOK, DaemonTypeOK, Recovered, FromPersisted, Load, States,
       PersistedStates, AlarmStatus

\* to_persisted yields a PersistedState.
LEMMA PersistedType == ASSUME NEW s \in States PROVE ToPersisted(s) \in PersistedStates
BY DEF States, PersistedStates, ToPersisted, IsArmed

\* What arm_with_sound and disarm ask for is a State.
LEMMA RequestType == ASSUME NEW s \in Sounds, NEW f \in Fires
                     PROVE  Armed(s, f) \in States /\ Disarmed \in States
BY DEF Armed, Disarmed, States, AlarmStatus

\* State::disarmed() is a State.
LEMMA DisarmedType == Disarmed \in States
BY DEF Disarmed, States, AlarmStatus

\* The first start satisfies the inductive invariant.
LEMMA InitIInv == Init => IInv
<1> SUFFICES ASSUME Init PROVE IInv
  OBVIOUS
<1>1. DaemonTypeOK
  BY DisarmedType DEF Init, DaemonInit, DaemonTypeOK, Phases, Outcomes
<1>2. TypeOK
  BY <1>1 DEF Init, TypeOK
<1> QED
  BY <1>2 DEF Init, DaemonInit, IInv, DesiredIsState, SnapshotsAreFresh,
              NoRollbackPastSettled

\* Every step keeps the inductive invariant: a new snapshot is newer than
\* everything settled, and a save that ends settles nothing newer than the rest.
LEMMA NextIInv == IInv /\ [Next]_vars => IInv'
<1> SUFFICES ASSUME IInv, [Next]_vars PROVE IInv'
  OBVIOUS
<1> USE DEF IInv, TypeOK, DaemonTypeOK, DesiredIsState, SnapshotsAreFresh,
            NoRollbackPastSettled
<1>1. ASSUME NEW c \in Clients, Request(c) PROVE IInv'
  <2>1. PICK s \in States : CallTransition(c, s)
    BY <1>1, RequestType, DisarmedType DEF Request
  <2> QED
    BY <1>1, <2>1 DEF Request, CallTransition, history, Phases
<1>2. ASSUME NEW c \in Clients, NoChange(c) PROVE IInv'
  BY <1>2 DEF NoChange, SwapNoChange, history, Phases, Outcomes
<1>3. ASSUME NEW c \in Clients, Change(c) PROVE IInv'
  <2>1. Changed(inner.status, desired[c].status) \in Outcomes
    BY <1>3 DEF Change, SwapChanged, Changed, Outcomes, States, Phases
  <2> QED
    BY <1>3, <2>1 DEF Change, SwapChanged, Phases
<1>4. ASSUME NEW c \in Clients, Create(c) PROVE IInv'
  BY <1>4 DEF Create, CreateDb, history
<1>5. ASSUME NEW c \in Clients, Commit(c) PROVE IInv'
  <2>1. ToPersisted(desired[c]) \in PersistedStates
    BY <1>5, PersistedType DEF Commit, SaveCommit
  <2>2. settled' \in {saved', settled} /\ (Quiescent' \/ settled' = settled)
    BY <1>5 DEF Commit, Settle
  <2>3. DaemonTypeOK'
    BY <1>5, <2>1 DEF Commit, SaveCommit, Phases
  <2>4. snap[c] \in Nat /\ saved' = snap[c] /\ saved' > settled /\ saved' <= version
    BY <1>5 DEF Commit, SaveCommit
  <2>5. TypeOK'
    BY <1>5, <2>2, <2>3, <2>4 DEF Commit
  <2>7. NoRollbackPastSettled'
    BY <2>2, <2>4
  <2>8. DesiredIsState'
    BY <1>5 DEF Commit, SaveCommit
  <2>6. SnapshotsAreFresh'
    BY <1>5, <2>2, <2>4 DEF Commit, SaveCommit, Quiescent
  <2> QED
    BY <2>5, <2>6, <2>7, <2>8
<1>6. ASSUME NEW c \in Clients, Fail(c) PROVE IInv'
  <2>1. settled' \in {saved', settled} /\ (Quiescent' \/ settled' = settled)
    BY <1>6 DEF Fail, Settle
  <2> QED
    BY <1>6, <2>1 DEF Fail, SaveFail, Quiescent, Phases
<1>7. ASSUME NEW c \in Clients, Return(c) PROVE IInv'
  BY <1>7 DEF Return, ReturnTransition, history, Phases, Outcomes
<1>8. CASE Crash
  <2>1. DaemonTypeOK'
    BY <1>8, DisarmedType DEF Crash, DaemonCrash, Phases, Outcomes
  <2>2. version' \in Nat /\ snap' \in [Clients -> Nat] /\ saved' \in Nat
        /\ settled' \in Nat /\ crashes' \in Nat
    BY <1>8 DEF Crash
  <2>3. DesiredIsState' /\ SnapshotsAreFresh' /\ NoRollbackPastSettled'
    BY <1>8 DEF Crash, DaemonCrash
  <2>4. saveFailed' \in BOOLEAN /\ overlapped' \in BOOLEAN
    BY <1>8 DEF Crash
  <2> QED
    BY <2>1, <2>2, <2>3, <2>4
<1>9. CASE Restart
  BY <1>9, RecoveredType DEF Restart, DaemonRestart, history
<1>10. CASE Exhausted \/ UNCHANGED vars
  BY <1>10 DEF Exhausted, vars, daemonVars, history
<1> QED
  BY <1>1, <1>2, <1>3, <1>4, <1>5, <1>6, <1>7, <1>8, <1>9, <1>10
  DEF Next, ClientStep

----
(* Durability of a lone save *)

\* A dead process has no caller inside transition_to.
DownIsEmpty == ~up => \A c \in Clients : phase[c] = "out"

\* What makes LoneSaveIsDurable inductive: when the last change was made under no
\* other save, either its save is still the only one in flight and carries the
\* in-memory state, or it has ended and the file holds that state unless it failed.
LoneSave ==
  (up /\ ~overlapped) =>
    \/ Quiescent /\ (saveFailed \/ Recovered = inner)
    \/ \E c \in Clients :
         /\ phase[c] = "save" /\ desired[c] = inner
         /\ \A d \in Clients : d # c => phase[d] # "save"

\* new_persistent undoes to_persisted.
LEMMA PersistRoundTrip ==
  ASSUME NEW s \in States
  PROVE  FromPersisted(ToPersisted(s)) = s
BY DEF States, AlarmStatus, FromPersisted, ToPersisted, IsArmed

\* No call is running and nothing is stored at the first start.
LEMMA InitLone == Init => DownIsEmpty /\ LoneSave
BY DEF Init, DaemonInit, DownIsEmpty, LoneSave, Quiescent, Recovered, Load,
       FromPersisted, Disarmed

\* Every step keeps a lone save alone, or ends it with the file up to date.
LEMMA NextLone ==
  ASSUME IInv, DownIsEmpty, LoneSave, [Next]_vars
  PROVE  DownIsEmpty' /\ LoneSave'
<1> USE DEF DownIsEmpty, LoneSave, Quiescent
<1>t. TypeOK /\ DesiredIsState
  BY DEF IInv
<1>u. phase \in [Clients -> Phases] /\ desired \in [Clients -> States \cup {None}]
  BY <1>t DEF TypeOK, DaemonTypeOK
<1>1. ASSUME NEW c \in Clients, Request(c) PROVE DownIsEmpty' /\ LoneSave'
  <2>1. PICK s \in States : CallTransition(c, s)
    BY <1>1, RequestType, DisarmedType DEF Request
  <2> QED
    BY <1>1, <1>u, <2>1 DEF Request, CallTransition, history, Recovered
<1>2. ASSUME NEW c \in Clients, NoChange(c) \/ Return(c) \/ Create(c)
      PROVE  DownIsEmpty' /\ LoneSave'
  <2>1. Recovered' = Recovered
    BY <1>2, <1>t DEF NoChange, SwapNoChange, Return, ReturnTransition, Create,
                      CreateDb, Recovered, Load, TypeOK, DaemonTypeOK
  <2> QED
    BY <1>2, <1>u, <2>1 DEF NoChange, SwapNoChange, Return, ReturnTransition, Create,
                            CreateDb, history
<1>3. ASSUME NEW c \in Clients, Change(c) PROVE DownIsEmpty' /\ LoneSave'
  BY <1>3, <1>u DEF Change, SwapChanged
<1>4. ASSUME NEW c \in Clients, Commit(c) PROVE DownIsEmpty' /\ LoneSave'
  <2>1. desired[c] \in States
    BY <1>4, <1>t DEF Commit, SaveCommit, DesiredIsState
  <2>2. file'.value = ToPersisted(desired[c])
    BY <1>4, <1>t DEF Commit, SaveCommit, TypeOK, DaemonTypeOK
  <2>3. ToPersisted(desired[c]) # None
    BY <2>1, PersistedType, ValueAssumption
  <2>4. Recovered' = desired[c]
    BY <2>1, <2>2, <2>3, PersistRoundTrip DEF Recovered, Load
  <2> QED
    BY <1>4, <1>u, <2>4 DEF Commit, SaveCommit
<1>5. ASSUME NEW c \in Clients, Fail(c) PROVE DownIsEmpty' /\ LoneSave'
  BY <1>5, <1>u DEF Fail, SaveFail
<1>6. CASE Crash
  BY <1>6 DEF Crash, DaemonCrash
<1>7. CASE Restart
  BY <1>7 DEF Restart, DaemonRestart, history, Recovered
<1>8. CASE Exhausted \/ UNCHANGED vars
  BY <1>8 DEF Exhausted, vars, daemonVars, history, Recovered
<1> QED
  BY <1>1, <1>2, <1>3, <1>4, <1>5, <1>6, <1>7, <1>8 DEF Next, ClientStep

----
\* The state, the file and the history always have their types.
THEOREM TypeCorrect == Spec => []TypeOK
<1> QED
  BY InitIInv, NextIInv, PTL DEF Spec, IInv

\* However many callers overlap, fail, crash and restart, the file never goes
\* back behind what it held when no save was in flight.
THEOREM NoRollback == Spec => []NoRollbackPastSettled
<1> QED
  BY InitIInv, NextIInv, PTL DEF Spec, IInv

\* Whatever failed, overlapped or crashed before, one call that overlaps no other
\* save and whose save succeeds leaves the file in the in-memory state.
THEOREM LoneSaveDurable == Spec => []LoneSaveIsDurable
<1>1. Init => IInv /\ DownIsEmpty /\ LoneSave
  BY InitIInv, InitLone
<1>2. IInv /\ DownIsEmpty /\ LoneSave /\ [Next]_vars
        => (IInv /\ DownIsEmpty /\ LoneSave)'
  BY NextIInv, NextLone
<1>3. LoneSave => LoneSaveIsDurable
  BY DEF LoneSave, LoneSaveIsDurable, Quiescent
<1> QED
  BY <1>1, <1>2, <1>3, PTL DEF Spec
====
