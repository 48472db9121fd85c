---- MODULE StoreOrder ----
(***************************************************************************)
(* AlarmDaemon with history: every change of the in-memory state gets a    *)
(* version, and the model remembers which version each pending save        *)
(* carries, which one the file holds, and which one it held when the last  *)
(* caller left transition_to.  The history variables never guard a step.   *)
(***************************************************************************)
EXTENDS AlarmDaemon, FiniteSets

CONSTANTS MaxChanges,   \* bound: state changes in one behaviour
          MaxCrashes    \* bound: process deaths in one behaviour

ASSUME BoundsAssumption == MaxChanges \in Nat /\ MaxCrashes \in Nat

VARIABLES version,      \* number of state changes so far
          snap,         \* version of the snapshot each caller is saving
          saved,        \* version the file holds
          settled,      \* version the file held when transition_to was last empty
          saveFailed,   \* the last save attempt failed
          overlapped,   \* the last change was made while another save was in flight
          crashes       \* process deaths so far

history == <<version, snap, saved, settled, saveFailed, overlapped, crashes>>

vars == <<daemonVars, history>>

\* Nobody is between its swap and the end of its save.
Quiescent == \A c \in Clients : phase[c] # "save"

Init ==
  /\ DaemonInit
  /\ version = 0
  /\ snap = [c \in Clients |-> 0]
  /\ saved = 0
  /\ settled = 0
  /\ saveFailed = FALSE
  /\ overlapped = FALSE
  /\ crashes = 0

\* Once no save is in flight, what the file holds is settled.
Settle == settled' = IF Quiescent' THEN saved' ELSE settled

\* Every call that is let in may change the state once.
Budget == version + Cardinality({c \in Clients : phase[c] = "swap"}) < MaxChanges

Request(c) ==
  /\ Budget
  /\ \/ CallTransition(c, Disarmed)
     \/ \E s \in Sounds, f \in Fires : CallTransition(c, Armed(s, f))
  /\ UNCHANGED history

NoChange(c) == SwapNoChange(c) /\ UNCHANGED history

Change(c) ==
  /\ SwapChanged(c)
  /\ version' = version + 1
  /\ snap' = [snap EXCEPT ![c] = version + 1]
  /\ overlapped' = \E d \in Clients : phase[d] = "save"
  /\ UNCHANGED <<saved, settled, saveFailed, crashes>>

Create(c) == CreateDb(c) /\ UNCHANGED history

Commit(c) ==
  /\ SaveCommit(c)
  /\ saved' = snap[c]
  /\ saveFailed' = FALSE
  /\ UNCHANGED <<version, snap, overlapped, crashes>>
  /\ Settle

Fail(c) ==
  /\ SaveFail(c)
  /\ saveFailed' = TRUE
  /\ UNCHANGED <<version, snap, saved, overlapped, crashes>>
  /\ Settle

Return(c) == ReturnTransition(c) /\ UNCHANGED history

Crash ==
  /\ crashes < MaxCrashes
  /\ DaemonCrash
  /\ crashes' = crashes + 1
  /\ saveFailed' = FALSE
  /\ overlapped' = FALSE
  /\ settled' = saved
  /\ UNCHANGED <<version, snap, saved>>

Restart == DaemonRestart /\ UNCHANGED history

ClientStep(c) ==
  \/ Request(c) \/ NoChange(c) \/ Change(c) \/ Create(c)
  \/ Commit(c) \/ Fail(c) \/ Return(c)

\* The bound is used up and every call has returned.
Exhausted ==
  /\ up /\ ~Budget
  /\ \A c \in Clients : phase[c] = "out"
  /\ UNCHANGED vars

Next == (\E c \in Clients : ClientStep(c)) \/ Crash \/ Restart \/ Exhausted

Spec == Init /\ [][Next]_vars

----
TypeOK ==
  /\ DaemonTypeOK
  /\ version \in Nat
  /\ snap \in [Clients -> Nat]
  /\ saved \in Nat
  /\ settled \in Nat
  /\ saveFailed \in BOOLEAN
  /\ overlapped \in BOOLEAN
  /\ crashes \in Nat

\* Saves of overlapping calls may commit in either order, but never past a
\* moment at which no save was in flight: the file is never rolled back behind
\* what it held then, whatever fails, crashes or restarts in between.  This is
\* what awaiting the blocking save inside transition_to buys.
NoRollbackPastSettled == saved >= settled

\* When no save is in flight, the last one did not fail and the last change was
\* not made under another save, a restart would recover exactly the in-memory
\* state: one lone call repairs whatever failed or overlapping saves left behind
\* ("the next transition will retry the write").
LoneSaveIsDurable ==
  (up /\ Quiescent /\ ~saveFailed /\ ~overlapped) => Recovered = inner

\* The same for overlapping calls too: no save is in flight and none failed, so
\* every acknowledged transition is in the file (REQUIREMENTS FR-9.2).
SettledIsDurable == (up /\ Quiescent /\ ~saveFailed) => Recovered = inner
====
