---- MODULE Watchdog_proofs ----
(***************************************************************************)
(* Proofs about Watchdog for any number of worker threads, any load and    *)
(* any time-outs that satisfy LoadAssumption.                              *)
(***************************************************************************)
EXTENDS Watchdog, TLAPS

Period == PingPeriodFor(WatchdogSec)

\* How long the workers may be kept from what is ready.
MaxDelay == MaxBlock * (1 + MaxLoad)

\* How long they may still be kept from it by tasks that have not begun: those that
\* wait, and those that may yet be asked for.
ToCome == MaxBlock * (waiting + MaxLoad - asked)

Healthy == proc = "up" /\ stuck = {}

\* The ping task exists from READY on, and is ready only when it is due.
PingIsDue ==
  /\ proc = "starting" => ~ping /\ deadline = None
  /\ (ping /\ deadline # None) => deadline <= 0

\* The ping task waits for its first run.
FirstRun ==
  (Healthy /\ deadline = None) =>
    ping /\ \A w \in Workers : since + busy[w] + ToCome <= MaxDelay

Ahead == IF deadline > 0 THEN deadline ELSE 0

\* A ping was sent, or READY; once the next is due, each tick is spent by a worker
\* in a task.
InTime ==
  (Healthy /\ deadline # None /\ ~lost) =>
    \A w \in Workers : since + Ahead + busy[w] + ToCome <= Period + MaxDelay

\* Nobody has noticed SIGTERM: each tick was spent in a task.
Unnoticed ==
  (proc = "stopping" /\ stuck = {}) =>
    \A w \in Workers : timer + busy[w] + ToCome <= MaxDelay

\* How long run has been joining the audio thread, at most.
Joining == IF audio = None THEN 0 ELSE MaxBuild - audio

Closing ==
  (proc = "closing" /\ stuck = {}) =>
    \A w \in Workers : timer + busy[w] + ToCome <= MaxDelay + Joining

\* The audio thread delays the others, if run joined it, or is itself the last.
Joined == IF audio = None THEN 0 ELSE MaxBuild

Leaving ==
  (proc = "leaving" /\ stuck = {}) =>
    /\ \A w \in Workers : busy[w] > 0 => timer + busy[w] <= MaxDelay + Joined
    /\ timer + saving <= MaxDelay + MaxSave + Joined
    /\ audio # None => timer + audio <= MaxDelay + MaxSave + MaxBuild

IInv ==
  TypeOK /\ PingIsDue /\ FirstRun /\ InTime /\ Unnoticed /\ Closing /\ Leaving

----
(* The numbers *)

LEMMA Parameters ==
  /\ MaxBlock \in Nat /\ MaxLoad \in Nat /\ MaxSave \in Nat /\ MaxBuild \in Nat /\ MaxLate \in Nat
  /\ WatchdogSec \in Nat /\ WatchdogSec > 1 /\ TimeoutStopSec \in Nat
  /\ None \notin Int
  /\ MaxDelay \in Nat /\ Period \in Nat \ {0}
  /\ Period + MaxDelay < WatchdogSec
  /\ MaxDelay + MaxSave + MaxBuild < TimeoutStopSec
<1>1. /\ MaxBlock \in Nat /\ MaxLoad \in Nat /\ MaxSave \in Nat /\ MaxBuild \in Nat /\ MaxLate \in Nat
      /\ WatchdogSec \in Nat /\ WatchdogSec > 1 /\ TimeoutStopSec \in Nat
      /\ None \notin Int
      /\ MaxDelay < WatchdogSec - WatchdogSec \div 2
      /\ MaxDelay + MaxSave + MaxBuild < TimeoutStopSec
  BY LoadAssumption DEF MaxDelay
<1>2. MaxDelay \in Nat
  BY <1>1 DEF MaxDelay
<1>3. Period = WatchdogSec \div 2
  BY <1>1 DEF Period, PingPeriodFor
<1>4. Period \in Nat \ {0} /\ Period + MaxDelay < WatchdogSec
  BY <1>1, <1>2, <1>3
<1> QED
  BY <1>1, <1>2, <1>4

\* The bounds alone.
LEMMA Bounds == MaxBlock \in Nat /\ MaxLoad \in Nat
BY Parameters

\* Facts of arithmetic.
LEMMA DiffType ==
  ASSUME NEW a \in Nat, NEW b \in Nat, NEW m \in Nat, b <= m
  PROVE  a + m - b \in Nat
OBVIOUS

LEMMA AddMono ==
  ASSUME NEW d \in Nat, NEW b \in Nat, NEW t \in Nat, d <= b
  PROVE  d + t <= 0 + (t + b)
OBVIOUS

\* What the tasks to come amount to.
LEMMA ToComeFacts ==
  ASSUME TypeOK
  PROVE  /\ waiting \in Nat /\ asked \in Nat /\ waiting + MaxLoad - asked \in Nat
         /\ ToCome \in Nat
<1>1. waiting \in Nat /\ asked \in Nat /\ waiting + MaxLoad - asked \in Nat
  BY Parameters DEF TypeOK
<1> QED
  BY <1>1, Parameters DEF ToCome

\* Right after a ping, when nothing counts yet.
LEMMA ToComeAll ==
  ASSUME NEW n \in 0..MaxBlock
  PROVE  n + MaxBlock * MaxLoad <= MaxDelay /\ MaxBlock * MaxLoad \in Nat
<1>1. MaxBlock * (1 + MaxLoad) = MaxBlock + MaxBlock * MaxLoad
  BY Parameters
<1>2. MaxBlock * MaxLoad \in Nat
  BY Parameters
<1> QED
  BY <1>1, <1>2, Parameters DEF MaxDelay

\* A worker's block is a number.
LEMMA BusyType ==
  ASSUME TypeOK, NEW w \in Workers
  PROVE  busy[w] \in Nat /\ busy[w] <= MaxBlock
BY Parameters DEF TypeOK

\* The other parts of the state.
LEMMA Numbers ==
  ASSUME TypeOK
  PROVE  /\ since \in Nat /\ timer \in Nat /\ saving \in Nat /\ saving <= MaxSave
         /\ deadline # None => deadline \in Int /\ Ahead \in Nat
         /\ audio # None => audio \in Nat /\ audio <= MaxBuild
         /\ Joining \in Nat /\ Joined \in Nat /\ Joining <= Joined /\ Joined <= MaxBuild
<1>1. /\ since \in Nat /\ timer \in Nat /\ saving \in Nat /\ saving <= MaxSave
      /\ deadline # None => deadline \in Int
      /\ audio # None => audio \in Nat /\ audio <= MaxBuild
  BY Parameters DEF TypeOK
<1>2. deadline # None => Ahead \in Nat
  BY <1>1 DEF Ahead
<1>3. Joining \in Nat /\ Joined \in Nat /\ Joining <= Joined /\ Joined <= MaxBuild
  BY <1>1, Parameters DEF Joining, Joined
<1> QED
  BY <1>1, <1>2, <1>3

----
(* The steps *)

\* A process that is gone, or new.
LEMMA FreshInv ==
  ASSUME NEW st \in {"dead", "exited", "starting"}, Fresh(st)
  PROVE  IInv'
<1>0. /\ proc' = st /\ waiting' = 0 /\ asked' = 0 /\ ping' = FALSE
      /\ busy' = [w \in Workers |-> 0] /\ stuck' = {} /\ saving' = 0 /\ audio' = None
      /\ deadline' = None /\ since' = 0 /\ timer' = 0 /\ lost' = FALSE
  BY DEF Fresh
<1>1. TypeOK'
  <2>1. /\ waiting' \in 0..asked' /\ asked' \in 0..MaxLoad /\ saving' \in 0..MaxSave
        /\ busy' \in [Workers -> 0..MaxBlock] /\ {since', timer'} \subseteq Nat
    BY <1>0, Parameters
  <2>2. lost' \in BOOLEAN /\ ping' \in BOOLEAN
    BY <1>0, Zenon
  <2>3. proc' \in Procs
    BY <1>0 DEF Procs
  <2> QED
    BY <1>0, <2>1, <2>2, <2>3 DEF TypeOK
<1> QED
  BY <1>0, <1>1 DEF IInv, PingIsDue, FirstRun, InTime, Unnoticed, Closing, Leaving, Healthy

\* The first state is that of a new process.
LEMMA InitInv == Init => IInv
<1> SUFFICES ASSUME Init PROVE IInv
  OBVIOUS
<1>0. /\ proc = "starting" /\ waiting = 0 /\ asked = 0 /\ ping = FALSE
      /\ busy = [w \in Workers |-> 0] /\ stuck = {} /\ saving = 0 /\ audio = None
      /\ deadline = None /\ since = 0 /\ timer = 0 /\ lost = FALSE
  BY DEF Init
<1>1. TypeOK
  <2>1. /\ waiting \in 0..asked /\ asked \in 0..MaxLoad /\ saving \in 0..MaxSave
        /\ busy \in [Workers -> 0..MaxBlock] /\ {since, timer} \subseteq Nat
    BY <1>0, Parameters
  <2>2. lost \in BOOLEAN /\ ping \in BOOLEAN
    BY <1>0, Zenon
  <2>3. proc \in Procs
    BY <1>0 DEF Procs
  <2> QED
    BY <1>0, <2>1, <2>2, <2>3 DEF TypeOK
<1> QED
  BY <1>0, <1>1 DEF IInv, PingIsDue, FirstRun, InTime, Unnoticed, Closing, Leaving, Healthy

\* Nothing counts yet after READY and SIGTERM.
LEMMA CountStarts ==
  ASSUME TypeOK, asked' = waiting, waiting' = waiting
  PROVE  /\ waiting' \in 0..asked' /\ asked' \in 0..MaxLoad
         /\ \A w \in Workers : 0 + busy[w] + ToCome' <= MaxDelay
<1>1. waiting \in Nat /\ asked \in Nat /\ waiting <= asked /\ asked <= MaxLoad
  BY Parameters DEF TypeOK
<1>2. waiting' + MaxLoad - asked' = MaxLoad
  BY <1>1, Parameters
<1>3. ToCome' = MaxBlock * MaxLoad
  BY <1>2 DEF ToCome
<1>4. ASSUME NEW w \in Workers PROVE 0 + busy[w] + ToCome' <= MaxDelay
  <2>1. busy[w] \in 0..MaxBlock /\ busy[w] \in Nat
    BY Parameters DEF TypeOK
  <2>2. busy[w] + MaxBlock * MaxLoad <= MaxDelay
    BY <2>1, ToComeAll
  <2> QED
    BY <1>3, <2>1, <2>2
<1> QED
  BY <1>1, <1>4, Parameters

\* READY=1: the ping task waits for its first run.
LEMMA ReadyInv ==
  ASSUME IInv, Ready
  PROVE  IInv'
<1> USE DEF IInv
<1>0. /\ proc = "starting" /\ proc' = "up" /\ since' = 0 /\ ping' = TRUE
      /\ asked' = waiting
      /\ UNCHANGED <<waiting, busy, stuck, saving, audio, deadline, timer, lost>>
  BY DEF Ready
<1>1. /\ waiting' \in 0..asked' /\ asked' \in 0..MaxLoad
      /\ \A w \in Workers : 0 + busy[w] + ToCome' <= MaxDelay
  BY <1>0, CountStarts
<1>2. TypeOK'
  <2>1. ping' \in BOOLEAN
    BY <1>0, Zenon
  <2> QED
    BY <1>0, <1>1, <2>1 DEF TypeOK, Procs
<1>3. deadline' = None
  BY <1>0 DEF PingIsDue
<1>4. FirstRun'
  BY <1>0, <1>1 DEF FirstRun
<1> QED
  BY <1>0, <1>2, <1>3, <1>4 DEF PingIsDue, InTime, Unnoticed, Closing, Leaving, Healthy

\* SIGTERM arrives.
LEMMA SigtermInv ==
  ASSUME IInv, Sigterm
  PROVE  IInv'
<1> USE DEF IInv
<1>0. /\ proc' = "stopping" /\ timer' = 0 /\ since' = 0 /\ asked' = waiting
      /\ UNCHANGED <<waiting, ping, busy, stuck, saving, audio, deadline, lost>>
  BY DEF Sigterm
<1>1. /\ waiting' \in 0..asked' /\ asked' \in 0..MaxLoad
      /\ \A w \in Workers : 0 + busy[w] + ToCome' <= MaxDelay
  BY <1>0, CountStarts
<1>2. TypeOK'
  BY <1>0, <1>1 DEF TypeOK, Procs, Stopped
<1>3. Unnoticed'
  BY <1>0, <1>1 DEF Unnoticed
<1> QED
  BY <1>0, <1>2, <1>3 DEF PingIsDue, FirstRun, InTime, Closing, Leaving, Healthy

\* One task more that waits, one fewer to be asked for.
LEMMA RequestInv ==
  ASSUME IInv, Request
  PROVE  IInv'
<1> USE DEF IInv
<1>0. /\ Running /\ asked < MaxLoad /\ asked' = asked + 1 /\ waiting' = waiting + 1
      /\ UNCHANGED <<proc, ping, busy, stuck, saving, audio, deadline, since, timer, lost>>
  BY DEF Request, clocks
<1>1. waiting \in Nat /\ asked \in Nat /\ waiting <= asked
  BY Parameters DEF TypeOK
<1>2. waiting' \in 0..asked' /\ asked' \in 0..MaxLoad
      /\ waiting' + MaxLoad - asked' = waiting + MaxLoad - asked
  BY <1>0, <1>1, Parameters
<1>3. ToCome' = ToCome
  BY <1>2 DEF ToCome
<1>4. TypeOK'
  BY <1>0, <1>2 DEF TypeOK
<1>5. Ahead' = Ahead /\ Joining' = Joining /\ Joined' = Joined
  BY <1>0 DEF Ahead, Joining, Joined
<1> QED
  BY <1>0, <1>3, <1>4, <1>5
  DEF PingIsDue, FirstRun, InTime, Unnoticed, Closing, Leaving, Healthy

\* A worker takes a task: what it is blocked for was to come.
LEMMA WorkInv ==
  ASSUME IInv, NEW w \in Workers, Work(w)
  PROVE  IInv'
<1> USE DEF IInv
<1>0. /\ Running /\ Idle(w) /\ waiting > 0 /\ waiting' = waiting - 1
      /\ UNCHANGED <<proc, asked, ping, stuck, saving, audio, deadline, since, timer, lost>>
  BY DEF Work, Take, clocks
<1>1. PICK d \in 0..MaxBlock : busy' = [busy EXCEPT ![w] = d]
  BY DEF Work
<1>2. waiting \in Nat /\ asked \in Nat /\ waiting <= asked /\ asked <= MaxLoad
  BY Parameters DEF TypeOK
<1>3. waiting' \in 0..asked' /\ asked' \in 0..MaxLoad
  BY <1>0, <1>2, Parameters
<1>4. TypeOK'
  BY <1>0, <1>1, <1>3 DEF TypeOK
<1>5. ToCome = ToCome' + MaxBlock /\ ToCome' \in Nat
  <2> DEFINE n == waiting' + MaxLoad - asked'
  <2>1. n \in Nat /\ waiting + MaxLoad - asked = n + 1
    BY <1>0, <1>2, Parameters
  <2> HIDE DEF n
  <2>2. MaxBlock * (n + 1) = MaxBlock * n + MaxBlock /\ MaxBlock * n \in Nat
    BY <2>1, Parameters
  <2> QED
    BY <2>1, <2>2 DEF ToCome, n
<1>6. ASSUME NEW v \in Workers
      PROVE  /\ busy'[v] \in Nat /\ busy[v] \in Nat
             /\ busy'[v] + ToCome' <= busy[v] + ToCome
  <2>1. busy'[v] \in Nat /\ busy[v] \in Nat
    BY <1>4, BusyType, Parameters DEF TypeOK
  <2>2. CASE v = w
    <3>1. busy'[v] = d /\ busy[v] = 0 /\ d \in Nat /\ d <= MaxBlock
      BY <1>0, <1>1, <2>2, Parameters DEF Idle, TypeOK
    <3>2. d + ToCome' <= 0 + (ToCome' + MaxBlock)
      BY <1>5, <3>1, Bounds, AddMono
    <3> QED
      BY <1>5, <3>1, <3>2
  <2>3. CASE v # w
    <3>1. busy'[v] = busy[v]
      BY <1>1, <2>3 DEF TypeOK
    <3> QED
      BY <1>5, <2>1, <3>1, Parameters
  <2> QED
    BY <2>1, <2>2, <2>3
<1>7. /\ since \in Nat /\ timer \in Nat /\ Joining \in Nat
      /\ deadline # None => Ahead \in Nat
  BY Numbers
<1>8. Ahead' = Ahead /\ Joining' = Joining
  BY <1>0 DEF Ahead, Joining
<1>9. ToCome \in Nat /\ MaxDelay \in Nat /\ Period \in Nat
  BY ToComeFacts, Parameters
<1>10. ASSUME NEW x \in Nat, NEW y \in Nat, NEW v \in Workers, x + busy[v] + ToCome <= y
       PROVE  x + busy'[v] + ToCome' <= y
  BY <1>5, <1>6, <1>9, <1>10
<1>11. FirstRun'
  BY <1>0, <1>7, <1>9, <1>10 DEF FirstRun, Healthy
<1>12. InTime'
  <2> SUFFICES ASSUME Healthy, deadline # None, ~lost, NEW v \in Workers
               PROVE  since + Ahead + busy'[v] + ToCome' <= Period + MaxDelay
    BY <1>0, <1>8 DEF InTime, Healthy
  <2>1. since + Ahead + busy[v] + ToCome <= Period + MaxDelay
    BY DEF InTime
  <2>2. since + Ahead \in Nat /\ Period + MaxDelay \in Nat
    BY <1>7, <1>9
  <2> QED
    BY <1>10, <2>1, <2>2
<1>13. Unnoticed'
  BY <1>0, <1>7, <1>9, <1>10 DEF Unnoticed
<1>14. Closing'
  <2> SUFFICES ASSUME proc = "closing", stuck = {}, NEW v \in Workers
               PROVE  timer + busy'[v] + ToCome' <= MaxDelay + Joining
    BY <1>0, <1>8 DEF Closing
  <2>1. timer + busy[v] + ToCome <= MaxDelay + Joining /\ MaxDelay + Joining \in Nat
    BY <1>7, <1>9 DEF Closing
  <2> QED
    BY <1>7, <1>10, <2>1
<1>15. Leaving'
  BY <1>0 DEF Leaving, Running
<1> QED
  BY <1>0, <1>4, <1>11, <1>12, <1>13, <1>14, <1>15 DEF PingIsDue

\* A worker that is lost takes its process out of all promises.
LEMMA StallInv ==
  ASSUME IInv, NEW w \in Workers, Stall(w)
  PROVE  IInv'
<1> USE DEF IInv
<1>0. /\ waiting > 0 /\ waiting' = waiting - 1 /\ stuck' = stuck \cup {w}
      /\ UNCHANGED <<proc, asked, ping, busy, saving, audio, deadline, since, timer, lost>>
  BY DEF Stall, Take, clocks
<1>1. waiting' \in 0..asked'
  BY <1>0, Parameters DEF TypeOK
<1>2. TypeOK'
  BY <1>0, <1>1 DEF TypeOK
<1>3. stuck' # {}
  BY <1>0
<1> QED
  BY <1>0, <1>2, <1>3 DEF PingIsDue, FirstRun, InTime, Unnoticed, Closing, Leaving, Healthy

\* A save begins.
LEMMA SaveInv ==
  ASSUME IInv, Save
  PROVE  IInv'
<1> USE DEF IInv
<1>0. /\ Running \/ (proc = "leaving" /\ \E w \in Workers : busy[w] > 0)
      /\ saving' \in (saving + 1)..MaxSave
      /\ UNCHANGED <<proc, waiting, asked, ping, busy, stuck, audio, deadline, since, timer, lost>>
  BY DEF Save, tasks, clocks
<1>1. saving' \in 0..MaxSave /\ saving' \in Nat /\ saving' <= MaxSave
  BY <1>0, Numbers, Parameters
<1>2. TypeOK'
  BY <1>0, <1>1 DEF TypeOK
<1>3. ToCome' = ToCome /\ Ahead' = Ahead /\ Joining' = Joining /\ Joined' = Joined
  BY <1>0 DEF ToCome, Ahead, Joining, Joined
<1>4. Leaving'
  <2> SUFFICES ASSUME proc = "leaving", stuck = {}
               PROVE  timer + saving' <= MaxDelay + MaxSave + Joined
    BY <1>0, <1>3 DEF Leaving
  <2>1. PICK w \in Workers : busy[w] > 0
    BY <1>0 DEF Running
  <2>2. timer + busy[w] <= MaxDelay + Joined /\ busy[w] \in Nat
    BY <2>1, BusyType DEF Leaving
  <2> QED
    BY <1>1, <2>2, Numbers, Parameters
<1> QED
  BY <1>0, <1>2, <1>3, <1>4 DEF PingIsDue, FirstRun, InTime, Unnoticed, Closing, Healthy

\* The ping task runs for the first time.
LEMMA StartIntervalInv ==
  ASSUME IInv, NEW w \in Workers, StartInterval(w)
  PROVE  IInv'
<1> USE DEF IInv
<1>0. /\ ping /\ ping' = FALSE /\ deadline = None /\ deadline' = Period /\ Running
      /\ UNCHANGED <<proc, waiting, asked, busy, stuck, saving, audio, since, timer, lost>>
  BY DEF StartInterval, Period
<1>1. Period \in Nat \ {0} /\ Period \in Int /\ Period # None
  BY Parameters
<1>2. TypeOK'
  <2>1. ping' \in BOOLEAN
    BY <1>0, Zenon
  <2> QED
    BY <1>0, <1>1, <2>1 DEF TypeOK
<1>3. ToCome' = ToCome /\ Joining' = Joining /\ Joined' = Joined /\ Ahead' = Period
  BY <1>0, <1>1 DEF ToCome, Ahead, Joining, Joined
<1>4. InTime'
  <2> SUFFICES ASSUME Healthy, NEW v \in Workers
               PROVE  since + Period + busy[v] + ToCome <= Period + MaxDelay
    BY <1>0, <1>3 DEF InTime, Healthy
  <2>1. since + busy[v] + ToCome <= MaxDelay
    BY <1>0 DEF FirstRun
  <2> QED
    BY <1>1, <2>1, Numbers, BusyType, ToComeFacts, Parameters
<1> QED
  BY <1>0, <1>1, <1>2, <1>3, <1>4
  DEF PingIsDue, FirstRun, Unnoticed, Closing, Leaving, Healthy

\* A ping is sent: the count starts again.
LEMMA PingInv ==
  ASSUME IInv, NEW w \in Workers, Ping(w)
  PROVE  IInv'
<1> USE DEF IInv
<1>0. /\ ping /\ ping' = FALSE /\ deadline # None /\ deadline' = deadline + Period /\ Running
      /\ asked' = (IF proc = "up" THEN waiting ELSE asked)
      /\ UNCHANGED <<proc, waiting, busy, stuck, saving, audio, timer>>
      /\ (since' = 0 /\ lost' = lost) \/ (lost' = TRUE /\ since' = since)
  BY DEF Ping, Period
<1>1. deadline \in Int /\ deadline <= 0
  BY <1>0, Numbers DEF PingIsDue
<1>2. deadline' \in Int /\ deadline' # None /\ deadline' <= Period
  BY <1>0, <1>1, Parameters
<1>3. waiting' \in 0..asked' /\ asked' \in 0..MaxLoad
  <2>1. CASE proc = "up"
    BY <1>0, <2>1, CountStarts
  <2>2. CASE proc # "up"
    BY <1>0, <2>2 DEF TypeOK
  <2> QED
    BY <2>1, <2>2
<1>4. TypeOK'
  <2>1. ping' \in BOOLEAN /\ lost' \in BOOLEAN
    <3>1. lost \in BOOLEAN
      BY DEF TypeOK
    <3> QED
      BY <1>0, <3>1, Zenon
  <2>2. since' \in Nat
    BY <1>0, Numbers
  <2> QED
    BY <1>0, <1>2, <1>3, <2>1, <2>2 DEF TypeOK
<1>5. Joining' = Joining /\ Joined' = Joined /\ (proc # "up" => ToCome' = ToCome)
  BY <1>0 DEF ToCome, Joining, Joined
<1>6. InTime'
  <2> SUFFICES ASSUME proc = "up", since' = 0, NEW v \in Workers
               PROVE  0 + Ahead' + busy[v] + ToCome' <= Period + MaxDelay
    BY <1>0 DEF InTime, Healthy
  <2>1. 0 + busy[v] + ToCome' <= MaxDelay
    BY <1>0, CountStarts
  <2>2. ToCome' \in Nat
    <3>1. waiting' \in Nat /\ asked' \in Nat /\ asked' <= MaxLoad
      BY <1>3, Parameters
    <3>2. waiting' + MaxLoad - asked' \in Nat
      BY <3>1, Bounds, DiffType
    <3> QED
      BY <3>2, Bounds DEF ToCome
  <2>3. Ahead' \in Nat /\ Ahead' <= Period
    BY <1>2, Parameters DEF Ahead
  <2> QED
    BY <2>1, <2>2, <2>3, BusyType, Parameters
<1> QED
  BY <1>0, <1>2, <1>4, <1>5, <1>6
  DEF PingIsDue, FirstRun, Unnoticed, Closing, Leaving, Healthy

\* A look at the timers.
LEMMA DueInv ==
  ASSUME IInv, NEW w \in Workers, Due(w)
  PROVE  IInv'
<1> USE DEF IInv
<1>0. /\ ping' = TRUE /\ deadline # None /\ deadline <= 0 /\ Running
      /\ UNCHANGED <<proc, waiting, asked, busy, stuck, saving, audio, deadline, since, timer, lost>>
  BY DEF Due, PingDue, clocks
<1>1. TypeOK'
  <2>1. ping' \in BOOLEAN
    BY <1>0, Zenon
  <2> QED
    BY <1>0, <2>1 DEF TypeOK
<1>2. ToCome' = ToCome /\ Ahead' = Ahead /\ Joining' = Joining /\ Joined' = Joined
  BY <1>0 DEF ToCome, Ahead, Joining, Joined
<1> QED
  BY <1>0, <1>1, <1>2
  DEF PingIsDue, FirstRun, InTime, Unnoticed, Closing, Leaving, Healthy

\* A look at the signals.
LEMMA LeaveInv ==
  ASSUME IInv, NEW w \in Workers, Leave(w)
  PROVE  IInv'
<1> USE DEF IInv
<1>0. /\ proc = "stopping" /\ proc' = "closing"
      /\ UNCHANGED <<waiting, asked, ping, busy, stuck, saving, audio, deadline, since, timer, lost>>
  BY DEF Leave, SignalDue, tasks, clocks
<1>1. TypeOK'
  BY <1>0 DEF TypeOK, Procs, Stopped
<1>2. ToCome' = ToCome /\ Joining' = Joining
  BY <1>0 DEF ToCome, Joining
<1>3. Closing'
  <2> SUFFICES ASSUME stuck = {}, NEW v \in Workers
               PROVE  timer + busy[v] + ToCome <= MaxDelay + Joining
    BY <1>0, <1>2 DEF Closing
  <2>1. timer + busy[v] + ToCome <= MaxDelay
    BY <1>0 DEF Unnoticed
  <2> QED
    BY <2>1, Numbers, BusyType, ToComeFacts, Parameters
<1> QED
  BY <1>0, <1>1, <1>3 DEF PingIsDue, FirstRun, InTime, Unnoticed, Leaving, Healthy

\* The audio thread is told to end.
LEMMA DropPlayerInv ==
  ASSUME IInv, DropPlayer
  PROVE  IInv'
<1> USE DEF IInv
<1>0. /\ proc \in {"closing", "leaving"} /\ audio = None /\ audio' \in 0..MaxBuild
      /\ UNCHANGED <<proc, waiting, asked, ping, busy, stuck, saving, deadline, since, timer, lost>>
  BY DEF DropPlayer, tasks, clocks
<1>1. TypeOK'
  BY <1>0 DEF TypeOK
<1>2. /\ audio' \in Nat /\ audio' <= MaxBuild /\ audio' # None
      /\ Joining = 0 /\ Joined = 0 /\ Joining' = MaxBuild - audio' /\ Joined' = MaxBuild
  <2>1. audio' \in Nat /\ audio' <= MaxBuild /\ audio' \in Int
    BY <1>0, Parameters
  <2>2. audio' # None
    BY <2>1, Parameters
  <2> QED
    BY <1>0, <2>1, <2>2 DEF Joining, Joined
<1>3. ToCome' = ToCome
  BY <1>0 DEF ToCome
<1>4. Closing'
  <2> SUFFICES ASSUME proc = "closing", stuck = {}, NEW v \in Workers
               PROVE  timer + busy[v] + ToCome <= MaxDelay + (MaxBuild - audio')
    BY <1>0, <1>2, <1>3 DEF Closing
  <2>1. timer + busy[v] + ToCome <= MaxDelay + 0
    BY <1>2 DEF Closing
  <2> QED
    BY <1>2, <2>1, Numbers, BusyType, ToComeFacts, Parameters
<1>5. Leaving'
  <2> SUFFICES ASSUME proc = "leaving", stuck = {}
               PROVE  /\ \A w \in Workers : busy[w] > 0 => timer + busy[w] <= MaxDelay + MaxBuild
                      /\ timer + saving <= MaxDelay + MaxSave + MaxBuild
                      /\ timer + audio' <= MaxDelay + MaxSave + MaxBuild
    BY <1>0, <1>2 DEF Leaving
  <2>1. timer + saving <= MaxDelay + MaxSave + 0
    BY <1>2 DEF Leaving
  <2>2. timer + saving <= MaxDelay + MaxSave + MaxBuild /\ timer + audio' <= MaxDelay + MaxSave + MaxBuild
    BY <1>2, <2>1, Numbers, Parameters
  <2>3. ASSUME NEW w \in Workers, busy[w] > 0 PROVE timer + busy[w] <= MaxDelay + MaxBuild
    <3>1. timer + busy[w] <= MaxDelay + 0
      BY <1>2, <2>3 DEF Leaving
    <3> QED
      BY <3>1, Numbers, BusyType, Parameters
  <2> QED
    BY <2>2, <2>3
<1> QED
  BY <1>0, <1>1, <1>4, <1>5 DEF PingIsDue, FirstRun, InTime, Unnoticed, Healthy

\* The tasks are dropped.
LEMMA DropRuntimeInv ==
  ASSUME IInv, DropRuntime
  PROVE  IInv'
<1> USE DEF IInv
<1>0. /\ proc = "closing" /\ audio \in {None, 0} /\ proc' = "leaving"
      /\ waiting' = 0 /\ ping' = FALSE /\ deadline' = None
      /\ UNCHANGED <<asked, busy, stuck, saving, audio, since, timer, lost>>
  BY DEF DropRuntime
<1>1. TypeOK'
  <2>1. ping' \in BOOLEAN
    BY <1>0, Zenon
  <2>2. waiting' \in 0..asked'
    BY <1>0, Parameters DEF TypeOK
  <2> QED
    BY <1>0, <2>1, <2>2 DEF TypeOK, Procs, Stopped
<1>2. Joined' = Joined
  BY <1>0 DEF Joined
<1>3. ASSUME stuck = {}, NEW w \in Workers
      PROVE  timer + busy[w] <= MaxDelay + Joined
  <2>1. timer + busy[w] + ToCome <= MaxDelay + Joining
    BY <1>0, <1>3 DEF Closing
  <2> QED
    BY <2>1, Numbers, BusyType, ToComeFacts, Parameters
<1>4. Leaving'
  <2> SUFFICES ASSUME stuck = {}
               PROVE  /\ \A w \in Workers : busy[w] > 0 => timer + busy[w] <= MaxDelay + Joined
                      /\ timer + saving <= MaxDelay + MaxSave + Joined
                      /\ audio # None => timer + audio <= MaxDelay + MaxSave + MaxBuild
    BY <1>0, <1>2 DEF Leaving
  <2>1. PICK w \in Workers : TRUE
    BY LoadAssumption
  <2>2. timer + busy[w] <= MaxDelay + Joined /\ busy[w] \in Nat
    BY <1>3, BusyType
  <2>3. timer + saving <= MaxDelay + MaxSave + Joined
    BY <2>2, Numbers, Parameters
  <2>4. audio # None => timer + audio <= MaxDelay + MaxSave + MaxBuild
    BY <1>0, <2>2, Numbers, Parameters
  <2> QED
    BY <1>3, <2>3, <2>4
<1> QED
  BY <1>0, <1>1, <1>4 DEF PingIsDue, FirstRun, InTime, Unnoticed, Closing, Healthy

\* Time passes: each tick is spent by somebody that something waits for.
LEMMA TickInv ==
  ASSUME IInv, Tick
  PROVE  IInv'
<1> USE DEF IInv
<1>0. /\ ~Urgent
      /\ busy' = [w \in Workers |-> Less(busy[w])] /\ saving' = Less(saving)
      /\ audio' = (IF audio = None THEN None ELSE Less(audio))
      /\ deadline' = Later
      /\ since' = (IF proc = "up" THEN since + 1 ELSE since)
      /\ timer' = (IF proc \in Stopped \cup {"dead"} THEN timer + 1 ELSE timer)
      /\ UNCHANGED <<proc, waiting, asked, ping, stuck, lost>>
  BY DEF Tick, tasks
<1>1. \A n \in Nat : /\ Less(n) \in Nat /\ Less(n) <= n
                     /\ n > 0 => Less(n) = n - 1
                     /\ ~(n > 0) => n = 0 /\ Less(n) = 0
  BY DEF Less
<1>2. ASSUME NEW w \in Workers
      PROVE  /\ busy[w] \in Nat /\ busy'[w] \in Nat /\ busy'[w] <= busy[w]
             /\ busy[w] > 0 => busy'[w] = busy[w] - 1
             /\ ~(busy[w] > 0) => busy[w] = 0 /\ busy'[w] = 0
  <2>1. busy[w] \in Nat /\ busy'[w] = Less(busy[w])
    BY <1>0, BusyType
  <2> QED
    BY <1>1, <2>1
<1>3. /\ since \in Nat /\ timer \in Nat /\ saving \in Nat /\ saving <= MaxSave
      /\ saving' = Less(saving) /\ saving' \in Nat /\ saving' <= saving
  BY <1>0, <1>1, Numbers
<1>4. /\ audio = None => audio' = None
      /\ audio # None => /\ audio' = Less(audio) /\ audio \in Nat /\ audio <= MaxBuild
                         /\ audio' \in Nat /\ audio' <= audio /\ audio' # None
  <2>1. audio # None => audio' = Less(audio) /\ audio \in Nat /\ audio <= MaxBuild
    BY <1>0, Numbers
  <2>2. audio # None => audio' \in Nat /\ audio' <= audio
    BY <1>1, <2>1
  <2>3. audio # None => audio' # None
    BY <2>2, Parameters
  <2> QED
    BY <1>0, <2>1, <2>2, <2>3
<1>5. /\ deadline = None => deadline' = None
      /\ deadline # None =>
           /\ deadline \in Int /\ deadline' \in Int /\ deadline' # None /\ deadline' <= deadline
           /\ deadline > 0 => deadline' = deadline - 1
  <2>1. deadline = None => deadline' = None
    BY <1>0 DEF Later
  <2>2. deadline # None => /\ deadline \in Int
                           /\ deadline' = IF deadline = -MaxLate THEN deadline ELSE deadline - 1
    BY <1>0, Numbers DEF Later
  <2>3. deadline # None => /\ deadline' \in Int /\ deadline' <= deadline
                           /\ deadline > 0 => deadline' = deadline - 1
    BY <2>2, Parameters
  <2> QED
    BY <2>1, <2>2, <2>3, Parameters
<1>6. TypeOK'
  <2>1. \A w \in Workers : busy'[w] \in 0..MaxBlock
    BY <1>2, BusyType, Parameters
  <2>2. busy' \in [Workers -> 0..MaxBlock]
    BY <1>0, <2>1
  <2>3. saving' \in 0..MaxSave /\ since' \in Nat /\ timer' \in Nat
    BY <1>0, <1>3, Parameters
  <2>4. audio' \in 0..MaxBuild \cup {None}
    BY <1>4, Parameters
  <2>5. deadline' \in Int \cup {None}
    BY <1>5
  <2> QED
    BY <1>0, <2>2, <2>3, <2>4, <2>5 DEF TypeOK
<1>7. ToCome' = ToCome /\ ToCome \in Nat
  BY <1>0, ToComeFacts DEF ToCome
<1>8. ASSUME stuck = {}, Running, waiting > 0 \/ ping \/ PingDue \/ SignalDue
      PROVE  \E v \in Workers : busy[v] > 0
  <2>1. PICK v \in Workers : ~Idle(v)
    BY <1>0, <1>8 DEF Urgent
  <2>2. busy[v] # 0
    BY <1>8, <2>1 DEF Idle
  <2> QED
    BY <1>2, <2>2
<1>9. ASSUME NEW x \in Nat, NEW y \in Nat, \E v \in Workers : busy[v] > 0,
             \A w \in Workers : x + busy[w] + ToCome <= y
      PROVE  \A w \in Workers : (x + 1) + busy'[w] + ToCome' <= y
  <2>1. PICK v \in Workers : busy[v] > 0
    BY <1>9
  <2>2. x + busy[v] + ToCome <= y /\ busy[v] \in Nat
    BY <1>2, <1>9
  <2> SUFFICES ASSUME NEW w \in Workers PROVE (x + 1) + busy'[w] + ToCome' <= y
    OBVIOUS
  <2>3. x + busy[w] + ToCome <= y
    BY <1>9
  <2> QED
    BY <1>2, <1>7, <2>1, <2>2, <2>3
<1>10. PingIsDue'
  <2>1. ping' = ping /\ proc' = proc
    BY <1>0
  <2>2. ASSUME ping, deadline' # None PROVE deadline' <= 0
    BY <1>5, <2>2 DEF PingIsDue
  <2> QED
    BY <1>5, <2>1, <2>2 DEF PingIsDue
<1>11. FirstRun'
  <2> SUFFICES ASSUME proc = "up", stuck = {}, deadline = None
               PROVE  ping /\ \A w \in Workers : (since + 1) + busy'[w] + ToCome' <= MaxDelay
    BY <1>0, <1>5 DEF FirstRun, Healthy
  <2>1. ping /\ \A w \in Workers : since + busy[w] + ToCome <= MaxDelay
    BY DEF FirstRun, Healthy
  <2>2. \E v \in Workers : busy[v] > 0
    BY <1>8, <2>1 DEF Running
  <2> QED
    BY <1>3, <1>9, <2>1, <2>2, Parameters
<1>12. InTime'
  <2> SUFFICES ASSUME proc = "up", stuck = {}, deadline # None, ~lost
               PROVE  \A w \in Workers :
                        (since + 1) + Ahead' + busy'[w] + ToCome' <= Period + MaxDelay
    BY <1>0, <1>5 DEF InTime, Healthy
  <2>1. \A w \in Workers : since + Ahead + busy[w] + ToCome <= Period + MaxDelay
    BY DEF InTime, Healthy
  <2>2. CASE deadline > 0
    <3>1. Ahead = deadline /\ Ahead' = deadline - 1
      BY <1>5, <2>2 DEF Ahead
    <3> SUFFICES ASSUME NEW w \in Workers
                 PROVE  (since + 1) + Ahead' + busy'[w] + ToCome' <= Period + MaxDelay
      OBVIOUS
    <3>2. since + Ahead + busy[w] + ToCome <= Period + MaxDelay
      BY <2>1
    <3> QED
      BY <1>2, <1>3, <1>5, <1>7, <3>1, <3>2, Parameters
  <2>3. CASE ~(deadline > 0)
    <3>1. Ahead = 0 /\ Ahead' = 0 /\ deadline <= 0
      BY <1>5, <2>3 DEF Ahead
    <3>2. ping \/ PingDue
      BY <3>1 DEF PingDue
    <3>3. \E v \in Workers : busy[v] > 0
      BY <1>8, <3>2 DEF Running
    <3>4. \A w \in Workers : since + busy[w] + ToCome <= Period + MaxDelay
      BY <1>2, <1>3, <1>7, <2>1, <3>1
    <3>5. \A w \in Workers : (since + 1) + busy'[w] + ToCome' <= Period + MaxDelay
      <4>1. Period + MaxDelay \in Nat
        BY Parameters
      <4> QED
        BY <1>3, <1>9, <3>3, <3>4, <4>1
    <3> QED
      BY <1>2, <1>3, <1>7, <3>1, <3>5
  <2> QED
    BY <2>2, <2>3
<1>13. Unnoticed'
  <2> SUFFICES ASSUME proc = "stopping", stuck = {}
               PROVE  \A w \in Workers : (timer + 1) + busy'[w] + ToCome' <= MaxDelay
    BY <1>0 DEF Unnoticed, Stopped
  <2>1. \A w \in Workers : timer + busy[w] + ToCome <= MaxDelay
    BY DEF Unnoticed
  <2>2. \E v \in Workers : busy[v] > 0
    BY <1>8 DEF Running, SignalDue
  <2> QED
    BY <1>3, <1>9, <2>1, <2>2, Parameters
<1>14. Closing'
  <2> SUFFICES ASSUME proc = "closing", stuck = {}, NEW w \in Workers
               PROVE  (timer + 1) + busy'[w] + ToCome' <= MaxDelay + Joining'
    BY <1>0 DEF Closing, Stopped
  <2>1. audio # None /\ audio # 0
    BY <1>0 DEF Urgent
  <2>2. audio \in Nat /\ audio' = audio - 1 /\ audio' # None /\ audio <= MaxBuild
    BY <1>1, <1>4, <2>1
  <2>3. Joining = MaxBuild - audio /\ Joining' = MaxBuild - (audio - 1)
    BY <2>1, <2>2 DEF Joining
  <2>4. timer + busy[w] + ToCome <= MaxDelay + Joining
    BY DEF Closing
  <2> QED
    BY <1>2, <1>3, <1>7, <2>2, <2>3, <2>4, Parameters
<1>15. Leaving'
  <2> SUFFICES ASSUME proc = "leaving", stuck = {}
               PROVE  /\ \A w \in Workers : busy'[w] > 0 => (timer + 1) + busy'[w] <= MaxDelay + Joined
                      /\ (timer + 1) + saving' <= MaxDelay + MaxSave + Joined
                      /\ audio # None => (timer + 1) + audio' <= MaxDelay + MaxSave + MaxBuild
    <3>1. Joined' = Joined /\ (audio' # None <=> audio # None)
      BY <1>4 DEF Joined
    <3> QED
      BY <1>0, <3>1 DEF Leaving, Stopped
  <2>1. /\ \A w \in Workers : busy[w] > 0 => timer + busy[w] <= MaxDelay + Joined
        /\ timer + saving <= MaxDelay + MaxSave + Joined
        /\ audio # None => timer + audio <= MaxDelay + MaxSave + MaxBuild
    BY DEF Leaving
  <2>2. Joined \in Nat /\ Joined <= MaxBuild /\ (audio # None => Joined = MaxBuild)
    BY Numbers DEF Joined
  <2>3. ASSUME NEW w \in Workers, busy'[w] > 0
        PROVE  (timer + 1) + busy'[w] <= MaxDelay + Joined
    <3>1. busy[w] > 0
      BY <1>2, <2>3
    <3> QED
      BY <1>2, <1>3, <2>1, <2>2, <3>1, Parameters
  <2>4. timer + 1 <= MaxDelay + MaxSave + Joined
    <3>1. \/ \E v \in Workers : busy[v] > 0
          \/ saving > 0
          \/ audio # None /\ audio # 0
      <4>1. \/ \E v \in Workers : ~Idle(v)
            \/ saving # 0
            \/ audio # None /\ audio # 0
        BY <1>0 DEF Urgent, Quiet
      <4>2. \A v \in Workers : ~Idle(v) => busy[v] # 0
        BY DEF Idle
      <4> QED
        BY <1>2, <1>3, <4>1, <4>2
    <3>2. CASE \E v \in Workers : busy[v] > 0
      <4>1. PICK v \in Workers : busy[v] > 0
        BY <3>2
      <4>2. timer + busy[v] <= MaxDelay + Joined /\ busy[v] \in Nat
        BY <1>2, <2>1, <4>1
      <4> QED
        BY <1>3, <2>2, <4>1, <4>2, Parameters
    <3>3. CASE saving > 0
      BY <1>3, <2>1, <2>2, <3>3, Parameters
    <3>4. CASE audio # None /\ audio # 0
      BY <1>3, <1>4, <2>1, <2>2, <3>4, Parameters
    <3> QED
      BY <3>1, <3>2, <3>3, <3>4
  <2>5. (timer + 1) + saving' <= MaxDelay + MaxSave + Joined
    BY <1>1, <1>3, <2>1, <2>2, <2>4, Parameters
  <2>6. audio # None => (timer + 1) + audio' <= MaxDelay + MaxSave + MaxBuild
    BY <1>1, <1>3, <1>4, <2>1, <2>2, <2>4, Parameters
  <2> QED
    BY <2>3, <2>5, <2>6
<1> QED
  BY <1>6, <1>10, <1>11, <1>12, <1>13, <1>14, <1>15

----
(* The theorems *)

\* Every step keeps the invariant.
LEMMA NextInv == IInv /\ [Next]_vars => IInv'
<1> SUFFICES ASSUME IInv, [Next]_vars PROVE IInv'
  OBVIOUS
<1>1. CASE Ready
  BY <1>1, ReadyInv
<1>2. CASE StartFails \/ Exit \/ Kill \/ Crash \/ Restart \/ StopTimeout \/ StartUnit
  <2>1. \E st \in {"dead", "exited", "starting"} : Fresh(st)
    BY <1>2 DEF StartFails, Exit, Kill, Crash, Restart, StopTimeout, StartUnit
  <2> QED
    BY <2>1, FreshInv
<1>3. CASE Request
  BY <1>3, RequestInv
<1>4. CASE Save
  BY <1>4, SaveInv
<1>5. CASE Runtime
  BY <1>5, WorkInv, StartIntervalInv, PingInv, DueInv, LeaveInv DEF Runtime
<1>6. CASE DropPlayer \/ DropRuntime
  BY <1>6, DropPlayerInv, DropRuntimeInv
<1>7. CASE \E w \in Workers : Stall(w)
  BY <1>7, StallInv
<1>8. CASE Sigterm
  BY <1>8, SigtermInv
<1>9. CASE Tick
  BY <1>9, TickInv
<1>10. CASE UNCHANGED vars
  <2>1. /\ proc' = proc /\ waiting' = waiting /\ asked' = asked /\ ping' = ping /\ busy' = busy
        /\ stuck' = stuck /\ saving' = saving /\ audio' = audio /\ deadline' = deadline
        /\ since' = since /\ timer' = timer /\ lost' = lost
    BY <1>10 DEF vars
  <2>2. TypeOK'
    BY <2>1 DEF IInv, TypeOK
  <2>3. ToCome' = ToCome /\ Ahead' = Ahead /\ Joining' = Joining /\ Joined' = Joined
    BY <2>1 DEF ToCome, Ahead, Joining, Joined
  <2> QED
    BY <2>1, <2>2, <2>3
    DEF IInv, PingIsDue, FirstRun, InTime, Unnoticed, Closing, Leaving, Healthy
<1> QED
  BY <1>1, <1>2, <1>3, <1>4, <1>5, <1>6, <1>7, <1>8, <1>9, <1>10 DEF Next, Shutdown

\* The invariant holds in every reachable state.
LEMMA Invariant == Spec => []IInv
BY InitInv, NextInv, PTL DEF Spec

\* The state of the process, its tasks and its clocks stay within their types.
THEOREM TypeCorrect == Spec => []TypeOK
<1>1. IInv => TypeOK
  BY DEF IInv
<1> QED
  BY Invariant, <1>1, PTL

\* A process that bears LoadAssumption's load with all its workers, and whose pings
\* arrive, is never killed by the watchdog: before its first ping by FirstRun, and
\* later by InTime, in whatever order the runtime runs its tasks.
THEOREM HealthyProcessSurvives == Spec => []HealthySurvives
<1>1. IInv => HealthySurvives
  <2> SUFFICES ASSUME IInv, proc = "up", stuck = {}, ~lost
               PROVE  since < WatchdogSec
    BY DEF HealthySurvives
  <2> USE DEF IInv
  <2>1. PICK w \in Workers : TRUE
    BY LoadAssumption
  <2>2. busy[w] \in Nat /\ since \in Nat /\ ToCome \in Nat
    BY BusyType, Numbers, ToComeFacts
  <2>3. CASE deadline = None
    <3>1. since + busy[w] + ToCome <= MaxDelay
      BY <2>3 DEF FirstRun, Healthy
    <3> QED
      BY <2>2, <3>1, Parameters
  <2>4. CASE deadline # None
    <3>1. since + Ahead + busy[w] + ToCome <= Period + MaxDelay
      BY <2>4 DEF InTime, Healthy
    <3>2. Ahead \in Nat
      BY <2>4, Numbers
    <3> QED
      BY <2>2, <3>1, <3>2, Parameters
  <2> QED
    BY <2>3, <2>4
<1> QED
  BY Invariant, <1>1, PTL

\* A process told to stop has gone before systemd's patience ends, as long as its
\* workers all come back: SIGTERM is noticed in time (Unnoticed), and the workers,
\* the saves and the audio thread end in time (Closing, Leaving).
THEOREM StopsCleanly == Spec => []StopIsClean
<1>1. IInv => StopIsClean
  <2> SUFFICES ASSUME IInv, proc \in Stopped, stuck = {}
               PROVE  timer < TimeoutStopSec
    BY DEF StopIsClean
  <2> USE DEF IInv
  <2>1. PICK w \in Workers : TRUE
    BY LoadAssumption
  <2>2. /\ busy[w] \in Nat /\ timer \in Nat /\ ToCome \in Nat /\ saving \in Nat
        /\ Joining \in Nat /\ Joined \in Nat /\ Joining <= Joined /\ Joined <= MaxBuild
    BY BusyType, Numbers, ToComeFacts
  <2>3. CASE proc = "stopping"
    <3>1. timer + busy[w] + ToCome <= MaxDelay
      BY <2>3 DEF Unnoticed
    <3> QED
      BY <2>2, <3>1, Parameters
  <2>4. CASE proc = "closing"
    <3>1. timer + busy[w] + ToCome <= MaxDelay + Joining
      BY <2>4 DEF Closing
    <3> QED
      BY <2>2, <3>1, Parameters
  <2>5. CASE proc = "leaving"
    <3>1. timer + saving <= MaxDelay + MaxSave + Joined
      BY <2>5 DEF Leaving
    <3> QED
      BY <2>2, <3>1, Parameters
  <2> QED
    BY <2>3, <2>4, <2>5 DEF Stopped
<1> QED
  BY Invariant, <1>1, PTL
====
