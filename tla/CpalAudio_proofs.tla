---- MODULE CpalAudio_proofs ----
(***************************************************************************)
(* Proofs about CpalAudio for any callers, any backlog and any number of   *)
(* device faults: the worker keeps a healthy stream, and implements the    *)
(* contract of AudioPlayer.                                                *)
(***************************************************************************)
EXTENDS CpalAudio, SequenceTheorems, TLAPS

Commands == [play : Tasks \cup {None}, ack : Callers \cup {None}]

\* Before the first build there is no stream that could report an error.
Fresh == pc = "init" => stream = "none" /\ ~device_lost

\* The worker holds a command, or is about to acknowledge it.
Holding == pc \in {"handle", "ack"}

\* An ack that can still be delivered has a caller blocked on it.
AcksAwaited ==
  /\ \A i \in DOMAIN chan : chan[i].ack # None => chan[i].ack \in waiting
  /\ (Holding /\ cmd.ack # None) => cmd.ack \in waiting

\* A caller is blocked on one command only.
AcksDistinct ==
  /\ \A i, j \in DOMAIN chan :
       (chan[i].ack = chan[j].ack /\ chan[i].ack # None) => i = j
  /\ Holding => \A i \in DOMAIN chan : chan[i].ack # None => chan[i].ack # cmd.ack

IInv == TypeOK /\ Fresh /\ HealthyStreamIsKept /\ AcksAwaited /\ AcksDistinct /\ AckIsComing

----
(* Sequences of commands *)

\* A command put back before the rest of the channel.
LEMMA ConsFacts ==
  ASSUME NEW S, NEW e \in S, NEW s \in Seq(S)
  PROVE  /\ <<e>> \o s \in Seq(S)
         /\ <<e>> \o s # <<>>
         /\ Len(<<e>> \o s) = Len(s) + 1
         /\ DOMAIN (<<e>> \o s) = 1..(Len(s) + 1)
         /\ (<<e>> \o s)[1] = e
         /\ \A i \in 1..Len(s) : (<<e>> \o s)[i + 1] = s[i]
OBVIOUS

\* It is the next one to be taken.
LEMMA ConsTakes ==
  ASSUME NEW S, NEW e \in S, NEW s \in Seq(S)
  PROVE  Head(<<e>> \o s) = e /\ Tail(<<e>> \o s) = s
<1>1. Head(<<e>> \o s) = e
  BY ConsFacts
<1>2. Tail(<<e>> \o s) \in Seq(S) /\ Len(Tail(<<e>> \o s)) = Len(s)
  BY ConsFacts
<1>3. \A i \in 1..Len(s) : Tail(<<e>> \o s)[i] = s[i]
  BY ConsFacts
<1> QED
  BY <1>1, <1>2, <1>3, SeqEqual

\* Taking a command off the channel only moves it.
LEMMA ConsBack ==
  ASSUME NEW S, NEW s \in Seq(S), s # <<>>
  PROVE  /\ Head(s) \in S /\ Tail(s) \in Seq(S)
         /\ <<Head(s)>> \o Tail(s) = s
<1>1. Head(s) \in S /\ Tail(s) \in Seq(S) /\ Len(Tail(s)) = Len(s) - 1 /\ Len(s) \in Nat \ {0}
  OBVIOUS
<1>2. <<Head(s)>> \o Tail(s) \in Seq(S) /\ Len(<<Head(s)>> \o Tail(s)) = Len(s)
  BY <1>1, ConsFacts
<1>3. ASSUME NEW i \in 1..Len(s) PROVE (<<Head(s)>> \o Tail(s))[i] = s[i]
  BY <1>1
<1> QED
  BY <1>1, <1>2, <1>3, SeqEqual

\* A command is queued behind the one being handled.
LEMMA ConsAppend ==
  ASSUME NEW S, NEW e \in S, NEW s \in Seq(S), NEW x \in S
  PROVE  <<e>> \o Append(s, x) = Append(<<e>> \o s, x)
<1>1. /\ <<e>> \o Append(s, x) \in Seq(S) /\ Append(<<e>> \o s, x) \in Seq(S)
      /\ Len(<<e>> \o Append(s, x)) = Len(s) + 2 /\ Len(Append(<<e>> \o s, x)) = Len(s) + 2
  BY ConsFacts
<1>2. ASSUME NEW i \in 1..(Len(s) + 2)
      PROVE  (<<e>> \o Append(s, x))[i] = Append(<<e>> \o s, x)[i]
  OBVIOUS
<1> QED
  BY <1>1, <1>2, SeqEqual

\* A timed out caller is struck from every command, which stays where it is.
LEMMA DropAckSeq ==
  ASSUME NEW u \in Callers, NEW s \in Seq(Commands)
  PROVE  /\ [i \in DOMAIN s |-> DropAck(u, s[i])] \in Seq(Commands)
         /\ Len([i \in DOMAIN s |-> DropAck(u, s[i])]) = Len(s)
<1>1. \A c \in Commands : DropAck(u, c) \in Commands
  BY DEF DropAck, Commands
<1> QED
  BY <1>1, IsASeq

----
(* The inductive invariant *)

\* The thread starts without stream, command or caller.
LEMMA InitInv == Init => IInv
<1> SUFFICES ASSUME Init PROVE IInv
  OBVIOUS
<1>1. chan = <<>> /\ DOMAIN chan = {}
  BY DEF Init
<1>2. TypeOK
  <2>1. {closed, device_lost, retry_due, device} \subseteq BOOLEAN
    BY Zenon DEF Init
  <2> QED
    BY <2>1 DEF Init, TypeOK, NoCommand
<1> QED
  BY <1>1, <1>2
  DEF Init, IInv, Fresh, HealthyStreamIsKept, AcksAwaited, AcksDistinct, Holding, AckIsComing

\* The acks are untouched by a step that takes, queues and answers nothing.
LEMMA AcksKept ==
  ASSUME AcksAwaited, AcksDistinct, AckIsComing, UNCHANGED <<chan, waiting, cmd>>,
         Holding' <=> Holding
  PROVE  AcksAwaited' /\ AcksDistinct' /\ AckIsComing'
BY DEF AcksAwaited, AcksDistinct, AckIsComing, Holding

\* play() and stop(): a caller that is not blocked has no ack under way.
LEMMA SendInv ==
  ASSUME IInv, NEW u \in Callers, NEW p \in Tasks \cup {None}, Send(u, p)
  PROVE  IInv'
<1> USE DEF IInv
<1> DEFINE c == [play |-> p, ack |-> u]
<1>c. c \in Commands /\ c.ack = u /\ u # None
  BY CpalAssumption DEF Commands
<1>1. chan \in Seq(Commands)
  BY DEF TypeOK, Commands
<1>2. chan' = Append(chan, c) /\ waiting' = waiting \cup {u} /\ u \notin waiting /\ UNCHANGED <<pc, cmd>>
  BY DEF Send
<1> HIDE DEF c
<1>3. /\ chan' \in Seq(Commands) /\ DOMAIN chan' = 1..(Len(chan) + 1)
      /\ chan'[Len(chan) + 1] = c
      /\ \A i \in 1..Len(chan) : chan'[i] = chan[i]
      /\ DOMAIN chan = 1..Len(chan) /\ Len(chan) \in Nat
  BY <1>1, <1>2, <1>c
<1>4. TypeOK'
  BY <1>2, <1>3 DEF TypeOK, Send, Commands
<1>5. \A i \in DOMAIN chan' :
         \/ i \in DOMAIN chan /\ chan'[i] = chan[i]
         \/ i = Len(chan) + 1 /\ chan'[i].ack = u
  BY <1>3, <1>c
<1>6. AcksAwaited'
  BY <1>2, <1>5 DEF AcksAwaited, Holding
<1>7. \A i \in DOMAIN chan : chan[i].ack # u
  BY <1>2, <1>c DEF AcksAwaited
<1>8. AcksDistinct'
  BY <1>2, <1>5, <1>7, <1>c DEF AcksDistinct, AcksAwaited, Holding
<1>9. Fresh' /\ HealthyStreamIsKept'
  BY DEF Fresh, HealthyStreamIsKept, Send
<1>10. AckIsComing'
  <2> SUFFICES ASSUME NEW v \in waiting'
               PROVE  \/ \E i \in DOMAIN chan' : chan'[i].ack = v
                      \/ pc' \in {"handle", "ack"} /\ cmd'.ack = v
    BY DEF AckIsComing
  <2>1. CASE v = u
    BY <2>1, <1>3, <1>c
  <2>2. CASE v # u
    BY <2>2, <1>2, <1>3 DEF AckIsComing
  <2> QED
    BY <2>1, <2>2
<1> QED
  BY <1>4, <1>6, <1>8, <1>9, <1>10

\* recv_timeout expires: no command carries the caller's ack any more.
LEMMA AckTimeoutInv ==
  ASSUME IInv, NEW u \in Callers, AckTimeout(u)
  PROVE  IInv'
<1> USE DEF IInv
<1>1. chan \in Seq(Commands) /\ cmd \in Commands
  BY DEF TypeOK, Commands
<1>2. /\ waiting' = waiting \ {u} /\ UNCHANGED pc
      /\ chan' = [i \in DOMAIN chan |-> DropAck(u, chan[i])] /\ cmd' = DropAck(u, cmd)
  BY DEF AckTimeout
<1>3. chan' \in Seq(Commands) /\ DOMAIN chan' = DOMAIN chan
  BY <1>1, <1>2, DropAckSeq
<1>d. \A c \in Commands : /\ DropAck(u, c) \in Commands
                          /\ DropAck(u, c).ack = IF c.ack = u THEN None ELSE c.ack
  BY DEF DropAck, Commands
<1>4. \A i \in DOMAIN chan : /\ chan[i] \in Commands
                             /\ chan'[i].ack = IF chan[i].ack = u THEN None ELSE chan[i].ack
  BY <1>1, <1>2, <1>d
<1>5. cmd' \in Commands /\ cmd'.ack = IF cmd.ack = u THEN None ELSE cmd.ack
  BY <1>1, <1>2, <1>d
<1>6. TypeOK'
  BY <1>3, <1>5 DEF TypeOK, AckTimeout, Commands
<1>7. AcksAwaited' /\ AcksDistinct'
  BY <1>2, <1>3, <1>4, <1>5 DEF AcksAwaited, AcksDistinct, Holding
<1>8. Fresh' /\ HealthyStreamIsKept'
  BY DEF Fresh, HealthyStreamIsKept, AckTimeout
<1>9. AckIsComing'
  BY <1>2, <1>3, <1>4, <1>5 DEF AckIsComing
<1> QED
  BY <1>6, <1>7, <1>8, <1>9

\* The worker takes a command: its ack moves with it.
LEMMA ReceiveInv ==
  ASSUME IInv, Receive
  PROVE  IInv'
<1> USE DEF IInv
<1>1. chan \in Seq(Commands) /\ chan # <<>>
  BY DEF TypeOK, Commands, Receive
<1>2. cmd' = Head(chan) /\ chan' = Tail(chan) /\ UNCHANGED waiting /\ Holding'
  BY DEF Receive, Holding
<1>3. /\ cmd' \in Commands /\ chan' \in Seq(Commands)
      /\ cmd' = chan[1] /\ 1 \in DOMAIN chan
      /\ \A i \in DOMAIN chan' : i + 1 \in DOMAIN chan /\ chan'[i] = chan[i + 1] /\ i \in Nat \ {0}
  BY <1>1, <1>2
<1>4. TypeOK'
  BY <1>3 DEF TypeOK, Receive, Commands
<1>5. AcksAwaited'
  BY <1>2, <1>3 DEF AcksAwaited
<1>6. AcksDistinct'
  BY <1>2, <1>3 DEF AcksDistinct
<1>7. Fresh' /\ HealthyStreamIsKept'
  BY DEF Fresh, HealthyStreamIsKept, Receive
<1>8. AckIsComing'
  <2> SUFFICES ASSUME NEW v \in waiting,
                      NEW i \in DOMAIN chan, chan[i].ack = v
               PROVE  cmd'.ack = v \/ \E j \in DOMAIN chan' : chan'[j].ack = v
    BY <1>2 DEF AckIsComing, Receive
  <2>1. CASE i = 1
    BY <2>1, <1>3
  <2>2. CASE i # 1
    <3>1. i - 1 \in DOMAIN chan' /\ chan'[i - 1] = chan[i]
      BY <2>2, <1>1, <1>2
    <3> QED
      BY <3>1
  <2> QED
    BY <2>1, <2>2
<1> QED
  BY <1>4, <1>5, <1>6, <1>7, <1>8

\* The worker answers: nobody else waits for that ack.
LEMMA AckInv ==
  ASSUME IInv, Ack
  PROVE  IInv'
<1> USE DEF IInv
<1>1. /\ Holding /\ ~Holding' /\ UNCHANGED chan /\ waiting' = waiting \ {cmd.ack}
  BY DEF Ack, Holding
<1>2. TypeOK'
  BY DEF Ack, TypeOK, NoCommand
<1>3. AcksAwaited' /\ AcksDistinct'
  BY <1>1 DEF AcksAwaited, AcksDistinct
<1>4. Fresh' /\ HealthyStreamIsKept'
  BY DEF Fresh, HealthyStreamIsKept, Ack
<1>5. AckIsComing'
  BY <1>1 DEF AckIsComing
<1> QED
  BY <1>2, <1>3, <1>4, <1>5

\* The steps of the worker that leave the stream alone.
LEMMA WorkerInv ==
  ASSUME IInv, DropHandle \/ ReceiveTimeout \/ HandlePlay \/ HandleStop \/ NoRetry \/ RetryFails
  PROVE  IInv'
<1> USE DEF IInv
<1>1. TypeOK'
  <2>1. CASE DropHandle
    BY <2>1 DEF TypeOK, DropHandle
  <2>2. CASE ReceiveTimeout
    BY <2>2 DEF TypeOK, ReceiveTimeout
  <2>3. CASE HandlePlay
    BY <2>3 DEF TypeOK, HandlePlay
  <2>4. CASE HandleStop
    BY <2>4 DEF TypeOK, HandleStop
  <2>5. CASE NoRetry
    BY <2>5 DEF TypeOK, NoRetry
  <2>6. CASE RetryFails
    BY <2>6 DEF TypeOK, RetryFails
  <2> QED
    BY <2>1, <2>2, <2>3, <2>4, <2>5, <2>6
<1>2. AcksAwaited' /\ AcksDistinct' /\ AckIsComing'
  BY AcksKept DEF Holding, DropHandle, ReceiveTimeout, HandlePlay, HandleStop, NoRetry, RetryFails
<1>3. Fresh' /\ HealthyStreamIsKept'
  BY DEF Fresh, HealthyStreamIsKept, DropHandle, ReceiveTimeout, HandlePlay, HandleStop, NoRetry, RetryFails
<1> QED
  BY <1>1, <1>2, <1>3

\* The steps that build or drop the stream.
LEMMA StreamInv ==
  ASSUME IInv, InitialBuild \/ DropFailedStream \/ Exit \/ RetryBuilds \/ ClearLost
  PROVE  IInv'
<1> USE DEF IInv
<1>1. TypeOK'
  <2>1. CASE InitialBuild
    BY <2>1 DEF TypeOK, InitialBuild
  <2>2. CASE DropFailedStream
    BY <2>2 DEF TypeOK, DropFailedStream
  <2>3. CASE Exit
    BY <2>3 DEF TypeOK, Exit
  <2>4. CASE RetryBuilds
    BY <2>4 DEF TypeOK, RetryBuilds
  <2>5. CASE ClearLost
    BY <2>5 DEF TypeOK, ClearLost
  <2> QED
    BY <2>1, <2>2, <2>3, <2>4, <2>5
<1>2. AcksAwaited' /\ AcksDistinct' /\ AckIsComing'
  BY AcksKept DEF Holding, InitialBuild, DropFailedStream, Exit, RetryBuilds, ClearLost
<1>3. InitialBuild => (stream' = "live" => ~device_lost')
  BY Zenon DEF InitialBuild, Fresh
<1>4. Fresh' /\ HealthyStreamIsKept'
  BY <1>3 DEF Fresh, HealthyStreamIsKept, InitialBuild, DropFailedStream, Exit, RetryBuilds, ClearLost
<1> QED
  BY <1>1, <1>2, <1>4

\* The callbacks, the clock and the device, in any order with the worker's steps.
LEMMA EnvInv ==
  ASSUME IInv,
         FillEnds \/ ErrorCallback \/ RetryIntervalPasses \/ Unplug \/ StreamFails \/ Plug \/ UNCHANGED vars
  PROVE  IInv'
<1> USE DEF IInv
<1>1. TypeOK'
  <2>1. CASE FillEnds \/ ErrorCallback \/ RetryIntervalPasses
    <3>1. CASE FillEnds
      BY <3>1 DEF TypeOK, FillEnds
    <3>2. CASE ErrorCallback
      BY <3>2 DEF TypeOK, ErrorCallback
    <3>3. CASE RetryIntervalPasses
      BY <3>3 DEF TypeOK, RetryIntervalPasses
    <3> QED
      BY <2>1, <3>1, <3>2, <3>3
  <2>2. CASE Unplug \/ StreamFails
    <3>1. faults' \in Nat
      BY <2>2 DEF TypeOK, Unplug, StreamFails
    <3>2. device' \in BOOLEAN
      BY <2>2, Zenon DEF TypeOK, Unplug, StreamFails
    <3>3. stream' \in {"none", "live", "failed"}
      BY <2>2 DEF TypeOK, Unplug, StreamFails
    <3> QED
      BY <2>2, <3>1, <3>2, <3>3 DEF TypeOK, Unplug, StreamFails
  <2>3. CASE Plug
    BY <2>3 DEF TypeOK, Plug
  <2>4. CASE UNCHANGED vars
    BY <2>4 DEF TypeOK, vars
  <2> QED
    BY <2>1, <2>2, <2>3, <2>4
<1>2. AcksAwaited' /\ AcksDistinct' /\ AckIsComing'
  BY AcksKept
  DEF Holding, FillEnds, ErrorCallback, RetryIntervalPasses, Unplug, StreamFails, Plug, vars
<1>3. Fresh' /\ HealthyStreamIsKept'
  BY DEF Fresh, HealthyStreamIsKept, FillEnds, ErrorCallback, RetryIntervalPasses, Unplug,
         StreamFails, Plug, vars
<1> QED
  BY <1>1, <1>2, <1>3

\* Every step keeps the invariant.
LEMMA NextInv == IInv /\ [Next]_vars => IInv'
<1> SUFFICES ASSUME IInv, [Next]_vars PROVE IInv'
  OBVIOUS
<1>1. ASSUME NEW t \in Tasks, Play(t) PROVE IInv'
  BY <1>1, SendInv, CpalAssumption DEF Play
<1>2. ASSUME NEW u \in Callers, Stop(u) PROVE IInv'
  BY <1>2, SendInv DEF Stop
<1> QED
  BY <1>1, <1>2, AckTimeoutInv, ReceiveInv, AckInv, WorkerInv, StreamInv, EnvInv
  DEF Next, Loop, Joined

\* Every reachable state is well typed.
THEOREM TypeCorrect == Spec => []TypeOK
<1>1. IInv => TypeOK
  BY DEF IInv
<1> QED
  BY <1>1, InitInv, NextInv, PTL DEF Spec

\* device_lost is never up for a stream that works, except between a rebuild and
\* its reset: the worker drops no healthy stream, however often the device goes
\* away and whenever the error callback runs.
THEOREM HealthyStreamNeverDropped == Spec => []HealthyStreamIsKept
<1>1. IInv => HealthyStreamIsKept
  BY DEF IInv
<1> QED
  BY <1>1, InitInv, NextInv, PTL DEF Spec

\* Every caller that is blocked in send_and_wait has a command under way that
\* carries its ack, whoever gave up before and whatever became of the stream.
THEOREM NobodyWaitsInVain == Spec => []AckIsComing
<1>1. IInv => AckIsComing
  BY DEF IInv
<1> QED
  BY <1>1, InitInv, NextInv, PTL DEF Spec

----
(* The worker implements the player contract *)

\* waiting as the contract sees it: an ack under way counts as delivered.
Blocked == IF pc = "ack" THEN waiting \ {cmd.ack} ELSE waiting

\* The commands the contract sees are commands.
LEMMA PendingType ==
  ASSUME IInv
  PROVE  Pending \in Seq(Commands) /\ chan \in Seq(Commands) /\ cmd \in Commands
<1>1. chan \in Seq(Commands) /\ cmd \in Commands
  BY DEF IInv, TypeOK, Commands
<1> QED
  BY <1>1, ConsFacts DEF Pending

\* A step that changes neither the commands to run, nor the playback, nor who is
\* blocked, stutters.
LEMMA Stutters ==
  ASSUME UNCHANGED <<Pending, playback, Blocked>>
  PROVE  [Contract!AudioNext]_(Contract!audioVars)
BY DEF Contract!audioVars, Blocked

\* Sending is sending.
LEMMA SendStep ==
  ASSUME IInv, NEW u \in Callers, NEW p \in Tasks \cup {None}, Send(u, p)
  PROVE  Contract!Send(u, p)
<1> DEFINE c == [play |-> p, ack |-> u]
<1>1. c \in Commands
  BY DEF Commands
<1>2. UNCHANGED <<pc, cmd, playback>> /\ chan' = Append(chan, c) /\ Len(Pending) < MaxBacklog
      /\ u \notin waiting /\ waiting' = waiting \cup {u}
  BY DEF Send
<1>3. Pending' = Append(Pending, c)
  <2>1. chan \in Seq(Commands) /\ cmd \in Commands
    BY PendingType
  <2> HIDE DEF c
  <2> QED
    BY <1>1, <1>2, <2>1, ConsAppend DEF Pending
<1>4. pc = "ack" => u # cmd.ack
  BY <1>2, CpalAssumption DEF IInv, AcksAwaited, Holding
<1>5. u \notin Blocked /\ Blocked' = Blocked \cup {u}
  BY <1>2, <1>4 DEF Blocked
<1> QED
  BY <1>2, <1>3, <1>5 DEF Contract!Send, Blocked

\* A timeout is a timeout, unless the ack was already under way.
LEMMA AckTimeoutStep ==
  ASSUME IInv, NEW u \in Callers, AckTimeout(u)
  PROVE  Contract!AckTimeout(u) \/ UNCHANGED <<Pending, playback, Blocked>>
<1> DEFINE Struck(s) == [i \in DOMAIN s |-> DropAck(u, s[i])]
<1>1. /\ UNCHANGED <<pc, playback>> /\ u \in waiting /\ waiting' = waiting \ {u}
      /\ chan' = Struck(chan) /\ cmd' = DropAck(u, cmd)
  BY DEF AckTimeout
<1>2. chan \in Seq(Commands) /\ cmd \in Commands /\ Pending \in Seq(Commands)
  BY PendingType
<1>d. \A c \in Commands : /\ DropAck(u, c) \in Commands
                          /\ DropAck(u, c).ack = IF c.ack = u THEN None ELSE c.ack
  BY DEF DropAck, Commands
<1>3. Pending' = Struck(Pending)
  <2>1. CASE pc = "handle"
    <3> DEFINE s == <<cmd>> \o chan
               t == <<DropAck(u, cmd)>> \o Struck(chan)
    <3>1. Struck(chan) \in Seq(Commands) /\ Len(Struck(chan)) = Len(chan)
      BY <1>2, DropAckSeq
    <3>2. s \in Seq(Commands) /\ t \in Seq(Commands) /\ Len(s) = Len(chan) + 1 /\ Len(t) = Len(chan) + 1
      BY <1>2, <1>d, <3>1, ConsFacts
    <3>3. Struck(s) \in Seq(Commands) /\ Len(Struck(s)) = Len(s)
      BY <3>2, DropAckSeq
    <3>4. ASSUME NEW i \in 1..Len(t) PROVE t[i] = Struck(s)[i]
      <4>1. CASE i = 1
        BY <4>1, <1>2, <1>d, <3>1, <3>2, ConsFacts
      <4>2. CASE i # 1
        <5> DEFINE j == i - 1
        <5>1. j \in 1..Len(chan) /\ i = j + 1
          BY <4>2, <3>2, <1>2
        <5>2. s[i] = chan[j] /\ i \in DOMAIN s
          BY <5>1, <1>2, <3>2, ConsFacts
        <5>3. t[i] = Struck(chan)[j]
          BY <5>1, <1>2, <1>d, <3>1, ConsFacts
        <5> QED
          BY <5>1, <5>2, <5>3, <1>2
      <4> QED
        BY <4>1, <4>2
    <3>5. t = Struck(s)
      <4> HIDE DEF s, t, Struck
      <4> QED
        BY <3>2, <3>3, <3>4, SeqEqual
    <3> QED
      BY <1>1, <2>1, <3>5 DEF Pending
  <2>2. CASE pc # "handle"
    BY <1>1, <2>2 DEF Pending
  <2> QED
    BY <2>1, <2>2
<1>4. CASE pc = "ack" /\ cmd.ack = u
  <2>1. \A i \in DOMAIN chan : chan[i].ack # u
    BY <1>4, CpalAssumption DEF IInv, AcksDistinct, Holding
  <2>2. Struck(chan) = chan
    BY <1>2, <2>1 DEF DropAck
  <2>3. Blocked' = Blocked
    BY <1>1, <1>2, <1>4, <1>d, CpalAssumption DEF Blocked, IInv, TypeOK
  <2> QED
    BY <1>1, <1>4, <2>2, <2>3 DEF Pending
<1>5. CASE ~(pc = "ack" /\ cmd.ack = u)
  <2>1. u \in Blocked /\ Blocked' = Blocked \ {u}
    BY <1>1, <1>2, <1>5, <1>d DEF Blocked
  <2> QED
    BY <1>1, <1>3, <2>1 DEF Contract!AckTimeout, Blocked, DropAck
<1> QED
  BY <1>4, <1>5

\* A command runs when the worker handles it, and is the oldest one.
LEMMA HandleStep ==
  ASSUME IInv, HandlePlay \/ HandleStop
  PROVE  Contract!Worker
<1>1. chan \in Seq(Commands) /\ cmd \in Commands
  BY PendingType
<1>2. pc = "handle" /\ pc' = "ack" /\ UNCHANGED <<chan, waiting, cmd>>
  BY DEF HandlePlay, HandleStop
<1>3. Pending # <<>> /\ Head(Pending) = cmd /\ Tail(Pending) = chan /\ Pending' = chan
  BY <1>1, <1>2, ConsFacts, ConsTakes DEF Pending
<1>4. Contract!Receive
  BY <1>2, <1>3 DEF Contract!Receive
<1> QED
  BY <1>3, <1>4
  DEF HandlePlay, HandleStop, Contract!Worker, Contract!ExecStop, Contract!ExecPlay,
      Contract!RefusePlay, Contract!IsStop

\* The end of a playback is the end of a playback; at Exit there may be none.
LEMMA FinishStep ==
  ASSUME IInv, FillEnds \/ Exit
  PROVE  Contract!Finish \/ UNCHANGED <<Pending, playback, Blocked>>
<1>1. UNCHANGED <<Pending, Blocked>> /\ playback' = None
  BY DEF FillEnds, Exit, Pending, Blocked
<1> QED
  BY <1>1 DEF Contract!Finish, Blocked

\* All else is the worker's own business.
LEMMA InternalStep ==
  ASSUME IInv,
         \/ DropHandle \/ InitialBuild \/ DropFailedStream \/ Receive \/ ReceiveTimeout \/ Ack
         \/ NoRetry \/ RetryFails \/ RetryBuilds \/ ClearLost \/ ErrorCallback
         \/ RetryIntervalPasses \/ Unplug \/ StreamFails \/ Plug \/ UNCHANGED vars
  PROVE  UNCHANGED <<Pending, playback, Blocked>>
<1>1. CASE Receive
  <2>1. <<Head(chan)>> \o Tail(chan) = chan
    BY <1>1, PendingType, ConsBack DEF Receive
  <2> QED
    BY <1>1, <2>1 DEF Receive, Pending, Blocked
<1>2. CASE Ack
  BY <1>2 DEF Ack, Pending, Blocked
<1>3. CASE \/ DropHandle \/ InitialBuild \/ DropFailedStream \/ ReceiveTimeout
           \/ NoRetry \/ RetryFails \/ RetryBuilds \/ ClearLost
  BY <1>3 DEF Pending, Blocked, DropHandle, InitialBuild, DropFailedStream, ReceiveTimeout,
              NoRetry, RetryFails, RetryBuilds, ClearLost
<1>4. CASE \/ ErrorCallback \/ RetryIntervalPasses \/ Unplug \/ StreamFails \/ Plug
           \/ UNCHANGED vars
  BY <1>4 DEF Pending, Blocked, ErrorCallback, RetryIntervalPasses, Unplug, StreamFails, Plug, vars
<1> QED
  BY <1>1, <1>2, <1>3, <1>4

\* Every step of the worker is a step of the player, or none.
LEMMA NextStep == IInv /\ [Next]_vars => [Contract!AudioNext]_(Contract!audioVars)
<1> SUFFICES ASSUME IInv, [Next]_vars PROVE [Contract!AudioNext]_(Contract!audioVars)
  OBVIOUS
<1>1. ASSUME NEW t \in Tasks, Play(t) PROVE Contract!AudioNext
  BY <1>1, SendStep, CpalAssumption DEF Play, Contract!Play, Contract!AudioNext
<1>2. ASSUME NEW u \in Callers, Stop(u) PROVE Contract!AudioNext
  BY <1>2, SendStep DEF Stop, Contract!Stop, Contract!AudioNext
<1>3. ASSUME NEW u \in Callers, AckTimeout(u)
      PROVE  Contract!AudioNext \/ UNCHANGED <<Pending, playback, Blocked>>
  BY <1>3, AckTimeoutStep DEF Contract!AudioNext
<1>4. HandlePlay \/ HandleStop => Contract!AudioNext
  BY HandleStep DEF Contract!AudioNext
<1>5. FillEnds \/ Exit => Contract!AudioNext \/ UNCHANGED <<Pending, playback, Blocked>>
  BY FinishStep DEF Contract!AudioNext
<1> QED
  BY <1>1, <1>2, <1>3, <1>4, <1>5, InternalStep, Stutters DEF Next, Loop, Joined

\* The worker thread, with its stream and callbacks, is a player as audio/mod.rs
\* promises it: commands run in the order they were sent, each once, also after
\* their callers gave up, and a lost device neither starts nor ends a playback.
THEOREM WorkerIsPlayer == Spec => ImplementsContract
<1>1. Init => Contract!AudioInit
  BY DEF Init, Contract!AudioInit, Pending
<1> QED
  BY <1>1, InitInv, NextInv, NextStep, PTL DEF Spec, ImplementsContract, Contract!AudioSpec
====
