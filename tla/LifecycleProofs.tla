--------------------------- MODULE LifecycleProofs ---------------------------
(* The safety of the start and the stop, for any number of buffers, any      *)
(* batch size, any bind directives and any number of signals.  The           *)
(* invariant is a list of layers: each keeps itself with the help of those   *)
(* above it.                                                                 *)
EXTENDS Lifecycle, AsyncIoProofs

\* Where the main thread can be in each stage of signal_handler, and what the
\* stages have done.
Starting == pc \in {"server", "tun", "udp", "listen"}

Stages ==
    /\ handler \in {"none", "tun", "poll", "read", "write", "clean", "done"}
    /\ handler # "none" =>
          /\ pc \in {"turn", "ended", "killed", "undefined"}
          /\ watched = "none"
    /\ pc = "ended" => handler = "done"
    /\ lists <=> handler # "done"
    /\ handler \in {"tun", "poll", "read", "write"} => routing
    /\ pc \in {"tun", "udp"} => routing
    /\ pc \in {"server", "tun", "udp"} => ~udpOpen
    /\ udpOpen => routing
    /\ handler \in {"clean", "done"} => ~udpOpen

\* Before the udp socket is opened its device does nothing.
Unused ==
    handler = "none" /\ ~udpOpen =>
        /\ armed = {} /\ wAvail = 0
        /\ rJob = "idle" /\ ~rCallback /\ wJob = "idle"

\* What a stop in a quiet moment can rely on.
Calm ==
    /\ "client" \in turn => client # "none"
    /\ handler # "none" /\ quiet => ~("client" \in turn /\ client # "ping")
    /\ handler \in {"tun", "poll", "read", "write", "clean"} /\ quiet =>
          rJob # "doing" /\ wJob # "doing"
    /\ rHold \in {"none", "held", "freed"} /\ wHold \in {"none", "held", "freed"}
    /\ rHold = "held" => rJob = "doing"
    /\ wHold = "held" => wJob = "doing"
    /\ "freed" \in {rHold, wHold} => handler # "none" /\ ~quiet

TcpStates == {"listening", "closing", "closed", "dropped"}

\* The handles of listen_to_port and which of them ipfd names.
Handles ==
    /\ tcp \in Seq(TcpStates) /\ ipfd \in Seq(Nat) /\ Len(bind) \in Nat
    /\ pc \in {"server", "tun", "udp"} => tcp = <<>> /\ ipfd = <<>>
    /\ pc \in {"listen", "poll", "turn", "ended"} =>
          \A i \in DOMAIN tcp : tcp[i] = "dropped" => bind = <<>> /\ i = 1

Listening ==
    /\ pc \in {"listen", "poll", "turn"} /\ handler = "none" =>
          /\ \A k \in DOMAIN ipfd : ipfd[k] \in DOMAIN tcp /\ tcp[ipfd[k]] = "listening"
          /\ \A i \in DOMAIN tcp : tcp[i] = "listening" => \E k \in DOMAIN ipfd : ipfd[k] = i
          /\ bind # <<>> => Len(ipfd) = Len(tcp)
    /\ pc = "listen" => IF bind = <<>> THEN Len(tcp) <= 1 ELSE Len(tcp) < Len(bind)
    /\ Serving => IF bind = <<>> THEN ipfd # <<>> ELSE Len(tcp) = Len(bind)
    /\ handler # "none" /\ pc = "turn" => \A i \in DOMAIN tcp : tcp[i] # "listening"
    /\ pc = "ended" => \A i \in DOMAIN tcp : tcp[i] \in {"closed", "dropped"}

\* The buffers on the queues of the udp device.
Held == rAvail + rWork + Len(rDone) + wAvail + Len(wReady) + Len(wWork) + wDone

Counted ==
    /\ freed \in Nat
    /\ pc \in {"server", "tun", "udp"} \/ ~routing => freed + Held = 0
    /\ pc \in {"listen", "poll", "turn", "ended"} /\ routing => freed + Held = RBufs + WBufs
    /\ handler = "read" => rAvail = 0
    /\ handler = "write" => rAvail = 0 /\ rWork = 0 /\ rDone = <<>> /\ wAvail = 0 /\ wReady = <<>>
    /\ handler \in {"clean", "done"} => Held = 0

\* A function on the indices of a sequence is a sequence of that length.
LEMMA MapKeepsSeq ==
    ASSUME NEW S, NEW s \in Seq(S), NEW t, DOMAIN t = DOMAIN s, t = [i \in DOMAIN s |-> t[i]],
           \A i \in DOMAIN s : t[i] \in S
    PROVE  t \in Seq(S) /\ Len(t) = Len(s)
  <1>1. DOMAIN s = 1..Len(s) /\ Len(s) \in Nat
    BY LenProperties
  <1>2. t \in [1..Len(s) -> S]
    BY <1>1
  <1>. QED  BY <1>1, <1>2, SeqDef, LenProperties

\* What Append does to the length, the domain and the elements.
LEMMA AppendAtEnd ==
    ASSUME NEW S, NEW s \in Seq(S), NEW e \in S
    PROVE  /\ Append(s, e) \in Seq(S) /\ Len(Append(s, e)) = Len(s) + 1
           /\ Len(s) \in Nat
           /\ DOMAIN s = 1..Len(s) /\ DOMAIN Append(s, e) = 1..(Len(s) + 1)
           /\ \A i \in 1..Len(s) : Append(s, e)[i] = s[i]
           /\ Append(s, e)[Len(s) + 1] = e
  BY AppendProperties, LenProperties

\* The three branches of listen_to_port, as far as they are alike.
LEMMA ListenSteps ==
    ASSUME Stages, Handles, Listening, pc = "listen",
           NEW ok \in BOOLEAN, NEW fallen \in {"closing", "dropped"}, Listen(ok, fallen),
           bind # <<>> => ok \/ pc' = "exited", 
           fallen = "dropped" => bind # <<>> \/ tcp = <<>>,
           pc' \in {"listen", "poll", "exited"},
           bind = <<>> => pc' = IF tcp = <<>> THEN "listen" ELSE IF ipfd' # <<>> THEN "poll" ELSE "exited",
           bind # <<>> /\ ok => pc' = IF Len(tcp') = Len(bind) THEN "poll" ELSE "listen"
    PROVE  Listening'
  <1> DEFINE n == Len(tcp)
             m == Len(ipfd)
             e == IF ok THEN "listening" ELSE fallen
  <1>0. handler = "none" /\ handler' = "none" /\ bind' = bind
    BY DEF Stages, Listen, stopVars, confVars
  <1>1. /\ tcp' = Append(tcp, e) /\ e \in TcpStates /\ tcp \in Seq(TcpStates)
        /\ ipfd \in Seq(Nat) /\ Len(bind) \in Nat
        /\ ok => ipfd' = Append(ipfd, Len(tcp'))
        /\ ~ok => ipfd' = ipfd
    BY DEF Listen, Handles, TcpStates
  <1>2. /\ Len(tcp') = n + 1 /\ n \in Nat
        /\ DOMAIN tcp = 1..n /\ DOMAIN tcp' = 1..(n + 1)
        /\ \A i \in 1..n : tcp'[i] = tcp[i]
        /\ tcp'[n + 1] = e
    BY <1>1, AppendAtEnd
  <1>3. /\ m \in Nat /\ DOMAIN ipfd = 1..m
        /\ ok => /\ ipfd' \in Seq(Nat) /\ Len(ipfd') = m + 1 /\ DOMAIN ipfd' = 1..(m + 1)
                 /\ \A k \in 1..m : ipfd'[k] = ipfd[k]
                 /\ ipfd'[m + 1] = n + 1
                 /\ ipfd' # <<>>
    <2>1. m \in Nat /\ DOMAIN ipfd = 1..m
      BY <1>1, LenProperties
    <2>2. ASSUME ok
          PROVE  /\ ipfd' \in Seq(Nat) /\ Len(ipfd') = m + 1 /\ DOMAIN ipfd' = 1..(m + 1)
                 /\ \A k \in 1..m : ipfd'[k] = ipfd[k]
                 /\ ipfd'[m + 1] = n + 1
      <3>1. n + 1 \in Nat /\ ipfd' = Append(ipfd, n + 1)
        BY <1>1, <1>2, <2>2
      <3>. QED  BY <1>1, <3>1, AppendAtEnd
    <2>3. ok => ipfd' # <<>>
      <3> HIDE DEF m
      <3>. QED  BY <2>1, <2>2, EmptySeq
    <2>. QED  BY <2>1, <2>2, <2>3
  <1>4. /\ \A k \in 1..m : ipfd[k] \in 1..n /\ tcp[ipfd[k]] = "listening"
        /\ \A i \in 1..n : tcp[i] = "listening" => \E k \in 1..m : ipfd[k] = i
        /\ bind # <<>> => m = n
        /\ IF bind = <<>> THEN n <= 1 ELSE n < Len(bind)
    BY <1>0, <1>2, <1>3 DEF Listening
  <1> HIDE DEF n, m
  <1>5. \A k \in DOMAIN ipfd' : ipfd'[k] \in DOMAIN tcp' /\ tcp'[ipfd'[k]] = "listening"
    <2>1. CASE ok
      <3>1. \A k \in 1..m : ipfd'[k] \in 1..(n + 1) /\ tcp'[ipfd'[k]] = "listening"
        BY <2>1, <1>2, <1>3, <1>4
      <3>2. tcp'[n + 1] = "listening" /\ n + 1 \in 1..(n + 1)
        BY <2>1, <1>2
      <3>. QED  BY <2>1, <3>1, <3>2, <1>2, <1>3
    <2>2. CASE ~ok
      BY <2>2, <1>1, <1>2, <1>3, <1>4
    <2>. QED  BY <2>1, <2>2
  <1>6. \A i \in DOMAIN tcp' : tcp'[i] = "listening" => \E k \in DOMAIN ipfd' : ipfd'[k] = i
    <2> SUFFICES ASSUME NEW i \in 1..(n + 1), tcp'[i] = "listening"
                 PROVE  \E k \in DOMAIN ipfd' : ipfd'[k] = i
      BY <1>2
    <2>1. CASE i = n + 1
      <3>1. ok
        BY <2>1, <1>2
      <3>. QED  BY <2>1, <3>1, <1>3
    <2>2. CASE i \in 1..n
      <3>1. PICK k \in 1..m : ipfd[k] = i
        BY <2>2, <1>2, <1>4
      <3>2. k \in DOMAIN ipfd' /\ ipfd'[k] = ipfd[k]
        BY <1>1, <1>3
      <3>. QED  BY <3>1, <3>2
    <2>. QED  BY <2>1, <2>2, <1>2
  <1>7. bind # <<>> /\ ok => Len(ipfd') = Len(tcp')
    BY <1>2, <1>3, <1>4
  <1>8. pc' = "listen" => IF bind = <<>> THEN Len(tcp') <= 1 ELSE Len(tcp') < Len(bind)
    <2>1. CASE bind = <<>> /\ pc' = "listen"
      <3>1. tcp = <<>>
        BY <2>1
      <3>2. n = 0
        BY <3>1, EmptySeq DEF n
      <3>. QED  BY <2>1, <3>2, <1>2
    <2>2. CASE bind # <<>>
      BY <2>2, <1>1, <1>2, <1>4
    <2>. QED  BY <2>1, <2>2
  <1>9. pc' = "poll" => IF bind = <<>> THEN ipfd' # <<>> ELSE Len(tcp') = Len(bind)
    BY <1>3
  <1>. QED  BY <1>0, <1>1, <1>5, <1>6, <1>7, <1>8, <1>9 DEF Listening, Serving

\* Each stage of the process keeps to its order.
LEMMA NextStages ==
    ASSUME Stages, [LifeNext]_lifeVars
    PROVE  Stages'
  <1> USE DEF confVars, signalVars, listenVars, serverVars, loopVars,
              stopVars, Between, Listen, Stages
  <1>1. CASE SignalStart
    BY <1>1 DEF SignalStart
  <1>2. CASE InitTun
    BY <1>2 DEF InitTun
  <1>3. CASE InitUdp
    BY <1>3 DEF InitUdp
  <1>4. CASE ListenAny6
    BY <1>4 DEF ListenAny6
  <1>5. CASE ListenAny4
    BY <1>5 DEF ListenAny4
  <1>6. CASE ListenAddress
    BY <1>6 DEF ListenAddress
  <1>7. CASE EndTurn
    BY <1>7 DEF EndTurn
  <1>8. CASE OnSignal
    BY <1>8 DEF OnSignal
  <1>9. CASE ShutdownTun
    BY <1>9 DEF ShutdownTun
  <1>10. CASE StopPoll
    BY <1>10 DEF StopPoll
  <1>11. CASE FreeRead
    BY <1>11 DEF FreeRead
  <1>12. CASE FreeWrite
    BY <1>12 DEF FreeWrite
  <1>13. CASE StopLoop
    BY <1>13 DEF StopLoop, CleanServerConfig
  <1>14. CASE Signal
    BY <1>14 DEF Signal
  <1>15. CASE NewTurn \/ OnIo \/ OnWork \/ OnFrame \/ OnSignalIgnored \/
             Pool \/ UseFreed \/ Request \/ UseDangling \/ OnClient
    BY <1>15 DEF NewTurn, OnIo, OnWork, OnFrame, OnSignalIgnored, Pool,
       UseFreed, Request, UseDangling, OnClient
  <1>16. CASE UNCHANGED lifeVars
    BY <1>16 DEF lifeVars
  <1>. QED
    BY <1>1, <1>2, <1>3, <1>4, <1>5, <1>6, <1>7, <1>8, <1>9, <1>10, <1>11,
       <1>12, <1>13, <1>14, <1>15, <1>16
       DEF LifeNext, Main

\* Nothing reaches the udp device before its socket is open.
LEMMA NextUnused ==
    ASSUME Stages, Unused, [LifeNext]_lifeVars
    PROVE  Unused'
  <1> USE DEF confVars, signalVars, listenVars, serverVars, loopVars,
              stopVars, vars, readVars, writeVars, pollVars, PollCb,
              PollCbError, ReadCallback, ReadDone, ReadCallbackEnd,
              WriteCallback, Enqueue, ReadEach, ReadStop, WriteEach,
              WriteStop, TakeHead, DoRead, DoWrite, Between, Listen, Stages,
              Unused
  <1>1. CASE InitUdp
    BY <1>1 DEF InitUdp
  <1>2. CASE OnIo
    BY <1>2 DEF OnIo
  <1>3. CASE OnWork
    BY <1>3 DEF OnWork
  <1>4. CASE OnFrame
    BY <1>4 DEF OnFrame
  <1>5. CASE StopPoll
    BY <1>5 DEF StopPoll
  <1>6. CASE FreeRead
    BY <1>6 DEF FreeRead
  <1>7. CASE FreeWrite
    BY <1>7 DEF FreeWrite
  <1>8. CASE Pool
    BY <1>8 DEF Pool
  <1>9. CASE SignalStart \/ InitTun \/ ListenAny6 \/ ListenAny4 \/
             ListenAddress \/ UseDangling \/ NewTurn \/ OnClient \/ EndTurn
             \/ OnSignalIgnored \/ OnSignal \/ ShutdownTun \/ UseFreed \/
             Request \/ Signal \/ StopLoop
    BY <1>9 DEF SignalStart, InitTun, ListenAny6, ListenAny4, ListenAddress,
       UseDangling, NewTurn, OnClient, EndTurn, OnSignalIgnored, OnSignal,
       ShutdownTun, UseFreed, Request, Signal, StopLoop, CleanServerConfig
  <1>10. CASE UNCHANGED lifeVars
    BY <1>10 DEF lifeVars
  <1>. QED
    BY <1>1, <1>2, <1>3, <1>4, <1>5, <1>6, <1>7, <1>8, <1>9, <1>10
       DEF LifeNext, Main

\* A quiet stop stays quiet up to uv_stop.
LEMMA NextCalm ==
    ASSUME Stages, Calm, [LifeNext]_lifeVars
    PROVE  Calm'
  <1> USE DEF confVars, signalVars, listenVars, serverVars, loopVars,
              stopVars, holdVars, vars, readVars, writeVars, pollVars,
              PollCb, PollCbError, ReadCallback, ReadDone, ReadCallbackEnd,
              WriteCallback, Enqueue, ReadEach, ReadStop, WriteEach,
              WriteStop, TakeHead, DoRead, DoWrite, SubmitRead, SubmitWrite,
              Between, Listen, Stages, Calm
  <1>1. CASE NewTurn
    BY <1>1 DEF NewTurn
  <1>2. CASE OnIo
    BY <1>2 DEF OnIo
  <1>3. CASE OnWork
    BY <1>3 DEF OnWork
  <1>4. CASE OnFrame
    BY <1>4 DEF OnFrame
  <1>5. CASE OnClient
    BY <1>5 DEF OnClient
  <1>6. CASE OnSignalIgnored
    BY <1>6 DEF OnSignalIgnored
  <1>7. CASE OnSignal
    BY <1>7 DEF OnSignal
  <1>8. CASE StopPoll
    BY <1>8 DEF StopPoll
  <1>9. CASE FreeRead
    BY <1>9 DEF FreeRead
  <1>10. CASE FreeWrite
    BY <1>10 DEF FreeWrite
  <1>11. CASE Pool
    BY <1>11 DEF Pool
  <1>12. CASE Request
    BY <1>12 DEF Request
  <1>13. CASE SignalStart \/ InitTun \/ InitUdp \/ ListenAny6 \/ ListenAny4
             \/ ListenAddress \/ UseDangling \/ EndTurn \/ ShutdownTun \/
             UseFreed \/ Signal \/ StopLoop
    BY <1>13 DEF SignalStart, InitTun, InitUdp, ListenAny6, ListenAny4,
       ListenAddress, UseDangling, EndTurn, ShutdownTun, UseFreed, Signal,
       StopLoop, CleanServerConfig
  <1>14. CASE UNCHANGED lifeVars
    BY <1>14 DEF lifeVars
  <1>. QED
    BY <1>1, <1>2, <1>3, <1>4, <1>5, <1>6, <1>7, <1>8, <1>9, <1>10, <1>11,
       <1>12, <1>13, <1>14
       DEF LifeNext, Main

\* The handles of the listeners, whoever closes or drops them.
LEMMA NextHandles ==
    ASSUME Stages, Handles, [LifeNext]_lifeVars
    PROVE  Handles'
  <1> USE DEF confVars, signalVars, listenVars, serverVars, loopVars,
              stopVars, Between, Listen, ClosePorts, Handles, TcpStates
  <1>1. CASE ListenAny6
    BY <1>1 DEF ListenAny6
  <1>2. CASE ListenAny4
    BY <1>2 DEF ListenAny4
  <1>3. CASE ListenAddress
    BY <1>3 DEF ListenAddress
  <1>4. CASE EndTurn
    BY <1>4 DEF EndTurn
  <1>5. CASE OnSignal
    <2>1. /\ DOMAIN tcp' = DOMAIN tcp
          /\ tcp' = [i \in DOMAIN tcp |-> tcp'[i]]
          /\ \A i \in DOMAIN tcp : tcp'[i] \in {"closing", tcp[i]}
      BY <1>5 DEF OnSignal
    <2>2. \A i \in DOMAIN tcp : tcp[i] \in TcpStates
      OBVIOUS
    <2>3. tcp' \in Seq(TcpStates)
      BY <2>1, <2>2, MapKeepsSeq
    <2>. QED  BY <1>5, <2>1, <2>3 DEF OnSignal
  <1>6. CASE SignalStart \/ InitTun \/ InitUdp \/ UseDangling \/ NewTurn \/
             OnIo \/ OnWork \/ OnFrame \/ OnClient \/ OnSignalIgnored \/
             ShutdownTun \/ StopPoll \/ FreeRead \/ FreeWrite \/
             StopLoop \/ Pool \/ UseFreed \/ Request \/ Signal
    BY <1>6 DEF SignalStart, InitTun, InitUdp, UseDangling, NewTurn, OnIo,
       OnWork, OnFrame, OnClient, OnSignalIgnored, ShutdownTun, StopPoll,
       FreeRead, FreeWrite, StopLoop, CleanServerConfig, Pool, UseFreed, Request,
       Signal
  <1>7. CASE UNCHANGED lifeVars
    BY <1>7 DEF lifeVars
  <1>. QED
    BY <1>1, <1>2, <1>3, <1>4, <1>5, <1>6, <1>7
       DEF LifeNext, Main

\* ipfd names exactly the handles that listen, until the stop.
LEMMA NextListening ==
    ASSUME Stages, Handles, Listening, [LifeNext]_lifeVars
    PROVE  Listening'
  <1> USE DEF confVars, signalVars, listenVars, serverVars, loopVars,
              stopVars, Between, ClosePorts, Range, Serving, Handles,
              Stages, TcpStates, Listening
  <1>1. CASE ListenAny6
    <2> PICK ok \in BOOLEAN : Listen(ok, "dropped")
      BY <1>1 DEF ListenAny6
    <2>. QED  BY <1>1, ListenSteps DEF ListenAny6
  <1>2. CASE ListenAny4
    <2> PICK ok \in BOOLEAN : Listen(ok, "closing")
      BY <1>2 DEF ListenAny4
    <2>. QED  BY <1>2, ListenSteps DEF ListenAny4
  <1>3. CASE ListenAddress
    <2> PICK ok \in BOOLEAN :
            /\ Listen(ok, "dropped")
            /\ pc' = IF ~ok THEN "exited" ELSE IF Len(tcp') = Len(bind) THEN "poll" ELSE "listen"
      BY <1>3 DEF ListenAddress
    <2>1. pc = "listen" /\ bind # <<>>
      BY <1>3 DEF ListenAddress
    <2>2. /\ ok \/ pc' = "exited"
          /\ pc' \in {"listen", "poll", "exited"}
          /\ ok => pc' = IF Len(tcp') = Len(bind) THEN "poll" ELSE "listen"
      OBVIOUS
    <2> HIDE DEF Listening, Handles, Stages, Serving
    <2>. QED  BY <2>1, <2>2, ListenSteps
  <1>4. CASE EndTurn
    BY <1>4 DEF EndTurn
  <1>5. CASE OnSignal
    BY <1>5 DEF OnSignal
  <1>6. CASE SignalStart \/ InitTun \/ InitUdp \/ UseDangling \/ NewTurn \/
             OnIo \/ OnWork \/ OnFrame \/ OnClient \/ OnSignalIgnored \/
             ShutdownTun \/ StopPoll \/ FreeRead \/ FreeWrite \/
             StopLoop \/ Pool \/ UseFreed \/ Request \/ Signal
    BY <1>6 DEF SignalStart, InitTun, InitUdp, UseDangling, NewTurn, OnIo,
       OnWork, OnFrame, OnClient, OnSignalIgnored, ShutdownTun, StopPoll,
       FreeRead, FreeWrite, StopLoop, CleanServerConfig, Pool, UseFreed, Request,
       Signal
  <1>7. CASE UNCHANGED lifeVars
    BY <1>7 DEF lifeVars
  <1>. QED
    BY <1>1, <1>2, <1>3, <1>4, <1>5, <1>6, <1>7
       DEF LifeNext, Main

\* Lengths are natural numbers, and only the empty sequence has length 0.
LEMMA QueueLengths ==
    ASSUME TypeOK
    PROVE  /\ Len(rDone) \in Nat /\ Len(wReady) \in Nat /\ Len(wWork) \in Nat
           /\ Len(rDone) = 0 <=> rDone = <<>>
           /\ Len(wReady) = 0 <=> wReady = <<>>
           /\ Len(wWork) = 0 <=> wWork = <<>>
  BY LenProperties, EmptySeq DEF TypeOK

\* The steps of a running device move buffers between its queues.
LEMMA DeviceStep ==
    ASSUME TypeOK, Next \/ UNCHANGED vars
    PROVE  TypeOK' /\ Held' = Held
  <1> DEFINE d == Len(rDone)
             q == Len(wReady)
             w == Len(wWork)
             d1 == Len(rDone')
             q1 == Len(wReady')
             w1 == Len(wWork')
  <1>0. /\ rAvail \in Nat /\ rWork \in Nat /\ wAvail \in Nat /\ wDone \in Nat
        /\ d \in Nat /\ q \in Nat /\ w \in Nat
        /\ Batch \in Nat
    BY QueueLengths, BatchAssumption DEF TypeOK
  <1>1. ASSUME NEW ev \in SUBSET {"R", "W"}, PollCb(ev)
        PROVE  TypeOK' /\ Held' = Held
    <2>1. /\ EmptyFrom(wReady, Batch) \in Seq(Packet)
          /\ EmptyTo(wReady, wWork, Batch) \in Seq(Packet)
          /\ Len(EmptyFrom(wReady, Batch)) + Len(EmptyTo(wReady, wWork, Batch)) = q + w
      BY BatchKeepsPackets DEF TypeOK
    <2>2. /\ wReady' \in Seq(Packet) /\ wWork' \in Seq(Packet)
          /\ q1 \in Nat /\ w1 \in Nat /\ q1 + w1 = q + w
          /\ wAvail' = wAvail /\ wDone' = wDone /\ rDone' = rDone
      <3>1. CASE "W" \in ev
        BY <1>1, <2>1, <3>1, LenProperties DEF PollCb, SubmitWrite
      <3>2. CASE "W" \notin ev
        BY <1>0, <1>1, <3>2 DEF PollCb, SubmitWrite, TypeOK
      <3>. QED  BY <3>1, <3>2
    <2>3. rAvail' \in Nat /\ rWork' \in Nat /\ rAvail' + rWork' = rAvail + rWork
      BY <1>0, <1>1 DEF PollCb, SubmitRead
    <2>4. TypeOK'
      BY <1>1, <2>2, <2>3 DEF PollCb, SubmitRead, SubmitWrite, TypeOK, Jobs
    <2>5. Held' = rAvail' + rWork' + d + wAvail + q1 + w1 + wDone
      BY <2>2 DEF Held
    <2>6. rAvail' + rWork' + d + wAvail + q1 + w1 + wDone = rAvail + rWork + d + wAvail + q + w + wDone
      <3>1. /\ q1 \in Nat /\ w1 \in Nat /\ q1 + w1 = q + w
            /\ rAvail' \in Nat /\ rWork' \in Nat /\ rAvail' + rWork' = rAvail + rWork
        BY <2>2, <2>3
      <3> HIDE DEF d, q, w, d1, q1, w1
      <3>2. ASSUME NEW a \in Nat, NEW b \in Nat, a + b = rAvail + rWork
            PROVE  a + b + d + wAvail + q1 + w1 + wDone
                     = rAvail + rWork + d + wAvail + q + w + wDone
        BY <1>0, <3>1, <3>2
      <3>. QED  BY <3>1, <3>2
    <2>. QED  BY <2>4, <2>5, <2>6 DEF Held
  <1>2. CASE PollCbError \/ ReadCallback \/ ReadStop \/ WriteStop
    <2>1. UNCHANGED <<rAvail, rWork, rDone, wAvail, wReady, wWork, wDone>>
      BY <1>2 DEF PollCbError, ReadCallback, ReadStop, WriteStop, readVars, writeVars
    <2>2. TypeOK'
      BY <1>2 DEF PollCbError, ReadCallback, ReadStop, WriteStop, readVars, writeVars,
                  pollVars, TypeOK, Jobs
    <2>. QED  BY <2>1, <2>2 DEF Held
  <1>3. CASE ReadDone
    <2>1. rDone' \in Seq(Frame) /\ d1 = d - 1 /\ d # 0
      BY <1>3, QueueLengths, HeadTailProperties DEF ReadDone, TypeOK
    <2>2. TypeOK'
      BY <1>3, <2>1 DEF ReadDone, writeVars, pollVars, TypeOK
    <2>. QED  BY <1>0, <1>3, <2>1, <2>2 DEF ReadDone, writeVars, Held
  <1>4. CASE ReadCallbackEnd
    <2>1. armed' \in SUBSET {"R", "W"}
      BY <1>4 DEF ReadCallbackEnd, PollStart, PollFlags
    <2>2. TypeOK'
      BY <1>4, <2>1 DEF ReadCallbackEnd, PollStart, writeVars, TypeOK
    <2>. QED  BY <1>4, <2>2 DEF ReadCallbackEnd, writeVars, Held
  <1>5. CASE WriteCallback
    <2>1. armed' \in SUBSET {"R", "W"} /\ pollErr' = FALSE
      BY <1>5 DEF WriteCallback, PollStart, PollFlags
    <2>2. /\ wAvail' = wAvail + wDone /\ wDone' = 0 /\ wWorking' = FALSE /\ wJob' = "idle"
          /\ UNCHANGED <<rAvail, rWork, rDone, rWorking, rJob, rCallback, wReady, wWork>>
      BY <1>5 DEF WriteCallback, readVars
    <2>3. pollErr' \in BOOLEAN
      BY <2>1, Zenon
    <2>4. wAvail' \in Nat /\ wDone' \in Nat /\ wAvail' + wDone' = wAvail + wDone
      BY <1>0, <2>2
    <2>5. /\ UNCHANGED <<rAvail, rWork, rDone, rWorking, rJob, rCallback, wReady, wWork>>
          /\ wWorking' = FALSE /\ wJob' = "idle"
      BY <2>2
    <2>6. TypeOK'
      BY <2>1, <2>3, <2>4, <2>5 DEF TypeOK, Jobs
    <2>. QED  BY <1>0, <2>2, <2>6 DEF Held
  <1>6. ASSUME NEW p \in Packet, Enqueue(p)
        PROVE  TypeOK' /\ Held' = Held
    <2>1. armed' \in SUBSET {"R", "W"} /\ pollErr' = FALSE
      BY <1>6 DEF Enqueue, PollStart, PollFlags
    <2>2. wReady' \in Seq(Packet) /\ q1 = q + 1
      BY <1>6, AppendProperties DEF Enqueue, TypeOK
    <2>3. /\ wAvail' = wAvail - 1 /\ wAvail > 0
          /\ UNCHANGED <<rAvail, rWork, rDone, rWorking, rJob, rCallback>>
          /\ UNCHANGED <<wWork, wDone, wWorking, wJob>>
      BY <1>6 DEF Enqueue, readVars
    <2>4. pollErr' \in BOOLEAN
      BY <2>1, Zenon
    <2>5. TypeOK'
      BY <1>0, <2>1, <2>2, <2>3, <2>4 DEF TypeOK, Jobs
    <2>6. Held' = rAvail + rWork + d + (wAvail - 1) + (q + 1) + w + wDone
      BY <2>2, <2>3 DEF Held
    <2>7. rAvail + rWork + d + (wAvail - 1) + (q + 1) + w + wDone
            = rAvail + rWork + d + wAvail + q + w + wDone
      <3> HIDE DEF d, q, w
      <3>. QED  BY <1>0
    <2>. QED  BY <2>5, <2>6, <2>7 DEF Held
  <1>7. ASSUME NEW f \in Frame, ReadEach(f)
        PROVE  TypeOK' /\ Held' = Held
    <2>1. rDone' \in Seq(Frame) /\ d1 = d + 1
      BY <1>7, AppendProperties DEF ReadEach, TypeOK
    <2>2. TypeOK'
      BY <1>0, <1>7, <2>1 DEF ReadEach, writeVars, pollVars, TypeOK
    <2>. QED  BY <1>0, <1>7, <2>1, <2>2 DEF ReadEach, writeVars, Held
  <1>8. CASE WriteEach
    <2>1. wWork' \in Seq(Packet) /\ w1 = w - 1
      BY <1>8, HeadTailProperties DEF WriteEach, TypeOK
    <2>2. TypeOK'
      BY <1>0, <1>8, <2>1 DEF WriteEach, readVars, pollVars, TypeOK
    <2>. QED  BY <1>0, <1>8, <2>1, <2>2 DEF WriteEach, readVars, Held
  <1>9. CASE UNCHANGED vars
    BY <1>9 DEF vars, readVars, writeVars, pollVars, TypeOK, Held
  <1>. QED
    BY <1>1, <1>2, <1>3, <1>4, <1>5, <1>6, <1>7, <1>8, <1>9 DEF Next, MainStep, PoolStep

\* A device that holds no buffer has nothing on any queue.
LEMMA EmptyQueues ==
    ASSUME TypeOK, Held = 0
    PROVE  /\ rAvail = 0 /\ rWork = 0 /\ wAvail = 0 /\ wDone = 0
           /\ rDone = <<>> /\ wReady = <<>> /\ wWork = <<>>
  <1> DEFINE d == Len(rDone)
             q == Len(wReady)
             w == Len(wWork)
  <1>1. /\ rAvail \in Nat /\ rWork \in Nat /\ wAvail \in Nat /\ wDone \in Nat
        /\ d \in Nat /\ q \in Nat /\ w \in Nat
    BY QueueLengths DEF TypeOK
  <1>2. rAvail + rWork + d + wAvail + q + w + wDone = 0
    BY DEF Held
  <1>3. d = 0 /\ q = 0 /\ w = 0 /\ rAvail = 0 /\ rWork = 0 /\ wAvail = 0 /\ wDone = 0
    <2> HIDE DEF d, q, w
    <2>. QED  BY <1>1, <1>2
  <1>. QED  BY <1>3, QueueLengths

\* The steps of the process that are steps of the running device.
LEMMA OnDeviceStep ==
    ASSUME Stages, TypeOK, Counted, OnIo \/ OnWork \/ OnFrame \/ Pool
    PROVE  TypeOK' /\ Counted'
  <1>1. Next \/ UNCHANGED vars
    <2>1. CASE OnIo
      BY <2>1 DEF OnIo, Next, MainStep
    <2>2. CASE OnWork
      BY <2>2 DEF OnWork, Next, MainStep
    <2>3. CASE OnFrame
      BY <2>3 DEF OnFrame, Next, MainStep
    <2>4. CASE Pool
      BY <2>4 DEF Pool, TakeHead, DoRead, DoWrite, Next, PoolStep
    <2>. QED  BY <2>1, <2>2, <2>3, <2>4
  <1>2. TypeOK' /\ Held' = Held
    BY <1>1, DeviceStep
  <1>3. UNCHANGED <<pc, routing, handler, freed>>
    BY DEF OnIo, OnWork, OnFrame, Pool, confVars, stopVars
  <1>4. handler \in {"read", "write"} => Pool
    BY DEF OnIo, OnWork, OnFrame, Between
  <1>5. ASSUME handler = "read" \/ handler = "write"
        PROVE  rAvail' = rAvail
    BY <1>4, <1>5 DEF Pool, TakeHead, DoRead, DoWrite, ReadEach, ReadStop, WriteEach,
         WriteStop, vars, readVars
  <1>6. ASSUME handler = "write"
        PROVE  rWork' = 0 /\ rDone' = <<>> /\ wAvail' = 0 /\ wReady' = <<>>
    BY <1>4, <1>6 DEF Pool, TakeHead, DoRead, DoWrite, ReadEach, ReadStop, WriteEach,
         WriteStop, vars, readVars, writeVars, Counted
  <1>. QED  BY <1>2, <1>3, <1>5, <1>6 DEF Counted

\* Every buffer is on a queue of the device or has been freed.
LEMMA NextCounted ==
    ASSUME Stages, TypeOK, Counted, [LifeNext]_lifeVars
    PROVE  TypeOK' /\ Counted'
  <1> DEFINE d == Len(rDone)
             q == Len(wReady)
             w == Len(wWork)
  <1>0. /\ rAvail \in Nat /\ rWork \in Nat /\ wAvail \in Nat /\ wDone \in Nat
        /\ d \in Nat /\ q \in Nat /\ w \in Nat
        /\ freed \in Nat /\ Held \in Nat
        /\ RBufs \in Nat /\ WBufs \in Nat
    BY QueueLengths, RBufsAssumption, WBufsAssumption DEF TypeOK, Counted, Held
  <1>1. CASE OnIo \/ OnWork \/ OnFrame \/ Pool
    BY <1>1, OnDeviceStep
  <1>2. CASE InitUdp
    <2>1. pc = "udp" /\ Held = 0 /\ freed = 0 /\ handler = "none" /\ routing
      BY <1>0, <1>2 DEF InitUdp, Counted, Stages
    <2>2. /\ rAvail = 0 /\ rWork = 0 /\ wAvail = 0 /\ wDone = 0
          /\ rDone = <<>> /\ wReady = <<>> /\ wWork = <<>>
      BY <2>1, EmptyQueues
    <2>3. /\ handler' = "none" /\ freed' = 0 /\ routing' = routing
          /\ UNCHANGED <<rWork, rDone, rWorking, rJob, rCallback, wReady, wWork, wDone, wWorking, wJob>>
      BY <1>2, <2>1 DEF InitUdp, stopVars, confVars
    <2>4. CASE pc' = "listen" /\ rAvail' = RBufs /\ wAvail' = WBufs /\ PollStart(rWorking, wWorking, wReady)
      <3>1. armed' \in SUBSET {"R", "W"} /\ pollErr' = FALSE
        BY <2>4 DEF PollStart, PollFlags
      <3>2. pollErr' \in BOOLEAN
        BY <3>1, Zenon
      <3>3. TypeOK'
        BY <1>0, <2>3, <2>4, <3>1, <3>2 DEF TypeOK
      <3>4. Held' = RBufs + 0 + Len(<<>>) + WBufs + Len(<<>>) + Len(<<>>) + 0
        BY <2>2, <2>3, <2>4 DEF Held
      <3>5. Held' = RBufs + WBufs
        BY <1>0, <3>4, EmptySeq
      <3>. QED  BY <1>0, <2>1, <2>3, <2>4, <3>3, <3>5 DEF Counted
    <2>5. CASE pc' = "exited" /\ UNCHANGED <<udpOpen, rAvail, wAvail, pollVars>>
      BY <2>1, <2>3, <2>5 DEF TypeOK, Held, Counted, pollVars
    <2>. QED  BY <1>2, <2>4, <2>5 DEF InitUdp
  <1>3. CASE StopPoll
    <2>1. TypeOK'
      BY <1>0, <1>3 DEF StopPoll, writeVars, TypeOK
    <2>2. /\ rAvail' = 0 /\ freed' = freed + rAvail /\ handler' = "read" /\ handler = "poll"
          /\ UNCHANGED <<pc, routing, rWork, rDone, wAvail, wReady, wWork, wDone>>
      BY <1>3 DEF StopPoll, writeVars, confVars
    <2>3. freed' \in Nat /\ freed' + Held' = freed + Held
      <3>1. Held' = 0 + rWork + d + wAvail + q + w + wDone
        BY <2>2 DEF Held
      <3>2. Held = rAvail + rWork + d + wAvail + q + w + wDone
        BY DEF Held
      <3> HIDE DEF d, q, w
      <3>. QED  BY <1>0, <2>2, <3>1, <3>2
    <2>. QED  BY <2>1, <2>2, <2>3 DEF Counted
  <1>4. CASE FreeRead
    <2>1. CASE rWork > 0
      <3>1. /\ rWork' = rWork - 1 /\ freed' = freed + 1 /\ handler' = handler /\ handler = "read"
            /\ UNCHANGED <<pc, routing, rAvail, rDone, wAvail, wReady, wWork, wDone>>
        BY <1>4, <2>1 DEF FreeRead, confVars
      <3>2. TypeOK'
        BY <1>0, <1>4, <2>1, <3>1 DEF FreeRead, pollVars, TypeOK
      <3>3. freed' \in Nat /\ freed' + Held' = freed + Held
        <4>1. Held' = rAvail + (rWork - 1) + d + wAvail + q + w + wDone
          BY <3>1 DEF Held
        <4>2. Held = rAvail + rWork + d + wAvail + q + w + wDone
          BY DEF Held
        <4> HIDE DEF d, q, w
        <4>. QED  BY <1>0, <3>1, <4>1, <4>2
      <3>. QED  BY <3>1, <3>2, <3>3 DEF Counted
    <2>2. CASE ~(rWork > 0)
      <3>1. /\ freed' = freed + d + wAvail + q /\ rDone' = <<>> /\ wAvail' = 0 /\ wReady' = <<>>
            /\ handler' = "write" /\ handler = "read"
            /\ UNCHANGED <<pc, routing, rAvail, rWork, wWork, wDone>>
        BY <1>4, <2>2 DEF FreeRead, confVars
      <3>2. rWork = 0 /\ rAvail = 0
        BY <1>0, <2>2, <3>1 DEF Counted
      <3>3. TypeOK'
        BY <1>0, <1>4, <3>1, EmptySeq DEF FreeRead, pollVars, TypeOK
      <3>4. freed' \in Nat /\ freed' + Held' = freed + Held
        <4>1. Held' = 0 + 0 + 0 + 0 + 0 + w + wDone
          BY <3>1, <3>2, EmptySeq DEF Held
        <4>2. Held = 0 + 0 + d + wAvail + q + w + wDone
          BY <3>2 DEF Held
        <4> HIDE DEF d, q, w
        <4>. QED  BY <1>0, <3>1, <4>1, <4>2
      <3>. QED  BY <3>1, <3>2, <3>3, <3>4 DEF Counted
    <2>. QED  BY <2>1, <2>2
  <1>5. CASE FreeWrite
    <2>0. handler = "write" /\ rAvail = 0 /\ rWork = 0 /\ rDone = <<>> /\ wAvail = 0 /\ wReady = <<>>
      BY <1>5 DEF FreeWrite, Counted
    <2>1. CASE wWork # <<>>
      <3>1. /\ wWork' = SubSeq(wWork, 1, w - 1) /\ freed' = freed + 1 /\ handler' = handler
            /\ UNCHANGED <<pc, routing, rAvail, rWork, rDone, wAvail, wReady, wDone>>
        BY <1>5, <2>1 DEF FreeWrite, confVars, readVars
      <3>2. wWork' \in Seq(Packet) /\ Len(wWork') = w - 1 /\ w > 0
        <4>1. w > 0
          BY <1>0, <2>1, QueueLengths
        <4>2. wWork \in Seq(Packet) /\ w = Len(wWork)
          BY DEF TypeOK
        <4>3. \A i \in 1..(w - 1) : wWork[i] \in Packet
          BY <4>2, ElementOfSeq, <1>0
        <4>4. SubSeq(wWork, 1, w - 1) \in Seq(Packet)
          BY <4>1, <4>2, <4>3, <1>0, SubSeqProperties
        <4>5. Len(SubSeq(wWork, 1, w - 1)) = w - 1
          <5>1. Len(SubSeq(wWork, 1, w - 1)) = IF 1 <= w - 1 THEN (w - 1) - 1 + 1 ELSE 0
            BY <4>3, <1>0, SubSeqProperties
          <5> HIDE DEF w
          <5>. QED  BY <5>1, <4>1, <1>0
        <4>. QED  BY <3>1, <4>1, <4>4, <4>5
      <3>3. TypeOK'
        BY <1>0, <1>5, <3>1, <3>2 DEF FreeWrite, pollVars, readVars, TypeOK
      <3>4. freed' \in Nat /\ freed' + Held' = freed + Held
        <4>1. Held' = rAvail + rWork + d + wAvail + q + (w - 1) + wDone
          BY <3>1, <3>2 DEF Held
        <4>2. Held = rAvail + rWork + d + wAvail + q + w + wDone
          BY DEF Held
        <4> HIDE DEF d, q, w
        <4>. QED  BY <1>0, <3>1, <4>1, <4>2
      <3>. QED  BY <2>0, <3>1, <3>3, <3>4 DEF Counted
    <2>2. CASE wWork = <<>>
      <3>1. /\ freed' = freed + wDone /\ wDone' = 0 /\ handler' = "clean"
            /\ UNCHANGED <<pc, routing, rAvail, rWork, rDone, wAvail, wReady, wWork>>
        BY <1>5, <2>2 DEF FreeWrite, confVars, readVars
      <3>2. TypeOK'
        BY <1>0, <1>5, <3>1 DEF FreeWrite, pollVars, readVars, TypeOK
      <3>3. Held' = 0 /\ Held = wDone
        <4>1. Held' = 0 + 0 + 0 + 0 + 0 + 0 + 0 /\ Held = 0 + 0 + 0 + 0 + 0 + 0 + wDone
          BY <2>0, <2>2, <3>1, EmptySeq DEF Held
        <4>. QED  BY <1>0, <4>1
      <3>. QED  BY <1>0, <2>0, <3>1, <3>2, <3>3 DEF Counted
    <2>. QED  BY <2>1, <2>2
  <1>6. CASE \/ SignalStart \/ InitTun \/ ListenAny6 \/ ListenAny4 \/ ListenAddress
             \/ UseDangling \/ NewTurn \/ OnClient \/ EndTurn \/ OnSignalIgnored \/ OnSignal
             \/ ShutdownTun \/ StopLoop \/ UseFreed \/ Request \/ Signal
             \/ UNCHANGED lifeVars
    <2>1. UNCHANGED vars
      BY <1>6 DEF SignalStart, InitTun, ListenAny6, ListenAny4, ListenAddress, Listen,
           UseDangling, NewTurn, OnClient, EndTurn, OnSignalIgnored, OnSignal,
           ShutdownTun, StopLoop, CleanServerConfig, UseFreed, Request, Signal, lifeVars
    <2>2. TypeOK' /\ Held' = Held
      BY <2>1, DeviceStep
    <2>3. Counted'
      BY <1>0, <1>6, <2>1, <2>2
         DEF SignalStart, InitTun, ListenAny6, ListenAny4, ListenAddress, Listen,
             UseDangling, NewTurn, OnClient, EndTurn, OnSignalIgnored, OnSignal,
             ShutdownTun, StopLoop, CleanServerConfig, UseFreed, Request, Signal, Between, lifeVars,
             vars, readVars, writeVars, confVars, stopVars, Counted, Stages
    <2>. QED  BY <2>2, <2>3
  <1>. QED
    BY <1>1, <1>2, <1>3, <1>4, <1>5, <1>6 DEF LifeNext, Main

\* The inductive invariant.
LInv == Stages /\ Unused /\ Calm /\ Handles /\ Listening /\ TypeOK /\ Counted

LEMMA InitLInv == LifeInit => LInv
  <1> SUFFICES ASSUME LifeInit PROVE LInv
    OBVIOUS
  <1>1. Stages /\ Unused /\ Calm
    BY DEF LifeInit, Stages, Unused, Calm
  <1>2. Len(bind) \in Nat
    BY BindsAssumption, LenProperties DEF LifeInit
  <1>3. Handles /\ Listening
    BY <1>2, EmptySeq DEF LifeInit, Handles, Listening, Serving
  <1>4. TypeOK
    BY EmptySeq DEF LifeInit, TypeOK, Jobs
  <1>5. Held = 0 + 0 + 0 + 0 + 0 + 0 + 0
    BY EmptySeq DEF LifeInit, Held
  <1>6. Counted
    BY <1>5 DEF LifeInit, Counted
  <1>. QED  BY <1>1, <1>3, <1>4, <1>6 DEF LInv

LEMMA NextLInv == LInv /\ [LifeNext]_lifeVars => LInv'
  BY NextStages, NextUnused, NextCalm, NextHandles, NextListening, NextCounted DEF LInv

LEMMA AlwaysLInv == LifeSpec => []LInv
  BY InitLInv, NextLInv, PTL DEF LifeSpec

-----------------------------------------------------------------------------
\* listen_to_port (api.c:293-357): however the binds fail, a server that runs
\* listens on what it was asked for, and only the handle of the IPv6 wildcard
\* is ever freed under the loop.
THEOREM ListenKept == LifeSpec => []ListensAsAsked
  <1>1. LInv => ListensAsAsked
    <2> SUFFICES ASSUME LInv, Serving PROVE ListensAsAsked
      BY DEF ListensAsAsked
    <2>1. IF bind = <<>> THEN ipfd # <<>> ELSE Len(ipfd) = Len(bind)
      BY DEF LInv, Listening, Serving
    <2>2. \A k \in DOMAIN ipfd : tcp[ipfd[k]] = "listening"
      BY DEF LInv, Listening, Serving
    <2>3. \A i \in DOMAIN tcp : tcp[i] = "dropped" => bind = <<>> /\ i = 1
      BY DEF LInv, Handles, Serving
    <2>. QED  BY <2>1, <2>2, <2>3 DEF ListensAsAsked
  <1>. QED  BY <1>1, AlwaysLInv, PTL

\* The loop is never left waiting on the closed udp socket: shutdown_routing
\* (route.c) closes it in the handler, and uv_stop ends the loop before it
\* polls again.
THEOREM PollsOpen == LifeSpec => []PolledIsOpen
  <1>1. LInv => PolledIsOpen
    BY DEF LInv, Stages, Unused, PolledIsOpen
  <1>. QED  BY <1>1, AlwaysLInv, PTL

\* When uv_run returns, every buffer of the udp device has been freed once,
\* wherever the stop found it (async_io.c:185-210), and every listener, the
\* socket and the lists are closed.
THEOREM Released == LifeSpec => []AllReleased
  <1>1. LInv => AllReleased
    <2> SUFFICES ASSUME LInv, pc = "ended" PROVE AllReleased
      BY DEF AllReleased
    <2>1. handler = "done" /\ ~lists /\ ~udpOpen
      BY DEF LInv, Stages
    <2>2. Held = 0 /\ freed \in Nat /\ freed + Held = IF routing THEN RBufs + WBufs ELSE 0
      BY <2>1 DEF LInv, Counted
    <2>3. freed = IF routing THEN RBufs + WBufs ELSE 0
      BY <2>2, RBufsAssumption, WBufsAssumption
    <2>4. \A i \in DOMAIN tcp : tcp[i] = "closed" \/ (tcp[i] = "dropped" /\ i = 1)
      BY DEF LInv, Listening, Handles
    <2>. QED  BY <2>1, <2>2, <2>3, <2>4 DEF AllReleased, Held
  <1>. QED  BY <1>1, AlwaysLInv, PTL

\* The step into the undefined state is the only one to look at.
StopDefined ==
    pc' = "undefined" /\ pc # "undefined" =>
        Dangling' \/ (tun' = "down" /\ handler' = "tun") \/ (handler' # "none" /\ ~quiet')
        \/ (handler' = "none" /\ client' = "status" /\ ~tunName')

LEMMA NextStopDefined ==
    ASSUME LInv, [LifeNext]_lifeVars
    PROVE  StopDefined
  <1> USE DEF LInv, StopDefined, confVars, signalVars, listenVars, serverVars, loopVars,
              stopVars, holdVars, Between
  <1>1. CASE UseDangling
    BY <1>1 DEF UseDangling, Dangling
  <1>2. CASE OnClient
    BY <1>2 DEF OnClient, Stages, Calm
  <1>3. CASE OnSignal
    BY <1>3 DEF OnSignal, Stages
  <1>4. CASE ShutdownTun
    BY <1>4 DEF ShutdownTun
  <1>5. CASE UseFreed
    BY <1>5 DEF UseFreed, Calm
  <1>6. CASE \/ SignalStart \/ InitTun \/ InitUdp \/ ListenAny6 \/ ListenAny4 \/ ListenAddress
             \/ NewTurn \/ OnIo \/ OnWork \/ OnFrame \/ EndTurn \/ OnSignalIgnored
             \/ StopPoll \/ FreeRead \/ FreeWrite \/ StopLoop \/ Pool
             \/ Request \/ Signal \/ UNCHANGED lifeVars
    BY <1>6 DEF SignalStart, InitTun, InitUdp, ListenAny6, ListenAny4, ListenAddress,
         NewTurn, OnIo, OnWork, OnFrame, EndTurn, OnSignalIgnored, StopPoll, FreeRead,
         FreeWrite, StopLoop, CleanServerConfig, Pool, Request, Signal, lifeVars
  <1>. QED
    BY <1>1, <1>2, <1>3, <1>4, <1>5, <1>6 DEF LifeNext, Main

\* Nothing happens after it.
LEMMA UndefinedStays ==
    ASSUME pc = "undefined", [LifeNext]_lifeVars
    PROVE  UNCHANGED <<pc, tcp, tun, handler, quiet, client, tunName>>
  BY DEF LifeNext, Main, SignalStart, InitTun, InitUdp, ListenAny6, ListenAny4,
       ListenAddress, UseDangling, NewTurn, OnIo, OnWork, OnFrame, OnClient, EndTurn,
       OnSignalIgnored, OnSignal, ShutdownTun, StopPoll, FreeRead, FreeWrite,
       StopLoop, CleanServerConfig, Pool, UseFreed, Request, Signal, Between, Over, lifeVars,
       confVars, signalVars, listenVars, serverVars, loopVars, stopVars

\* signal_handler (redd.c:126-140) is safe in a quiet moment: what goes wrong
\* in a stop needs a job of the pool or a request for a list that was there
\* when the signal came, a tun device that failed, or the dropped listener.
THEOREM StopsCleanly == LifeSpec => []CleanStop
  <1>1. LifeInit => CleanStop
    BY DEF LifeInit, CleanStop
  <1>2. LInv /\ CleanStop /\ [LifeNext]_lifeVars => CleanStop'
    <2> SUFFICES ASSUME LInv, CleanStop, [LifeNext]_lifeVars, pc' = "undefined"
                 PROVE  CleanStop'
      BY DEF CleanStop
    <2>1. CASE pc = "undefined"
      BY <2>1, UndefinedStays DEF CleanStop, Dangling
    <2>2. CASE pc # "undefined"
      BY <2>2, NextStopDefined DEF StopDefined, CleanStop
    <2>. QED  BY <2>1, <2>2
  <1>. QED  BY <1>1, <1>2, AlwaysLInv, PTL DEF LifeSpec
=============================================================================
