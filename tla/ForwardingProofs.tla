-------------------------- MODULE ForwardingProofs --------------------------
(* The two devices of the data path are devices in the sense of AsyncIo, for *)
(* any nodes, frames, numbers of buffers and bounds.                         *)
EXTENDS Forwarding, NgxQueueProofs

\* The frames the kernel has routed to the tun device.
Arrived == [hdr : Headers, id : FrameId]

\* What is on the way to SendToRed: the frame at hand and the nodes to visit.
InTransit ==
    /\ nextId \in 0..MaxFrames
    /\ tunIn \in Seq(Arrived)
    /\ tDone \in Seq(TunFrame)
    /\ nodes \in Seq(Node) /\ iter \in Seq(Node)
    /\ handling => tDone # <<>>

\* The fields of a frame, and of a frame that was cut.
LEMMA HeaderFields ==
    ASSUME NEW h \in FrameHeaders, NEW n
    PROVE  /\ h.ihl \in 0..15 /\ h.len \in Nat
           /\ [h EXCEPT !.len = n].len = n
           /\ [h EXCEPT !.len = n].ihl = h.ihl
  <1> DEFINE P == 0..255
             I == 0..15
             U == 0..(2^16 - 1)
  <1>1. h \in [proto : P, ihl : I, udplen : U, len : Nat]
    BY Zenon DEF FrameHeaders
  <1> HIDE DEF P, I, U
  <1>2. h.ihl \in I /\ h.len \in Nat
    BY <1>1
  <1>3. [h EXCEPT !.len = n].len = n /\ [h EXCEPT !.len = n].ihl = h.ihl
    BY <1>1
  <1>. QED  BY <1>2, <1>3 DEF I

\* A frame that was cut to the tun buffer has a payload that fits the udp
\* buffer.
LEMMA CutFits ==
    ASSUME NEW f \in TunFrame
    PROVE  /\ DataLen(f.hdr) \in Int /\ DataLen(f.hdr) <= WriteBufLen
           /\ f.hdr.len \in Int /\ PayloadStart(f.hdr) \in Int
  <1>1. PICK h \in Headers : f.hdr = Truncated(h, ReadBufLen)
    BY DEF TunFrame
  <1>2. h \in FrameHeaders
    BY HeadersAssumption
  <1>3. h.len \in Nat /\ h.ihl \in Nat
    <2>1. h.len \in Nat
      BY <1>2, HeaderFields
    <2>2. h.ihl \in 0..15
      BY <1>2, HeaderFields
    <2>. QED  BY <2>1, <2>2
  <1>4. f.hdr.len \in Nat /\ f.hdr.len <= ReadBufLen /\ f.hdr.ihl = h.ihl
    <2>1. CASE h.len > ReadBufLen
      <3>1. f.hdr = [h EXCEPT !.len = ReadBufLen]
        BY <1>1, <2>1 DEF Truncated
      <3>2. f.hdr.len = ReadBufLen
        BY <1>2, <3>1, HeaderFields
      <3>3. f.hdr.ihl = h.ihl
        BY <1>2, <3>1, HeaderFields
      <3>. QED  BY <3>2, <3>3, BufsAssumption
    <2>2. CASE ~(h.len > ReadBufLen)
      <3>1. f.hdr = h
        BY <1>1, <2>2 DEF Truncated
      <3>. QED  BY <1>3, <2>2, <3>1, BufsAssumption
    <2>. QED  BY <2>1, <2>2
  <1>. QED
    BY <1>3, <1>4, BufsAssumption DEF DataLen, PayloadStart, UdpHeaderLen

\* Taking an element out of a sequence.
LEMMA RemoveAtIsSeq ==
    ASSUME NEW S, NEW s \in Seq(S), NEW k \in DOMAIN s
    PROVE  RemoveAt(s, k) \in Seq(S)
  <1> DEFINE n == Len(s)
  <1>1. n \in Nat /\ k \in 1..n /\ \A i \in 1..n : s[i] \in S
    BY LenProperties, ElementOfSeq
  <1>2. SubSeq(s, 1, k - 1) \in Seq(S)
    <2>1. k - 1 \in Int /\ \A i \in 1..(k - 1) : s[i] \in S
      BY <1>1
    <2>. QED  BY <2>1, SubSeqProperties
  <1>3. SubSeq(s, k + 1, n) \in Seq(S)
    <2>1. k + 1 \in Int /\ \A i \in (k + 1)..n : s[i] \in S
      BY <1>1
    <2>. QED  BY <1>1, <2>1, SubSeqProperties
  <1>. QED  BY <1>2, <1>3, ConcatProperties DEF RemoveAt

LEMMA HeadTailOf ==
    ASSUME NEW S, NEW s \in Seq(S), s # <<>>
    PROVE  Head(s) \in S /\ Tail(s) \in Seq(S)
  BY HeadTailProperties

LEMMA AppendOf ==
    ASSUME NEW S, NEW s \in Seq(S), NEW e \in S
    PROVE  Append(s, e) \in Seq(S)
  BY AppendProperties

LEMMA InitInTransit == Init => InTransit
  BY NodesAssumption, BoundsAssumption, EmptySeq DEF Init, Tun!Init, InTransit

\* A frame that arrives, is read, handled and recycled keeps its form.
LEMMA TunInTransit ==
    ASSUME InTransit, Kernel \/ TunMain \/ TunPool
    PROVE  InTransit'
  <1> USE DEF InTransit, tunVars, tunRVars, udpVars, routeVars, kernelVars
  <1>1. ASSUME NEW h \in Headers, TunArrive(h)
        PROVE  InTransit'
    <2>1. nextId \in FrameId /\ nextId' \in 0..MaxFrames
      BY <1>1, BoundsAssumption DEF TunArrive, FrameId
    <2>2. [hdr |-> h, id |-> nextId] \in Arrived
      BY <2>1 DEF Arrived
    <2>3. tunIn' \in Seq(Arrived)
      BY <1>1, <2>2, AppendOf DEF TunArrive
    <2>. QED  BY <1>1, <2>1, <2>3 DEF TunArrive
  <1>2. CASE UdpArrive
    BY <1>2 DEF UdpArrive
  <1>3. CASE TunPoll
    BY <1>3 DEF TunPoll, Tun!PollCb
  <1>4. CASE TunReadCallback
    BY <1>4 DEF TunReadCallback, Tun!ReadCallback
  <1>5. CASE HandleLocalFrame
    BY <1>5 DEF HandleLocalFrame
  <1>6. CASE SendToRed
    <2>1. iter' \in Seq(Node)
      BY <1>6, HeadTailOf DEF SendToRed
    <2>. QED  BY <1>6, <2>1 DEF SendToRed
  <1>7. CASE TunReadDone
    <2>1. tDone' \in Seq(TunFrame)
      BY <1>7, HeadTailOf DEF TunReadDone, Tun!ReadDone
    <2>. QED  BY <1>7, <2>1 DEF TunReadDone
  <1>8. CASE TunReadCallbackEnd
    BY <1>8 DEF TunReadCallbackEnd, Tun!ReadCallbackEnd
  <1>9. CASE TunReadEach
    <2> DEFINE f == Head(tunIn)
               g == [f EXCEPT !.hdr = Truncated(@, ReadBufLen)]
    <2>1. f \in Arrived /\ tunIn' \in Seq(Arrived)
      BY <1>9, HeadTailOf DEF TunReadEach
    <2>2. g \in TunFrame
      BY <2>1 DEF Arrived, TunFrame
    <2>3. tDone' = Append(tDone, g)
      BY <1>9 DEF TunReadEach, Tun!ReadEach
    <2>4. tDone' \in Seq(TunFrame) /\ tDone' # <<>>
      <3>1. tDone' \in Seq(TunFrame)
        BY <2>2, <2>3, AppendOf
      <3>2. Len(tDone') = Len(tDone) + 1 /\ Len(tDone) \in Nat
        BY <2>2, <2>3, AppendProperties, LenProperties
      <3>. QED  BY <3>1, <3>2, EmptySeq
    <2>. QED  BY <1>9, <2>1, <2>4 DEF TunReadEach
  <1>10. CASE TunReadStop
    BY <1>10 DEF TunReadStop, Tun!ReadStop
  <1>. QED
    BY <1>1, <1>2, <1>3, <1>4, <1>5, <1>6, <1>7, <1>8, <1>9, <1>10
       DEF Kernel, TunMain, TunPool

\* The udp socket's own steps and the node handlers.
LEMMA UdpInTransit ==
    ASSUME InTransit, UdpMain \/ UdpReadPool \/ UdpWritePool
    PROVE  InTransit'
  BY DEF UdpMain, UdpReadPool, UdpWritePool, UdpPoll, UdpReadCallback, UdpReadDone,
       UdpReadCallbackEnd, UdpWriteCallback, UdpReadEach, UdpReadStop, UdpWriteEach,
       UdpWriteFail, UdpWriteEmpty, InTransit, tunVars, tunRVars, routeVars, kernelVars

LEMMA NodesInTransit ==
    ASSUME InTransit, NodeHandlers
    PROVE  InTransit'
  <1>1. ASSUME NEW n \in Node, NodeAdd(n)
        PROVE  InTransit'
    <2>1. nodes' \in Seq(Node)
      BY <1>1, AppendOf DEF NodeAdd, InTransit
    <2>. QED  BY <1>1, <2>1 DEF NodeAdd, InTransit, tunVars, tunRVars, kernelVars
  <1>2. ASSUME NEW n \in Node, NodeRemove(n)
        PROVE  InTransit'
    <2>1. nodes' \in Seq(Node)
      BY <1>2, RemoveAtIsSeq DEF NodeRemove, InTransit
    <2>. QED  BY <1>2, <2>1 DEF NodeRemove, InTransit, tunVars, tunRVars, kernelVars
  <1>. QED  BY <1>1, <1>2 DEF NodeHandlers

LEMMA NextInTransit == InTransit /\ [Next]_vars => InTransit'
  <1> SUFFICES ASSUME InTransit, [Next]_vars PROVE InTransit'
    OBVIOUS
  <1>1. CASE UNCHANGED vars
    BY <1>1 DEF vars, tunVars, tunRVars, routeVars, kernelVars, InTransit
  <1>. QED
    BY <1>1, TunInTransit, UdpInTransit, NodesInTransit DEF Next

LEMMA AlwaysInTransit == Spec => []InTransit
  BY InitInTransit, NextInTransit, PTL DEF Spec

-----------------------------------------------------------------------------
\* Each step of the data path is a step of the tun device or leaves it alone.
LEMMA TunStep ==
    ASSUME InTransit, [Next]_vars
    PROVE  [Tun!Next]_(Tun!vars)
  <1> USE DEF Tun!vars, Tun!readVars, Tun!writeVars, Tun!pollVars, tunVars, tunRVars, tunWVars
  <1>1. CASE TunPoll
    BY <1>1 DEF TunPoll, Tun!Next, Tun!MainStep
  <1>2. CASE TunReadCallback \/ TunReadDone \/ TunReadCallbackEnd
    BY <1>2 DEF TunReadCallback, TunReadDone, TunReadCallbackEnd, Tun!Next, Tun!MainStep
  <1>3. CASE TunReadEach
    <2>1. Head(tunIn) \in Arrived
      BY <1>3, HeadTailOf DEF TunReadEach, InTransit
    <2>2. [Head(tunIn) EXCEPT !.hdr = Truncated(@, ReadBufLen)] \in TunFrame
      BY <2>1 DEF Arrived, TunFrame
    <2>. QED  BY <1>3, <2>2 DEF TunReadEach, Tun!Next, Tun!PoolStep
  <1>4. CASE TunReadStop
    BY <1>4 DEF TunReadStop, Tun!Next, Tun!PoolStep
  <1>5. CASE HandleLocalFrame \/ SendToRed \/ Kernel \/ NodeHandlers
    BY <1>5 DEF HandleLocalFrame, SendToRed, Kernel, TunArrive, UdpArrive, NodeHandlers,
         NodeAdd, NodeRemove
  <1>6. CASE UdpMain
    BY <1>6 DEF UdpMain, UdpPoll, UdpReadCallback, UdpReadDone, UdpReadCallbackEnd,
         UdpWriteCallback
  <1>7. CASE UdpReadPool \/ UdpWritePool
    BY <1>7 DEF UdpReadPool, UdpWritePool, UdpReadEach, UdpReadStop, UdpWriteEach,
         UdpWriteFail, UdpWriteEmpty
  <1>8. CASE UNCHANGED vars
    BY <1>8 DEF vars
  <1>. QED
    BY <1>1, <1>2, <1>3, <1>4, <1>5, <1>6, <1>7, <1>8 DEF Next, TunMain, TunPool

\* The same for the udp socket.
LEMMA UdpStep ==
    ASSUME InTransit, [Next]_vars
    PROVE  [Udp!Next]_(Udp!vars)
  <1> USE DEF Udp!vars, Udp!readVars, Udp!writeVars, Udp!pollVars, udpVars, udpRVars, udpWVars
  <1>1. ASSUME NEW ev \in SUBSET {"R", "W"}, UdpPoll(ev)
        PROVE  Udp!Next
    BY <1>1 DEF UdpPoll, Udp!Next, Udp!MainStep
  <1>2. CASE UdpReadCallback \/ UdpReadDone \/ UdpReadCallbackEnd \/ UdpWriteCallback
    BY <1>2 DEF UdpReadCallback, UdpReadDone, UdpReadCallbackEnd, UdpWriteCallback,
         Udp!Next, Udp!MainStep
  <1>3. CASE SendToRed
    <2> DEFINE f == Head(tDone)
               c == [node |-> Head(iter), id |-> f.id]
    <2>1. f \in TunFrame /\ Head(iter) \in Node
      BY <1>3, HeadTailOf DEF SendToRed, InTransit
    <2>2. c \in Copy
      BY <2>1 DEF TunFrame, Copy
    <2>3. ~(DataLen(f.hdr) > WriteBufLen)
      BY <2>1, CutFits, BufsAssumption
    <2>4. UNCHANGED udpVars \/ Udp!Enqueue(c)
      BY <1>3, <2>3 DEF SendToRed
    <2>. QED  BY <2>2, <2>4 DEF Udp!Next, Udp!MainStep
  <1>4. CASE UdpReadPool
    BY <1>4 DEF UdpReadPool, UdpReadEach, UdpReadStop, Datagram, Udp!Next, Udp!PoolStep
  <1>5. CASE UdpWritePool
    BY <1>5 DEF UdpWritePool, UdpWriteEach, UdpWriteFail, UdpWriteEmpty, Udp!Next,
         Udp!PoolStep
  <1>6. CASE \/ TunPoll \/ TunReadCallback \/ HandleLocalFrame \/ TunReadDone
             \/ TunReadCallbackEnd \/ TunPool \/ Kernel \/ NodeHandlers \/ UNCHANGED vars
    BY <1>6 DEF TunPoll, TunReadCallback, HandleLocalFrame, TunReadDone, TunReadCallbackEnd,
         TunPool, TunReadEach, TunReadStop, Kernel, TunArrive, UdpArrive, NodeHandlers,
         NodeAdd, NodeRemove, vars
  <1>. QED
    BY <1>1, <1>2, <1>3, <1>4, <1>5, <1>6 DEF Next, TunMain, UdpMain

\* The tun device only does what AsyncIo says.
LEMMA TunImplements == Spec => Tun!Spec
  <1>1. Init => Tun!Init
    BY DEF Init
  <1>2. InTransit /\ [Next]_vars => [Tun!Next]_(Tun!vars)
    BY TunStep
  <1>. QED  BY <1>1, <1>2, AlwaysInTransit, PTL DEF Spec, Tun!Spec

\* The udp socket only does what AsyncIo says: send_to_red takes its buffers as
\* Enqueue does, from the callbacks of the other device.
THEOREM UdpImplements == Spec => UdpIsAsyncIo
  <1>1. Init => Udp!Init
    BY DEF Init
  <1>2. InTransit /\ [Next]_vars => [Udp!Next]_(Udp!vars)
    BY UdpStep
  <1>. QED  BY <1>1, <1>2, AlwaysInTransit, PTL DEF Spec, UdpIsAsyncIo, Udp!Spec

-----------------------------------------------------------------------------
(* What is proved of AsyncIo, carried over to the two devices.             *)

TunProofs == INSTANCE AsyncIoProofs WITH
    Frame <- TunFrame, Packet <- {}, RBufs <- TunRBufs, WBufs <- TunWBufs,
    Batch <- Batch,
    rAvail <- tAvail, rWork <- tWork, rDone <- tDone, rWorking <- tWorking,
    rJob <- tJob, rCallback <- tCallback,
    wAvail <- xAvail, wReady <- xReady, wWork <- xWork, wDone <- xDone,
    wWorking <- xWorking, wJob <- xJob,
    armed <- tArmed, pollErr <- tPollErr

\* TunProofs speaks of the same steps as Tun.
LEMMA TunSame ==
    /\ Tun!Init <=> TunProofs!Init
    /\ [Tun!Next]_(Tun!vars) <=> [TunProofs!Next]_(TunProofs!vars)
    /\ Tun!BuffersConserved <=> TunProofs!BuffersConserved
    /\ Tun!NoStall <=> TunProofs!NoStall
  <1>1. Tun!Init <=> TunProofs!Init
    BY DEF Tun!Init, Tun!PollFlags, TunProofs!Init, TunProofs!PollFlags
  <1>2. Tun!Next <=> TunProofs!Next
    BY DEF Tun!PollCb, Tun!PollCbError, Tun!ReadCallback, Tun!ReadDone,
           Tun!ReadCallbackEnd, Tun!WriteCallback, Tun!Enqueue, Tun!ReadEach,
           Tun!ReadStop, Tun!WriteEach, Tun!WriteStop, Tun!SubmitRead,
           Tun!SubmitWrite, Tun!PollStart, Tun!PollFlags, Tun!EmptyFrom,
           Tun!EmptyTo, Tun!Moved, Tun!readVars, Tun!writeVars, Tun!pollVars,
           Tun!MainStep, Tun!PoolStep, Tun!Next, Tun!Init, Tun!vars,
           TunProofs!PollCb, TunProofs!PollCbError, TunProofs!ReadCallback,
           TunProofs!ReadDone, TunProofs!ReadCallbackEnd,
           TunProofs!WriteCallback, TunProofs!Enqueue, TunProofs!ReadEach,
           TunProofs!ReadStop, TunProofs!WriteEach, TunProofs!WriteStop,
           TunProofs!SubmitRead, TunProofs!SubmitWrite, TunProofs!PollStart,
           TunProofs!PollFlags, TunProofs!EmptyFrom, TunProofs!EmptyTo,
           TunProofs!Moved, TunProofs!readVars, TunProofs!writeVars,
           TunProofs!pollVars, TunProofs!MainStep, TunProofs!PoolStep,
           TunProofs!Next, TunProofs!Init, TunProofs!vars
  <1>3. Tun!BuffersConserved <=> TunProofs!BuffersConserved
    BY DEF Tun!BuffersConserved, TunProofs!BuffersConserved
  <1>4. Tun!NoStall <=> TunProofs!NoStall
    BY DEF Tun!NoStall, TunProofs!NoStall
  <1>5. UNCHANGED Tun!vars <=> UNCHANGED TunProofs!vars
    BY DEF Tun!vars, Tun!readVars, Tun!writeVars, Tun!pollVars,
           TunProofs!vars, TunProofs!readVars, TunProofs!writeVars, TunProofs!pollVars
  <1>6. [Tun!Next]_(Tun!vars) <=> [TunProofs!Next]_(TunProofs!vars)
    BY <1>2, <1>5, Zenon
  <1>. QED  BY <1>1, <1>3, <1>4, <1>6, Zenon

\* Whatever frames come, whatever the udp side does and whatever list the node
\* handlers leave, the tun device keeps its buffers (async_io.c:166) and never
\* goes to sleep by itself.
THEOREM TunKeeps == Spec => []Tun!BuffersConserved /\ []Tun!NoStall
  <1>1. TunProofs!Spec => []TunProofs!BuffersConserved /\ []TunProofs!NoStall
    BY TunProofs!NoBufferLost, TunProofs!NeverStalls, BufsAssumption
       DEF TunProofs!RBufsAssumption, TunProofs!WBufsAssumption, TunProofs!BatchAssumption
  <1>2. Spec => Tun!Spec
    BY TunImplements
  <1>. QED  BY <1>1, <1>2, TunSame, PTL DEF Tun!Spec, TunProofs!Spec

UdpProofs == INSTANCE AsyncIoProofs WITH
    Frame <- Datagram, Packet <- Copy, RBufs <- UdpRBufs, WBufs <- UdpWBufs,
    Batch <- Batch,
    rAvail <- uAvail, rWork <- uRead, rDone <- uReadDone, rWorking <- uReading,
    rJob <- uReadJob, rCallback <- uCallback,
    wAvail <- wAvail, wReady <- wReady, wWork <- wWork, wDone <- wDone,
    wWorking <- wWorking, wJob <- wJob,
    armed <- uArmed, pollErr <- uPollErr

\* UdpProofs speaks of the same steps as Udp.
LEMMA UdpSame ==
    /\ Udp!Init <=> UdpProofs!Init
    /\ [Udp!Next]_(Udp!vars) <=> [UdpProofs!Next]_(UdpProofs!vars)
    /\ Udp!BuffersConserved <=> UdpProofs!BuffersConserved
    /\ Udp!NoStall <=> UdpProofs!NoStall
    /\ Udp!TypeOK <=> UdpProofs!TypeOK
    /\ Udp!BatonNotReused <=> UdpProofs!BatonNotReused
  <1>1. Udp!Init <=> UdpProofs!Init
    BY DEF Udp!Init, Udp!PollFlags, UdpProofs!Init, UdpProofs!PollFlags
  <1>2. Udp!Next <=> UdpProofs!Next
    BY DEF Udp!PollCb, Udp!PollCbError, Udp!ReadCallback, Udp!ReadDone,
           Udp!ReadCallbackEnd, Udp!WriteCallback, Udp!Enqueue, Udp!ReadEach,
           Udp!ReadStop, Udp!WriteEach, Udp!WriteStop, Udp!SubmitRead,
           Udp!SubmitWrite, Udp!PollStart, Udp!PollFlags, Udp!EmptyFrom,
           Udp!EmptyTo, Udp!Moved, Udp!readVars, Udp!writeVars, Udp!pollVars,
           Udp!MainStep, Udp!PoolStep, Udp!Next, Udp!Init, Udp!vars,
           UdpProofs!PollCb, UdpProofs!PollCbError, UdpProofs!ReadCallback,
           UdpProofs!ReadDone, UdpProofs!ReadCallbackEnd,
           UdpProofs!WriteCallback, UdpProofs!Enqueue, UdpProofs!ReadEach,
           UdpProofs!ReadStop, UdpProofs!WriteEach, UdpProofs!WriteStop,
           UdpProofs!SubmitRead, UdpProofs!SubmitWrite, UdpProofs!PollStart,
           UdpProofs!PollFlags, UdpProofs!EmptyFrom, UdpProofs!EmptyTo,
           UdpProofs!Moved, UdpProofs!readVars, UdpProofs!writeVars,
           UdpProofs!pollVars, UdpProofs!MainStep, UdpProofs!PoolStep,
           UdpProofs!Next, UdpProofs!Init, UdpProofs!vars
  <1>3. Udp!BuffersConserved <=> UdpProofs!BuffersConserved
    BY DEF Udp!BuffersConserved, UdpProofs!BuffersConserved
  <1>4. Udp!NoStall <=> UdpProofs!NoStall
    BY DEF Udp!NoStall, UdpProofs!NoStall
  <1>5. UNCHANGED Udp!vars <=> UNCHANGED UdpProofs!vars
    BY DEF Udp!vars, Udp!readVars, Udp!writeVars, Udp!pollVars,
           UdpProofs!vars, UdpProofs!readVars, UdpProofs!writeVars, UdpProofs!pollVars
  <1>6. [Udp!Next]_(Udp!vars) <=> [UdpProofs!Next]_(UdpProofs!vars)
    BY <1>2, <1>5, Zenon
  <1>7. Udp!TypeOK <=> UdpProofs!TypeOK
    BY DEF Udp!TypeOK, Udp!Jobs, UdpProofs!TypeOK, UdpProofs!Jobs
  <1>8. Udp!BatonNotReused <=> UdpProofs!BatonNotReused
    BY DEF Udp!BatonNotReused, UdpProofs!BatonNotReused
  <1>. QED  BY <1>1, <1>3, <1>4, <1>6, <1>7, <1>8, Zenon

\* So does the udp socket, whatever sendto does: a packet send_to_red queued
\* is on one queue until it was sent.
THEOREM UdpKeeps == Spec => []Udp!BuffersConserved /\ []Udp!NoStall
  <1>1. UdpProofs!Spec => []UdpProofs!BuffersConserved /\ []UdpProofs!NoStall
    BY UdpProofs!NoBufferLost, UdpProofs!NeverStalls, BufsAssumption
       DEF UdpProofs!RBufsAssumption, UdpProofs!WBufsAssumption, UdpProofs!BatchAssumption
  <1>2. Spec => Udp!Spec
    BY UdpImplements DEF UdpIsAsyncIo
  <1>. QED  BY <1>1, <1>2, UdpSame, PTL DEF Udp!Spec, UdpProofs!Spec

-----------------------------------------------------------------------------
\* What the rest relies on: frames and nodes have their form, and the udp
\* socket is an AsyncIo in order.
Sound ==
    /\ InTransit
    /\ Udp!TypeOK /\ Udp!BuffersConserved /\ Udp!BatonNotReused

LEMMA AlwaysSound == Spec => []Sound
  <1>1. UdpProofs!Spec => []UdpProofs!TypeOK /\ []UdpProofs!BuffersConserved
                            /\ []UdpProofs!BatonNotReused
    BY UdpProofs!TypeCorrect, UdpProofs!NoBufferLost, UdpProofs!BatonExclusive, BufsAssumption
       DEF UdpProofs!RBufsAssumption, UdpProofs!WBufsAssumption, UdpProofs!BatchAssumption
  <1>2. Spec => Udp!Spec
    BY UdpImplements DEF UdpIsAsyncIo
  <1>3. InTransit /\ Udp!TypeOK /\ Udp!BuffersConserved /\ Udp!BatonNotReused => Sound
    BY DEF Sound
  <1>. QED  BY <1>1, <1>2, <1>3, UdpSame, AlwaysInTransit, PTL DEF Udp!Spec, UdpProofs!Spec

-----------------------------------------------------------------------------
(* Every copy is in one place (Accounting).                                *)

\* The numbers of the frames grow along the way from the kernel to the
\* callback, and a frame that arrives gets the next one.
Numbered ==
    /\ \A i, j \in 1..Len(tDone) : i < j => tDone[i].id < tDone[j].id
    /\ \A i, j \in 1..Len(tunIn) : i < j => tunIn[i].id < tunIn[j].id
    /\ \A i \in 1..Len(tDone), j \in 1..Len(tunIn) : tDone[i].id < tunIn[j].id
    /\ \A i \in 1..Len(tDone) : tDone[i].id < nextId
    /\ \A i \in 1..Len(tunIn) : tunIn[i].id < nextId

\* Copies are owed of the frames handled so far, and these come before all
\* others: only the frame in hand has the number of a copy that is owed.
Handled ==
    /\ owed \in SUBSET Copy
    /\ \A c \in owed : c.id < nextId
    /\ \A c \in owed, j \in 1..Len(tunIn) : c.id < tunIn[j].id
    /\ \A c \in owed, j \in 1..Len(tDone) :
          c.id < tDone[j].id \/ (handling /\ j = 1 /\ c.id = tDone[1].id)

\* No node is listed twice, so a broadcast has one copy for each.
NodesOnce == IsInjective(nodes) /\ IsInjective(iter) /\ (iter # <<>> => handling)

\* A copy that is owed is in one place.
CopiesOnce ==
    /\ sent \in Seq(Copy) /\ dropped \in SUBSET Copy /\ IsFiniteSet(dropped)
    /\ IsInjective(wReady) /\ IsInjective(wWork) /\ IsInjective(sent)
    /\ ToSet(wReady) \cap ToSet(wWork) = {}
    /\ Queued \cap ToSet(sent) = {}
    /\ dropped \cap (Queued \cup ToSet(sent)) = {}
    /\ Unvisited \cap (Queued \cup ToSet(sent) \cup dropped) = {}
    /\ owed = Unvisited \cup Queued \cup ToSet(sent) \cup dropped

OneOfEach == Numbered /\ Handled /\ NodesOnce /\ CopiesOnce

LEMMA Fields ==
    ASSUME Sound
    PROVE  /\ FrameId \subseteq Int
           /\ Len(tDone) \in Nat /\ Len(tunIn) \in Nat /\ nextId \in Int
           /\ \A i \in 1..Len(tDone) : tDone[i].id \in FrameId
           /\ \A i \in 1..Len(tunIn) : tunIn[i].id \in FrameId
           /\ \A c \in Copy : c.id \in FrameId /\ c.node \in Node
  <1>1. FrameId \subseteq Int /\ nextId \in Int
    BY BoundsAssumption DEF FrameId, Sound, InTransit
  <1>2. Len(tDone) \in Nat /\ \A i \in 1..Len(tDone) : tDone[i] \in TunFrame
    BY ToSetFacts DEF Sound, InTransit
  <1>3. Len(tunIn) \in Nat /\ \A i \in 1..Len(tunIn) : tunIn[i] \in Arrived
    BY ToSetFacts DEF Sound, InTransit
  <1>4. \A f \in TunFrame : f.id \in FrameId
    BY DEF TunFrame
  <1>5. \A f \in Arrived : f.id \in FrameId
    BY DEF Arrived
  <1>. QED  BY <1>1, <1>2, <1>3, <1>4, <1>5 DEF Copy

\* The copies a broadcast of the frame with this number calls for.
CopiesFor(ns, id) == {[node |-> n, id |-> id] : n \in ToSet(ns)}

LEMMA UnvisitedIs == Unvisited = CopiesFor(iter, Head(tDone).id)
  BY EmptyIsInjective DEF Unvisited, CopiesFor

\* Only these steps change what the invariant speaks of.
LEMMA StepsThatCount ==
    ASSUME [Next]_vars
    PROVE  \/ \E h \in Headers : TunArrive(h)
           \/ TunReadEach \/ HandleLocalFrame \/ SendToRed \/ TunReadDone
           \/ \E ev \in SUBSET {"R", "W"} : UdpPoll(ev)
           \/ UdpWriteEach
           \/ NodeHandlers
           \/ UNCHANGED <<tDone, tunIn, nextId, handling, iter, nodes, owed, wReady, wWork,
                          sent, dropped>>
  <1> USE DEF vars, tunVars, tunRVars, udpVars, udpWVars, routeVars, kernelVars, history
  <1>1. CASE UNCHANGED vars
    BY <1>1
  <1>2. CASE UdpArrive
    BY <1>2 DEF UdpArrive
  <1>3. CASE TunPoll \/ TunReadCallback \/ TunReadCallbackEnd \/ TunReadStop
    BY <1>3 DEF TunPoll, TunReadCallback, TunReadCallbackEnd, TunReadStop, Tun!PollCb,
         Tun!ReadCallback, Tun!ReadCallbackEnd, Tun!ReadStop
  <1>4. CASE UdpReadCallback \/ UdpReadDone \/ UdpReadCallbackEnd \/ UdpWriteCallback
    BY <1>4 DEF UdpReadCallback, UdpReadDone, UdpReadCallbackEnd, UdpWriteCallback,
         Udp!ReadCallback, Udp!ReadDone, Udp!ReadCallbackEnd, Udp!WriteCallback, Udp!writeVars
  <1>5. CASE UdpReadPool
    BY <1>5 DEF UdpReadPool, UdpReadEach, UdpReadStop, Udp!ReadEach, Udp!ReadStop,
         Udp!writeVars
  <1>6. CASE UdpWriteFail \/ UdpWriteEmpty
    BY <1>6 DEF UdpWriteFail, UdpWriteEmpty, Udp!WriteStop
  <1>. QED
    BY <1>1, <1>2, <1>3, <1>4, <1>5, <1>6
       DEF Next, Kernel, TunMain, UdpMain, TunPool, UdpWritePool

\* What the steps do to it.
LEMMA ReadEachMeans ==
    ASSUME Sound, TunReadEach
    PROVE  \E g \in TunFrame :
              /\ tunIn # <<>> /\ g.id = tunIn[1].id
              /\ tDone' = Append(tDone, g)
              /\ tunIn' = Tail(tunIn)
              /\ UNCHANGED <<nextId, handling, iter, nodes, owed, wReady, wWork, sent, dropped>>
  <1> DEFINE f == Head(tunIn)
             g == [f EXCEPT !.hdr = Truncated(@, ReadBufLen)]
  <1>1. f \in Arrived /\ f = tunIn[1] /\ tunIn # <<>>
    BY TailElements DEF TunReadEach, Sound, InTransit
  <1>2. g \in TunFrame /\ g.id = f.id
    BY <1>1 DEF Arrived, TunFrame
  <1>3. tDone' = Append(tDone, g)
    BY DEF TunReadEach, Tun!ReadEach
  <1>4. UNCHANGED <<nextId, handling, iter, nodes, owed, wReady, wWork, sent, dropped>>
    BY DEF TunReadEach, udpVars, udpWVars, routeVars, history
  <1>. QED  BY <1>1, <1>2, <1>3, <1>4 DEF TunReadEach

LEMMA HandleMeans ==
    ASSUME HandleLocalFrame
    PROVE  /\ ~handling /\ handling' /\ tDone # <<>>
           /\ UNCHANGED <<tDone, tunIn, nextId, nodes, wReady, wWork, sent, dropped>>
           /\ \/ UNCHANGED <<iter, owed>>
              \/ iter' = nodes /\ owed' = owed \cup CopiesFor(nodes, Head(tDone).id)
  <1>1. ~handling /\ handling' /\ tDone # <<>>
    BY DEF HandleLocalFrame
  <1>2. UNCHANGED <<tDone, tunIn, nextId, nodes, wReady, wWork, sent, dropped>>
    BY DEF HandleLocalFrame, tunVars, tunRVars, udpVars, udpWVars, kernelVars
  <1>3. \/ UNCHANGED <<iter, owed>>
        \/ iter' = nodes /\ owed' = owed \cup CopiesFor(nodes, Head(tDone).id)
    BY DEF HandleLocalFrame, CopiesFor
  <1>. QED  BY <1>1, <1>2, <1>3

LEMMA SendMeans ==
    ASSUME Sound, SendToRed
    PROVE  LET c == [node |-> Head(iter), id |-> Head(tDone).id]
           IN  /\ c \in Copy
               /\ handling /\ iter # <<>> /\ iter' = Tail(iter)
               /\ UNCHANGED <<tDone, tunIn, nextId, handling, nodes, owed, sent, wWork>>
               /\ \/ dropped' = dropped \cup {c} /\ UNCHANGED wReady
                  \/ wReady' = Append(wReady, c) /\ UNCHANGED dropped
  <1> DEFINE f == Head(tDone)
             c == [node |-> Head(iter), id |-> f.id]
  <1>1. f \in TunFrame /\ Head(iter) \in Node
    BY HeadTailOf DEF SendToRed, Sound, InTransit
  <1>2. c \in Copy
    BY <1>1 DEF TunFrame, Copy
  <1>3. ~(DataLen(f.hdr) > WriteBufLen)
    BY <1>1, CutFits, BufsAssumption
  <1>4. /\ handling /\ iter # <<>> /\ iter' = Tail(iter)
        /\ UNCHANGED <<tDone, tunIn, nextId, handling, nodes, owed, sent>>
    BY DEF SendToRed, tunVars, tunRVars, kernelVars
  <1>5. \/ dropped' = dropped \cup {c} /\ UNCHANGED <<wReady, wWork>>
        \/ wReady' = Append(wReady, c) /\ UNCHANGED <<wWork, dropped>>
    BY <1>3 DEF SendToRed, Udp!Enqueue, udpVars, udpWVars
  <1>. QED  BY <1>2, <1>4, <1>5

LEMMA DoneMeans ==
    ASSUME TunReadDone
    PROVE  /\ handling /\ ~handling' /\ iter = <<>> /\ tDone # <<>> /\ tDone' = Tail(tDone)
           /\ UNCHANGED <<tunIn, nextId, iter, nodes, owed, wReady, wWork, sent, dropped>>
  BY DEF TunReadDone, Tun!ReadDone, udpVars, udpWVars, kernelVars, history

LEMMA PollMeans ==
    ASSUME NEW ev \in SUBSET {"R", "W"}, UdpPoll(ev)
    PROVE  /\ UNCHANGED <<tDone, tunIn, nextId, handling, iter, nodes, owed, sent, dropped, fails>>
           /\ \/ UNCHANGED <<wReady, wWork, wJob>>
              \/ /\ "W" \in uArmed
                 /\ wReady' = EmptyFrom(wReady, Batch)
                 /\ wWork' = EmptyTo(wReady, wWork, Batch)
                 /\ wJob' = "doing"
  <1>1. UNCHANGED <<tDone, tunIn, nextId, handling, iter, nodes, owed, sent, dropped, fails>>
    BY DEF UdpPoll, tunVars, tunRVars, routeVars, kernelVars, history
  <1>2. CASE "W" \in ev
    <2>1. "W" \in uArmed
      BY <1>2 DEF UdpPoll, Udp!PollCb
    <2>2. /\ wReady' = Udp!EmptyFrom(wReady, Batch)
          /\ wWork' = Udp!EmptyTo(wReady, wWork, Batch)
          /\ wJob' = "doing"
      BY <1>2 DEF UdpPoll, Udp!PollCb, Udp!SubmitWrite
    <2>. QED  BY <1>1, <2>1, <2>2 DEF Udp!EmptyFrom, Udp!EmptyTo, Udp!Moved, EmptyFrom,
                EmptyTo, Moved
  <1>3. CASE "W" \notin ev
    <2>1. UNCHANGED <<wReady, wWork, wJob>>
      BY <1>3 DEF UdpPoll, Udp!PollCb, Udp!SubmitWrite
    <2>. QED  BY <1>1, <2>1
  <1>. QED  BY <1>2, <1>3

LEMMA WriteMeans ==
    ASSUME UdpWriteEach
    PROVE  /\ UNCHANGED <<tDone, tunIn, nextId, handling, iter, nodes, owed, wReady, dropped>>
           /\ wWork # <<>> /\ wJob = "doing" /\ wJob' = "doing"
           /\ wWork' = Tail(wWork) /\ sent' = Append(sent, Head(wWork))
  BY DEF UdpWriteEach, Udp!WriteEach, tunVars, tunRVars, routeVars, kernelVars

\* Numbers stay in order from step to step.
LEMMA NumberedNext ==
    ASSUME Sound, Sound', Numbered, Handled, [Next]_vars
    PROVE  Numbered'
  <1>1. ASSUME NEW h \in Headers, TunArrive(h)
        PROVE  Numbered'
    <2> DEFINE f == [hdr |-> h, id |-> nextId]
               n == Len(tunIn)
    <2>1. tunIn' = Append(tunIn, f) /\ nextId' = nextId + 1 /\ UNCHANGED tDone
      BY <1>1 DEF TunArrive, tunVars, tunRVars
    <2>2. f \in Arrived
      <3>1. nextId \in FrameId
        BY <1>1, BoundsAssumption DEF TunArrive, FrameId, Sound, InTransit
      <3>. QED  BY <3>1 DEF Arrived
    <2>3. n \in Nat /\ Len(tunIn') = n + 1 /\ tunIn'[n + 1].id = nextId
          /\ \A i \in 1..n : tunIn'[i] = tunIn[i]
      <3>1. n \in Nat /\ Len(tunIn') = n + 1 /\ tunIn'[n + 1] = f
            /\ \A i \in 1..n : tunIn'[i] = tunIn[i]
        BY <2>1, <2>2, AppendProperties, LenProperties DEF Sound, InTransit
      <3>. QED  BY <3>1
    <2> HIDE DEF n, f
    <2>4. /\ nextId \in Int
          /\ \A i \in 1..n : tunIn[i].id \in Int
          /\ \A i \in 1..Len(tDone) : tDone[i].id \in Int
      BY Fields DEF n
    <2>5. /\ \A i, j \in 1..n : i < j => tunIn[i].id < tunIn[j].id
          /\ \A i \in 1..n : tunIn[i].id < nextId
          /\ \A i \in 1..Len(tDone), j \in 1..n : tDone[i].id < tunIn[j].id
          /\ \A i \in 1..Len(tDone) : tDone[i].id < nextId
      BY DEF Numbered, n
    <2>6. \A i \in 1..(n + 1) : i \in 1..n \/ i = n + 1
      BY <2>3
    <2>7. \A i, j \in 1..(n + 1) : i < j => tunIn'[i].id < tunIn'[j].id
      BY <2>3, <2>4, <2>5, <2>6
    <2>8. \A i \in 1..(n + 1) : tunIn'[i].id < nextId + 1
      BY <2>3, <2>4, <2>5, <2>6
    <2>9. /\ \A i \in 1..Len(tDone), j \in 1..(n + 1) : tDone[i].id < tunIn'[j].id
          /\ \A i \in 1..Len(tDone) : tDone[i].id < nextId + 1
      BY <2>3, <2>4, <2>5, <2>6
    <2>. QED  BY <2>1, <2>3, <2>7, <2>8, <2>9 DEF Numbered
  <1>2. CASE TunReadEach
    <2> DEFINE n == Len(tunIn)
               m == Len(tDone)
    <2>1. PICK g \in TunFrame :
             /\ tunIn # <<>> /\ g.id = tunIn[1].id
             /\ tDone' = Append(tDone, g)
             /\ tunIn' = Tail(tunIn)
             /\ UNCHANGED nextId
      BY <1>2, ReadEachMeans
    <2>2. /\ m \in Nat /\ Len(tDone') = m + 1 /\ tDone'[m + 1] = g
          /\ \A i \in 1..m : tDone'[i] = tDone[i]
      BY <2>1, AppendProperties, LenProperties DEF Sound, InTransit
    <2>3. /\ n \in Nat \ {0} /\ Len(tunIn') = n - 1
          /\ \A i \in 1..(n - 1) : tunIn'[i] = tunIn[i + 1]
      BY <2>1, EmptySeq, HeadTailProperties DEF Sound, InTransit
    <2>4. /\ \A i \in 1..n : tunIn[i].id \in Int
          /\ \A i \in 1..m : tDone[i].id \in Int
          /\ nextId \in Int
      BY Fields
    <2>5. /\ \A i, j \in 1..n : i < j => tunIn[i].id < tunIn[j].id
          /\ \A i, j \in 1..m : i < j => tDone[i].id < tDone[j].id
          /\ \A i \in 1..n : tunIn[i].id < nextId
          /\ \A i \in 1..m, j \in 1..n : tDone[i].id < tunIn[j].id
          /\ \A i \in 1..m : tDone[i].id < nextId
      BY DEF Numbered
    <2> HIDE DEF n, m
    <2>6. /\ \A i \in 1..(m + 1) : i \in 1..m \/ i = m + 1
          /\ \A i \in 1..(n - 1) : i + 1 \in 1..n /\ 1 < i + 1
          /\ 1 \in 1..n
      BY <2>2, <2>3
    <2>7. \A i, j \in 1..(m + 1) : i < j => tDone'[i].id < tDone'[j].id
      <3>1. \A i, j \in 1..(m + 1) : i < j => i \in 1..m
        BY <2>2
      <3>2. \A i \in 1..m : tDone'[i].id < tDone'[m + 1].id
        BY <2>1, <2>2, <2>5, <2>6
      <3>3. \A i, j \in 1..m : i < j => tDone'[i].id < tDone'[j].id
        BY <2>2, <2>5
      <3>. QED  BY <2>6, <3>1, <3>2, <3>3
    <2>8. \A i, j \in 1..(n - 1) : i < j => tunIn'[i].id < tunIn'[j].id
      BY <2>3, <2>5, <2>6
    <2>9. \A i \in 1..(m + 1), j \in 1..(n - 1) : tDone'[i].id < tunIn'[j].id
      BY <2>1, <2>2, <2>3, <2>5, <2>6
    <2>10. /\ \A i \in 1..(m + 1) : tDone'[i].id < nextId
           /\ \A i \in 1..(n - 1) : tunIn'[i].id < nextId
      BY <2>1, <2>2, <2>3, <2>5, <2>6
    <2>. QED  BY <2>1, <2>2, <2>3, <2>7, <2>8, <2>9, <2>10 DEF Numbered
  <1>3. CASE TunReadDone
    <2> DEFINE m == Len(tDone)
    <2>1. tDone # <<>> /\ tDone' = Tail(tDone) /\ UNCHANGED <<tunIn, nextId>>
      BY <1>3, DoneMeans
    <2>2. /\ m \in Nat \ {0} /\ Len(tDone') = m - 1
          /\ \A i \in 1..(m - 1) : tDone'[i] = tDone[i + 1]
      BY <2>1, EmptySeq, HeadTailProperties DEF Sound, InTransit
    <2>3. /\ \A i, j \in 1..m : i < j => tDone[i].id < tDone[j].id
          /\ \A i \in 1..m, j \in 1..Len(tunIn) : tDone[i].id < tunIn[j].id
          /\ \A i \in 1..m : tDone[i].id < nextId
      BY DEF Numbered
    <2> HIDE DEF m
    <2>4. \A i \in 1..(m - 1) : i + 1 \in 1..m
      BY <2>2
    <2>5. /\ \A i, j \in 1..(m - 1) : i < j => tDone'[i].id < tDone'[j].id
          /\ \A i \in 1..(m - 1), j \in 1..Len(tunIn) : tDone'[i].id < tunIn[j].id
          /\ \A i \in 1..(m - 1) : tDone'[i].id < nextId
      <3>1. \A i, j \in 1..(m - 1) : i < j => tDone'[i].id < tDone'[j].id
        <4>1. \A i, j \in 1..(m - 1) : i < j => i + 1 < j + 1
          BY <2>2
        <4>. QED  BY <2>2, <2>3, <2>4, <4>1
      <3>. QED  BY <2>2, <2>3, <2>4, <3>1
    <2>. QED  BY <2>1, <2>2, <2>5 DEF Numbered
  <1>4. CASE UNCHANGED <<tDone, tunIn, nextId>>
    BY <1>4 DEF Numbered
  <1>5. CASE HandleLocalFrame
    BY <1>4, <1>5, HandleMeans
  <1>6. CASE SendToRed
    BY <1>4, <1>6, SendMeans
  <1>7. ASSUME NEW ev \in SUBSET {"R", "W"}, UdpPoll(ev)
        PROVE  Numbered'
    BY <1>4, <1>7, PollMeans
  <1>8. CASE UdpWriteEach
    BY <1>4, <1>8, WriteMeans
  <1>9. CASE NodeHandlers
    BY <1>4, <1>9 DEF NodeHandlers, NodeAdd, NodeRemove, tunVars, tunRVars, kernelVars
  <1>. QED  BY <1>1, <1>2, <1>3, <1>4, <1>5, <1>6, <1>7, <1>8, <1>9, StepsThatCount

\* Handling a frame owes copies of it, which come after those owed before.
LEMMA HandledNext ==
    ASSUME Sound, Sound', Numbered, Handled, [Next]_vars
    PROVE  Handled'
  <1> USE DEF Handled
  <1>0. /\ nextId \in Int
        /\ \A i \in 1..Len(tDone) : tDone[i].id \in Int
        /\ \A i \in 1..Len(tunIn) : tunIn[i].id \in Int
        /\ \A c \in owed : c.id \in Int
    BY Fields
  <1>1. ASSUME NEW h \in Headers, TunArrive(h)
        PROVE  Handled'
    <2> DEFINE f == [hdr |-> h, id |-> nextId]
               n == Len(tunIn)
    <2>1. /\ tunIn' = Append(tunIn, f) /\ nextId' = nextId + 1
          /\ UNCHANGED <<tDone, handling, owed>>
      BY <1>1 DEF TunArrive, tunVars, tunRVars, routeVars, history
    <2>2. f \in Arrived
      <3>1. nextId \in FrameId
        BY <1>1, BoundsAssumption DEF TunArrive, FrameId, Sound, InTransit
      <3>. QED  BY <3>1 DEF Arrived
    <2>3. n \in Nat /\ Len(tunIn') = n + 1 /\ tunIn'[n + 1] = f
          /\ \A i \in 1..n : tunIn'[i] = tunIn[i]
      BY <2>1, <2>2, AppendProperties, LenProperties DEF Sound, InTransit
    <2>4. f.id = nextId
      OBVIOUS
    <2> HIDE DEF f
    <2>5. \A c \in owed, j \in 1..n : c.id < tunIn[j].id
      OBVIOUS
    <2> HIDE DEF n
    <2>6. \A c \in owed, j \in 1..(n + 1) : c.id < tunIn'[j].id
      <3>1. \A j \in 1..(n + 1) : j \in 1..n \/ j = n + 1
        BY <2>3
      <3>. QED  BY <2>3, <2>4, <2>5, <3>1
    <2>7. \A c \in owed : c.id < nextId + 1
      BY <1>0
    <2>. QED  BY <2>1, <2>3, <2>6, <2>7
  <1>2. CASE TunReadEach
    <2> DEFINE n == Len(tunIn)
               m == Len(tDone)
    <2>1. PICK g \in TunFrame :
             /\ tunIn # <<>> /\ g.id = tunIn[1].id
             /\ tDone' = Append(tDone, g)
             /\ tunIn' = Tail(tunIn)
             /\ UNCHANGED <<nextId, handling, owed>>
      BY <1>2, ReadEachMeans
    <2>2. /\ m \in Nat /\ Len(tDone') = m + 1 /\ tDone'[m + 1] = g
          /\ \A i \in 1..m : tDone'[i] = tDone[i]
      BY <2>1, AppendProperties, LenProperties DEF Sound, InTransit
    <2>3. /\ n \in Nat \ {0} /\ Len(tunIn') = n - 1
          /\ \A i \in 1..(n - 1) : tunIn'[i] = tunIn[i + 1]
      BY <2>1, EmptySeq, HeadTailProperties DEF Sound, InTransit
    <2>4. /\ \A c \in owed, j \in 1..n : c.id < tunIn[j].id
          /\ \A c \in owed, j \in 1..m :
                c.id < tDone[j].id \/ (handling /\ j = 1 /\ c.id = tDone[1].id)
      OBVIOUS
    <2> HIDE DEF n, m
    <2>5. \A c \in owed, j \in 1..(n - 1) : c.id < tunIn'[j].id
      <3>1. \A j \in 1..(n - 1) : j + 1 \in 1..n
        BY <2>3
      <3>. QED  BY <2>3, <2>4, <3>1
    <2>6. \A c \in owed, j \in 1..(m + 1) :
             c.id < tDone'[j].id \/ (handling /\ j = 1 /\ c.id = tDone'[1].id)
      <3>1. \A j \in 1..(m + 1) : (j \in 1..m /\ 1 \in 1..m) \/ j = m + 1
        BY <2>2
      <3>2. \A c \in owed : c.id < g.id
        BY <2>1, <2>3, <2>4
      <3>. QED  BY <2>2, <2>4, <3>1, <3>2
    <2>. QED  BY <2>1, <2>2, <2>3, <2>5, <2>6
  <1>3. CASE HandleLocalFrame
    <2> DEFINE k == Head(tDone).id
               new == CopiesFor(nodes, k)
    <2>1. /\ ~handling /\ handling' /\ tDone # <<>>
          /\ UNCHANGED <<tDone, tunIn, nextId>>
          /\ owed' = owed \/ owed' = owed \cup new
      BY <1>3, HandleMeans
    <2>2. 1 \in 1..Len(tDone) /\ Head(tDone) = tDone[1]
      <3>1. Len(tDone) \in Nat \ {0}
        BY <2>1, EmptySeq DEF Sound, InTransit
      <3>2. Head(tDone) = tDone[1]
        BY <2>1, TailElements DEF Sound, InTransit
      <3>. QED  BY <3>1, <3>2
    <2>3. k = tDone[1].id /\ k \in FrameId
      BY <2>2, Fields
    <2>4. new \in SUBSET Copy /\ \A c \in new : c.id = k
      <3>1. ToSet(nodes) \subseteq Node
        BY ToSetFacts DEF Sound, InTransit
      <3>. QED  BY <2>3, <3>1 DEF CopiesFor, Copy
    <2> HIDE DEF new, k
    <2>5. \A c \in owed' : c \in owed \/ c.id = k
      BY <2>1, <2>4
    <2>6. owed' \in SUBSET Copy
      BY <2>1, <2>4
    <2>7. \A c \in owed' : c.id < nextId
      BY <2>2, <2>3, <2>5 DEF Numbered
    <2>8. \A c \in owed', j \in 1..Len(tunIn) : c.id < tunIn[j].id
      BY <2>2, <2>3, <2>5 DEF Numbered
    <2>9. \A c \in owed', j \in 1..Len(tDone) :
             c.id < tDone[j].id \/ (j = 1 /\ c.id = tDone[1].id)
      <3>1. \A j \in 1..Len(tDone) : j = 1 \/ tDone[1].id < tDone[j].id
        <4>1. Len(tDone) \in Nat
          BY Fields
        <4>2. \A j \in 1..Len(tDone) : j = 1 \/ 1 < j
          BY <4>1
        <4>. QED  BY <2>2, <4>2 DEF Numbered
      <3>. QED  BY <2>1, <2>3, <2>5, <3>1
    <2>. QED  BY <2>1, <2>6, <2>7, <2>8, <2>9
  <1>4. CASE TunReadDone
    <2> DEFINE m == Len(tDone)
    <2>1. /\ tDone # <<>> /\ tDone' = Tail(tDone) /\ ~handling'
          /\ UNCHANGED <<tunIn, nextId, owed>>
      BY <1>4, DoneMeans
    <2>2. /\ m \in Nat \ {0} /\ Len(tDone') = m - 1
          /\ \A i \in 1..(m - 1) : tDone'[i] = tDone[i + 1]
      BY <2>1, EmptySeq, HeadTailProperties DEF Sound, InTransit
    <2>3. \A c \in owed, j \in 1..(m - 1) : c.id < tDone'[j].id
      <3>1. \A j \in 1..(m - 1) : j + 1 \in 1..m /\ j + 1 # 1
        BY <2>2
      <3>2. \A c \in owed, j \in 1..m : j # 1 => c.id < tDone[j].id
        OBVIOUS
      <3> HIDE DEF m
      <3>. QED  BY <2>2, <3>1, <3>2
    <2>. QED  BY <2>1, <2>2, <2>3
  <1>5. CASE UNCHANGED <<tDone, tunIn, nextId, handling, owed>>
    BY <1>5
  <1>6. CASE SendToRed
    BY <1>5, <1>6, SendMeans
  <1>7. ASSUME NEW ev \in SUBSET {"R", "W"}, UdpPoll(ev)
        PROVE  Handled'
    <2>1. UNCHANGED <<tDone, tunIn, nextId, handling, owed>>
      BY <1>7, PollMeans
    <2>. QED  BY <1>5, <2>1
  <1>8. CASE UdpWriteEach
    <2>1. UNCHANGED <<tDone, tunIn, nextId, handling, owed>>
      BY <1>8, WriteMeans
    <2>. QED  BY <1>5, <2>1
  <1>9. CASE NodeHandlers
    BY <1>5, <1>9 DEF NodeHandlers, NodeAdd, NodeRemove, tunVars, tunRVars, kernelVars, history
  <1>. QED  BY <1>1, <1>2, <1>3, <1>4, <1>5, <1>6, <1>7, <1>8, <1>9, StepsThatCount

LEMMA NodesOnceNext ==
    ASSUME Sound, NodesOnce, [Next]_vars
    PROVE  NodesOnce'
  <1> USE DEF NodesOnce
  <1>0. nodes \in Seq(Node) /\ iter \in Seq(Node)
    BY DEF Sound, InTransit
  <1>1. CASE HandleLocalFrame
    BY <1>1, HandleMeans
  <1>2. CASE SendToRed
    <2>1. handling' /\ iter # <<>> /\ iter' = Tail(iter) /\ nodes' = nodes
      BY <1>2, SendMeans
    <2>2. IsInjective(Tail(iter))
      BY <1>0, <2>1, TailElements
    <2>. QED  BY <2>1, <2>2
  <1>3. CASE TunReadDone
    BY <1>3, DoneMeans
  <1>4. CASE NodeHandlers
    <2>1. UNCHANGED <<handling, iter>>
      BY <1>4 DEF NodeHandlers, NodeAdd, NodeRemove
    <2>2. ASSUME NEW n \in Node, NodeAdd(n)
          PROVE  IsInjective(nodes')
      BY <1>0, <2>2, AppendElements DEF NodeAdd
    <2>3. ASSUME NEW n \in Node, NodeRemove(n)
          PROVE  IsInjective(nodes')
      BY <1>0, <2>3, RemoveAtElements, ToSetFacts DEF NodeRemove
    <2>4. IsInjective(nodes')
      BY <1>4, <2>2, <2>3 DEF NodeHandlers
    <2>. QED  BY <2>1, <2>4
  <1>5. CASE UNCHANGED <<handling, iter, nodes>>
    BY <1>5
  <1>6. ASSUME NEW h \in Headers, TunArrive(h)
        PROVE  NodesOnce'
    BY <1>5, <1>6 DEF TunArrive, routeVars
  <1>7. CASE TunReadEach
    BY <1>5, <1>7 DEF TunReadEach, routeVars
  <1>8. ASSUME NEW ev \in SUBSET {"R", "W"}, UdpPoll(ev)
        PROVE  NodesOnce'
    <2>1. UNCHANGED <<handling, iter, nodes>>
      BY <1>8, PollMeans
    <2>. QED  BY <1>5, <2>1
  <1>9. CASE UdpWriteEach
    <2>1. UNCHANGED <<handling, iter, nodes>>
      BY <1>9, WriteMeans
    <2>. QED  BY <1>5, <2>1
  <1>. QED  BY <1>1, <1>2, <1>3, <1>4, <1>5, <1>6, <1>7, <1>8, <1>9, StepsThatCount

\* The copies a broadcast has still to queue stay the same while the frame at
\* the head of work_done and the iterator do.
LEMMA UnvisitedKept ==
    ASSUME iter' = iter, iter = <<>> \/ Head(tDone') = Head(tDone)
    PROVE  Unvisited' = Unvisited
  BY DEF Unvisited

LEMMA UdpQueues ==
    ASSUME Sound
    PROVE  wReady \in Seq(Copy) /\ wWork \in Seq(Copy)
  BY DEF Sound, Udp!TypeOK

\* Each step moves copies from one place to the next.
LEMMA CopiesOnceNext ==
    ASSUME Sound, Sound', Handled, NodesOnce, CopiesOnce, [Next]_vars
    PROVE  CopiesOnce'
  <1> USE DEF CopiesOnce
  <1>0. wReady \in Seq(Copy) /\ wWork \in Seq(Copy)
    BY UdpQueues
  <1>1. CASE HandleLocalFrame
    <2> DEFINE k == Head(tDone).id
               new == CopiesFor(nodes, k)
    <2>1. /\ ~handling /\ tDone # <<>>
          /\ UNCHANGED <<tDone, wReady, wWork, sent, dropped>>
          /\ \/ UNCHANGED <<iter, owed>>
             \/ iter' = nodes /\ owed' = owed \cup new
      BY <1>1, HandleMeans
    <2>2. Queued' = Queued
      BY <2>1 DEF Queued
    <2>3. CASE UNCHANGED <<iter, owed>>
      <3>1. Unvisited' = Unvisited
        BY <2>1, <2>3, UnvisitedKept
      <3>. QED  BY <2>1, <2>2, <2>3, <3>1
    <2>4. CASE iter' = nodes /\ owed' = owed \cup new
      <3>1. Unvisited = {}
        BY <2>1, UnvisitedIs DEF NodesOnce, Unvisited
      <3>2. Unvisited' = new
        BY <2>1, <2>4, EmptyIsInjective DEF Unvisited, CopiesFor
      <3>3. \A c \in owed : c.id # k
        <4>1. 1 \in 1..Len(tDone) /\ Head(tDone) = tDone[1]
          <5>1. Len(tDone) \in Nat \ {0}
            BY <2>1, EmptySeq DEF Sound, InTransit
          <5>2. Head(tDone) = tDone[1]
            BY <2>1, TailElements DEF Sound, InTransit
          <5>. QED  BY <5>1, <5>2
        <4>2. \A c \in owed : c.id < tDone[1].id
          BY <2>1, <4>1 DEF Handled
        <4>3. tDone[1].id \in Int /\ \A c \in owed : c.id \in Int
          BY <4>1, Fields DEF Handled
        <4>. QED  BY <4>1, <4>2, <4>3
      <3>4. new \cap owed = {}
        BY <3>3 DEF CopiesFor
      <3> HIDE DEF new
      <3>5. owed = Queued \cup ToSet(sent) \cup dropped
        BY <3>1
      <3>6. owed' = Unvisited' \cup Queued' \cup ToSet(sent') \cup dropped'
        BY <2>1, <2>2, <2>4, <3>2, <3>5
      <3>7. Unvisited' \cap (Queued' \cup ToSet(sent') \cup dropped') = {}
        BY <2>1, <2>2, <3>2, <3>4, <3>5
      <3>. QED  BY <2>1, <2>2, <3>6, <3>7
    <2>. QED  BY <2>1, <2>3, <2>4
  <1>2. CASE SendToRed
    <2> DEFINE c == [node |-> Head(iter), id |-> Head(tDone).id]
    <2>1. /\ c \in Copy
          /\ handling /\ iter # <<>> /\ iter' = Tail(iter)
          /\ UNCHANGED <<tDone, owed, sent, wWork>>
          /\ \/ dropped' = dropped \cup {c} /\ UNCHANGED wReady
             \/ wReady' = Append(wReady, c) /\ UNCHANGED dropped
      BY <1>2, SendMeans
    <2>2. /\ ToSet(iter) = {Head(iter)} \cup ToSet(Tail(iter))
          /\ Head(iter) \notin ToSet(Tail(iter))
      BY <2>1, TailElements DEF NodesOnce, Sound, InTransit
    <2>3. Unvisited' = CopiesFor(Tail(iter), Head(tDone).id)
      BY <2>1, EmptyIsInjective DEF Unvisited, CopiesFor
    <2>4. c \in Unvisited /\ c \notin Unvisited' /\ Unvisited = Unvisited' \cup {c}
      BY <2>2, <2>3, UnvisitedIs DEF CopiesFor
    <2> HIDE DEF c
    <2>5. CASE dropped' = dropped \cup {c} /\ UNCHANGED wReady
      <3>1. Queued' = Queued
        BY <2>1, <2>5 DEF Queued
      <3>2. IsFiniteSet(dropped')
        BY <2>5, FS_AddElement
      <3>. QED  BY <2>1, <2>4, <2>5, <3>1, <3>2
    <2>6. CASE wReady' = Append(wReady, c) /\ UNCHANGED dropped
      <3>1. c \notin Queued /\ c \notin ToSet(sent) /\ c \notin dropped
        BY <2>4
      <3>2. ToSet(wReady') = ToSet(wReady) \cup {c} /\ IsInjective(wReady')
        BY <1>0, <2>1, <2>6, <3>1, AppendElements DEF Queued
      <3>3. Queued' = Queued \cup {c}
        BY <2>1, <3>2 DEF Queued
      <3>4. ToSet(wReady') \cap ToSet(wWork') = {}
        BY <2>1, <3>1, <3>2 DEF Queued
      <3>. QED  BY <2>1, <2>4, <2>6, <3>1, <3>2, <3>3, <3>4
    <2>. QED  BY <2>1, <2>5, <2>6
  <1>3. ASSUME NEW ev \in SUBSET {"R", "W"}, UdpPoll(ev)
        PROVE  CopiesOnce'
    <2>1. UNCHANGED <<tDone, iter, owed, sent, dropped>>
      BY <1>3, PollMeans
    <2>2. Unvisited' = Unvisited
      BY <2>1, UnvisitedKept
    <2>3. CASE UNCHANGED <<wReady, wWork>>
      BY <2>1, <2>2, <2>3 DEF Queued
    <2>4. CASE wReady' = EmptyFrom(wReady, Batch) /\ wWork' = EmptyTo(wReady, wWork, Batch)
      <3>1. /\ ToSet(wReady') \cup ToSet(wWork') = ToSet(wReady) \cup ToSet(wWork)
            /\ IsInjective(wReady') /\ IsInjective(wWork')
            /\ ToSet(wReady') \cap ToSet(wWork') = {}
        BY <1>0, <2>4, EmptyIntoElements, BufsAssumption
      <3>2. Queued' = Queued
        BY <3>1 DEF Queued
      <3>. QED  BY <2>1, <2>2, <3>1, <3>2
    <2>. QED  BY <1>3, <2>3, <2>4, PollMeans
  <1>4. CASE UdpWriteEach
    <2> DEFINE c == Head(wWork)
    <2>1. /\ UNCHANGED <<tDone, iter, owed, wReady, dropped>>
          /\ wWork # <<>> /\ wWork' = Tail(wWork) /\ sent' = Append(sent, c)
      BY <1>4, WriteMeans
    <2>2. Unvisited' = Unvisited
      BY <2>1, UnvisitedKept
    <2>3. /\ c \in Copy
          /\ ToSet(wWork) = {c} \cup ToSet(wWork')
          /\ IsInjective(wWork') /\ c \notin ToSet(wWork')
      BY <1>0, <2>1, TailElements
    <2> HIDE DEF c
    <2>4. c \in Queued /\ c \notin ToSet(sent) /\ c \notin ToSet(wReady)
      BY <2>3 DEF Queued
    <2>5. /\ sent' \in Seq(Copy) /\ ToSet(sent') = ToSet(sent) \cup {c}
          /\ IsInjective(sent')
      BY <2>1, <2>3, <2>4, AppendElements
    <2>6. Queued = Queued' \cup {c} /\ c \notin Queued'
      BY <2>1, <2>3, <2>4 DEF Queued
    <2>7. ToSet(wReady') \cap ToSet(wWork') = {}
      BY <2>1, <2>3
    <2>. QED  BY <2>1, <2>2, <2>3, <2>4, <2>5, <2>6, <2>7
  <1>5. CASE UNCHANGED <<iter, owed, wReady, wWork, sent, dropped>> /\ Unvisited' = Unvisited
    BY <1>5 DEF Queued
  <1>6. ASSUME NEW h \in Headers, TunArrive(h)
        PROVE  CopiesOnce'
    <2>1. UNCHANGED <<tDone, iter, owed, wReady, wWork, sent, dropped>>
      BY <1>6 DEF TunArrive, tunVars, tunRVars, udpVars, udpWVars, routeVars, history
    <2>. QED  BY <1>5, <2>1, UnvisitedKept
  <1>7. CASE TunReadEach
    <2>1. PICK g \in TunFrame : tDone' = Append(tDone, g)
      BY <1>7, ReadEachMeans
    <2>2. UNCHANGED <<iter, owed, wReady, wWork, sent, dropped>>
      BY <1>7, ReadEachMeans
    <2>3. iter # <<>> => Head(tDone') = Head(tDone)
      BY <2>1, HeadTailAppend DEF NodesOnce, Sound, InTransit
    <2>4. Unvisited' = Unvisited
      BY <2>2, <2>3, UnvisitedKept
    <2>. QED  BY <1>5, <2>2, <2>4
  <1>8. CASE TunReadDone
    <2>1. iter = <<>> /\ UNCHANGED <<iter, owed, wReady, wWork, sent, dropped>>
      BY <1>8, DoneMeans
    <2>. QED  BY <1>5, <2>1, UnvisitedKept
  <1>9. CASE UNCHANGED <<tDone, iter, owed, wReady, wWork, sent, dropped>>
    BY <1>5, <1>9, UnvisitedKept
  <1>10. CASE NodeHandlers
    BY <1>9, <1>10 DEF NodeHandlers, NodeAdd, NodeRemove, tunVars, tunRVars, udpVars, udpWVars,
         history
  <1>. QED
    BY <1>1, <1>2, <1>3, <1>4, <1>6, <1>7, <1>8, <1>9, <1>10, StepsThatCount

LEMMA InitOneOfEach == Init => OneOfEach
  <1> SUFFICES ASSUME Init PROVE OneOfEach
    OBVIOUS
  <1>1. /\ tDone = <<>> /\ wReady = <<>> /\ wWork = <<>> /\ sent = <<>> /\ tunIn = <<>>
        /\ iter = <<>> /\ nodes = InitNodes /\ owed = {} /\ dropped = {}
    BY DEF Init, Tun!Init, Udp!Init
  <1>2. Len(tDone) = 0 /\ Len(tunIn) = 0
    BY <1>1, EmptySeq
  <1>3. Numbered /\ Handled
    BY <1>1, <1>2 DEF Numbered, Handled
  <1>4. NodesOnce
    BY <1>1, NodesAssumption, EmptyIsInjective DEF NodesOnce
  <1>5. Unvisited = {} /\ Queued = {}
    BY <1>1, EmptyIsInjective DEF Unvisited, Queued
  <1>6. CopiesOnce
    BY <1>1, <1>5, EmptyIsInjective, FS_EmptySet, EmptySeq DEF CopiesOnce
  <1>. QED  BY <1>3, <1>4, <1>6 DEF OneOfEach

LEMMA OneOfEachHolds == Spec => []OneOfEach
  <1>1. Sound /\ Sound' /\ OneOfEach /\ [Next]_vars => OneOfEach'
    BY NumberedNext, HandledNext, NodesOnceNext, CopiesOnceNext DEF OneOfEach
  <1>. QED  BY <1>1, InitOneOfEach, AlwaysSound, PTL DEF Spec

LEMMA OneOfEachAccounts ==
    ASSUME Sound, OneOfEach
    PROVE  Accounting
  <1> USE DEF OneOfEach, CopiesOnce
  <1>1. owed = Unvisited \cup Queued \cup ToSet(sent) \cup dropped
    OBVIOUS
  <1> DEFINE R == ToSet(wReady)
             W == ToSet(wWork)
             S == ToSet(sent)
  <1>2. wReady \in Seq(Copy) /\ wWork \in Seq(Copy) /\ sent \in Seq(Copy)
    BY UdpQueues
  <1>3. /\ IsFiniteSet(R) /\ Cardinality(R) = Len(wReady)
        /\ IsFiniteSet(W) /\ Cardinality(W) = Len(wWork)
        /\ IsFiniteSet(S) /\ Cardinality(S) = Len(sent)
    BY <1>2, InjectiveLength
  <1>4. IsFiniteSet(Unvisited)
    <2> DEFINE k == Head(tDone).id
               f == [n \in ToSet(iter) |-> [node |-> n, id |-> k]]
    <2>1. IsFiniteSet(ToSet(iter))
      BY InjectiveLength DEF NodesOnce, Sound, InTransit
    <2>2. Unvisited = {[node |-> n, id |-> k] : n \in ToSet(iter)}
      BY UnvisitedIs DEF CopiesFor
    <2> HIDE DEF k
    <2>3. f \in Surjection(ToSet(iter), Unvisited)
      BY <2>2 DEF Surjection
    <2>. QED  BY <2>1, <2>3, FS_Surjection
  <1>5. IsFiniteSet(dropped)
    OBVIOUS
  <1>6. ASSUME NEW A, NEW B, IsFiniteSet(A), IsFiniteSet(B), A \cap B = {}
        PROVE  IsFiniteSet(A \cup B) /\ Cardinality(A \cup B) = Cardinality(A) + Cardinality(B)
    <2>1. Cardinality(A) \in Nat /\ Cardinality(B) \in Nat
      BY <1>6, FS_CardinalityType
    <2>2. Cardinality(A \cap B) = 0
      BY <1>6, FS_EmptySet
    <2>3. IsFiniteSet(A \cup B)
      BY <1>6, FS_Union
    <2>4. Cardinality(A \cup B) = Cardinality(A) + Cardinality(B) - Cardinality(A \cap B)
      BY <1>6, FS_Union
    <2>. QED  BY <2>1, <2>2, <2>3, <2>4
  <1> DEFINE Q == R \cup W
             QS == Q \cup S
             QSD == QS \cup dropped
  <1>7. /\ R \cap W = {} /\ Q \cap S = {} /\ QS \cap dropped = {} /\ QSD \cap Unvisited = {}
        /\ owed = QSD \cup Unvisited
    BY <1>1 DEF Queued
  <1> HIDE DEF R, W, S
  <1>8. IsFiniteSet(Q) /\ Cardinality(Q) = Len(wReady) + Len(wWork)
    BY <1>3, <1>6, <1>7
  <1> HIDE DEF Q
  <1>9. IsFiniteSet(QS) /\ Cardinality(QS) = Cardinality(Q) + Len(sent)
    BY <1>3, <1>6, <1>7, <1>8
  <1> HIDE DEF QS
  <1>10. IsFiniteSet(QSD) /\ Cardinality(QSD) = Cardinality(QS) + Cardinality(dropped)
    BY <1>5, <1>6, <1>7, <1>9
  <1> HIDE DEF QSD
  <1>11. Cardinality(owed) = Cardinality(QSD) + Cardinality(Unvisited)
    BY <1>4, <1>6, <1>7, <1>10
  <1>12. /\ Len(wReady) \in Nat /\ Len(wWork) \in Nat /\ Len(sent) \in Nat
         /\ Cardinality(dropped) \in Nat /\ Cardinality(Unvisited) \in Nat
    BY <1>2, <1>4, <1>5, FS_CardinalityType, LenProperties
  <1>13. Cardinality(owed) = Cardinality(Unvisited) + Len(wReady) + Len(wWork)
                               + Len(sent) + Cardinality(dropped)
    BY <1>8, <1>9, <1>10, <1>11, <1>12
  <1>. QED  BY <1>1, <1>13 DEF Accounting

\* Every copy of every frame is still to be queued by send_to_red
\* (route.c:34), waiting, sent or was dropped, and in one place only: for any
\* list, any frames, any numbers of buffers, whatever fails and however the
\* callbacks, the node handlers and the pool threads interleave.
THEOREM EveryCopyAccounted == Spec => []Accounting
  BY OneOfEachAccounts, OneOfEachHolds, AlwaysSound, PTL

-----------------------------------------------------------------------------
(* The data path implements Multicast.                                     *)

LEMMA PromiseInit == Init => Promise!Init
  <1> SUFFICES ASSUME Init PROVE Promise!Init
    OBVIOUS
  <1>1. nodes = InitNodes /\ owed = {} /\ dropped = {} /\ sent = <<>>
    BY DEF Init
  <1>2. ToSet(nodes) \in SUBSET Node
    BY <1>1, NodesAssumption, ToSetFacts
  <1>3. {c.id : c \in owed} = {} /\ owed \ (ToSet(sent) \cup dropped) = {} /\ ToSet(sent) = {}
    BY <1>1, EmptyIsInjective
  <1>. QED  BY <1>2, <1>3 DEF Promise!Init

\* A step of the data path is a step of Multicast, or none: the frame in hand
\* is taken in, a copy is sent or given up, a node joins or leaves.
LEMMA PromiseStep ==
    ASSUME Sound, OneOfEach, OneOfEach', [Next]_vars
    PROVE  [Promise!Next]_(Promise!vars)
  <1> USE DEF OneOfEach, CopiesOnce
  <1>0. wReady \in Seq(Copy) /\ wWork \in Seq(Copy)
    BY UdpQueues
  <1>1. CASE UNCHANGED <<nodes, owed, sent, dropped>>
    BY <1>1 DEF Promise!vars
  <1>2. CASE HandleLocalFrame
    <2> DEFINE k == Head(tDone).id
               new == CopiesFor(nodes, k)
    <2>1. /\ ~handling /\ tDone # <<>>
          /\ UNCHANGED <<nodes, sent, dropped>>
          /\ owed' = owed \/ owed' = owed \cup new
      BY <1>2, HandleMeans
    <2>2. 1 \in 1..Len(tDone) /\ Head(tDone) = tDone[1]
      <3>1. Len(tDone) \in Nat \ {0}
        BY <2>1, EmptySeq DEF Sound, InTransit
      <3>2. Head(tDone) = tDone[1]
        BY <2>1, TailElements DEF Sound, InTransit
      <3>. QED  BY <3>1, <3>2
    <2>3. k \in FrameId /\ k \in Int
      BY <2>2, Fields
    <2>4. \A c \in owed : c.id # k
      <3>1. \A c \in owed : c.id < tDone[1].id
        BY <2>1, <2>2 DEF Handled
      <3>2. \A c \in owed : c.id \in Int
        BY Fields DEF Handled
      <3>. QED  BY <2>2, <2>3, <3>1, <3>2
    <2>5. CASE owed' = owed
      BY <1>1, <2>1, <2>5
    <2>6. CASE owed' = owed \cup new /\ ToSet(nodes) = {}
      <3>1. new = {}
        BY <2>6 DEF CopiesFor
      <3>. QED  BY <1>1, <2>1, <2>6, <3>1
    <2>7. CASE owed' = owed \cup new /\ ToSet(nodes) # {}
      <3>1. {c.id : c \in new} = {k}
        <4>1. PICK n \in ToSet(nodes) : TRUE
          BY <2>7
        <4>2. [node |-> n, id |-> k] \in new
          BY <4>1 DEF CopiesFor
        <4>3. \A c \in new : c.id = k
          BY DEF CopiesFor
        <4>4. [node |-> n, id |-> k].id = k
          OBVIOUS
        <4> HIDE DEF k, new
        <4>. QED  BY <4>2, <4>3, <4>4
      <3>2. k \notin {c.id : c \in owed}
        BY <2>4
      <3>3. new \cap (ToSet(sent) \cup dropped) = {}
        <4>1. ToSet(sent) \cup dropped \subseteq owed
          OBVIOUS
        <4>2. \A c \in new : c.id = k
          BY DEF CopiesFor
        <4>. QED  BY <2>4, <4>1, <4>2
      <3>4. {c.id : c \in owed'} = {c.id : c \in owed} \cup {k}
        <4> HIDE DEF k, new
        <4>. QED  BY <2>7, <3>1
      <3>5. owed' \ (ToSet(sent') \cup dropped')
              = (owed \ (ToSet(sent) \cup dropped)) \cup new
        <4> HIDE DEF k, new
        <4>. QED  BY <2>1, <2>7, <3>3
      <3>6. new = {[node |-> n, id |-> k] : n \in ToSet(nodes)}
        BY DEF CopiesFor
      <3> HIDE DEF k, new
      <3>7. PICK f \in FrameId : f = k
        BY <2>3
      <3>8. Promise!Take(f)
        BY <2>1, <3>2, <3>4, <3>5, <3>6, <3>7 DEF Promise!Take
      <3>. QED  BY <3>8 DEF Promise!Next
    <2> HIDE DEF k, new
    <2>8. owed' = owed \/ owed' = owed \cup new
      BY <2>1
    <2>. QED  BY <2>5, <2>6, <2>7, <2>8
  <1>3. CASE SendToRed
    <2> DEFINE c == [node |-> Head(iter), id |-> Head(tDone).id]
    <2>1. /\ c \in Copy /\ iter # <<>>
          /\ UNCHANGED <<nodes, owed, sent>>
          /\ dropped' = dropped \/ dropped' = dropped \cup {c}
      BY <1>3, SendMeans
    <2>2. c \in Unvisited
      <3>1. Head(iter) \in ToSet(iter)
        BY <2>1, TailElements DEF Sound, InTransit
      <3>. QED  BY <3>1, UnvisitedIs DEF CopiesFor
    <2> HIDE DEF c
    <2>3. CASE dropped' = dropped
      BY <1>1, <2>1, <2>3
    <2>4. CASE dropped' = dropped \cup {c}
      <3>1. c \in owed \ (ToSet(sent) \cup dropped)
        BY <2>2
      <3>2. owed' \ (ToSet(sent') \cup dropped') = (owed \ (ToSet(sent) \cup dropped)) \ {c}
        BY <2>1, <2>4
      <3>3. Promise!GiveUp(c)
        BY <2>1, <3>1, <3>2 DEF Promise!GiveUp
      <3>. QED  BY <2>1, <3>3 DEF Promise!Next, Promise!Copy, Copy
    <2>. QED  BY <2>1, <2>3, <2>4
  <1>4. CASE UdpWriteEach
    <2> DEFINE c == Head(wWork)
    <2>1. /\ UNCHANGED <<nodes, owed, dropped>>
          /\ wWork # <<>> /\ sent' = Append(sent, c)
      BY <1>4, WriteMeans
    <2>2. c \in Copy /\ c \in Queued
      BY <1>0, <2>1, TailElements DEF Queued
    <2> HIDE DEF c
    <2>3. ToSet(sent') = ToSet(sent) \cup {c}
      BY <2>1, <2>2, AppendElements
    <2>4. c \in owed \ (ToSet(sent) \cup dropped)
      BY <2>2
    <2>5. owed' \ (ToSet(sent') \cup dropped') = (owed \ (ToSet(sent) \cup dropped)) \ {c}
      BY <2>1, <2>3
    <2>6. Promise!Transmit(c)
      BY <2>1, <2>3, <2>4, <2>5 DEF Promise!Transmit
    <2>. QED  BY <2>2, <2>6 DEF Promise!Next, Promise!Copy, Copy
  <1>5. ASSUME NEW n \in Node, NodeAdd(n)
        PROVE  Promise!Next
    <2>1. n \notin ToSet(nodes) /\ ToSet(nodes') = ToSet(nodes) \cup {n}
      BY <1>5, AppendElements DEF NodeAdd, Sound, InTransit
    <2>2. UNCHANGED <<owed, sent, dropped>>
      BY <1>5 DEF NodeAdd, history
    <2>3. Promise!Join(n)
      BY <2>1, <2>2 DEF Promise!Join
    <2>. QED  BY <2>3 DEF Promise!Next
  <1>6. ASSUME NEW n \in Node, NodeRemove(n)
        PROVE  Promise!Next
    <2>1. PICK i \in DOMAIN nodes : nodes[i] = n /\ nodes' = RemoveAt(nodes, i)
      BY <1>6 DEF NodeRemove
    <2>2. nodes \in Seq(Node) /\ i \in 1..Len(nodes) /\ IsInjective(nodes)
      BY LenProperties DEF Sound, InTransit, NodesOnce
    <2>3. n \in ToSet(nodes) /\ ToSet(nodes') = ToSet(nodes) \ {n}
      <3>1. n \in ToSet(nodes)
        BY <2>1 DEF ToSet
      <3>. QED  BY <2>1, <2>2, <3>1, RemoveAtElements
    <2>4. UNCHANGED <<owed, sent, dropped>>
      BY <1>6 DEF NodeRemove, history
    <2>5. Promise!Leave(n)
      BY <2>3, <2>4 DEF Promise!Leave
    <2>. QED  BY <2>5 DEF Promise!Next
  <1>7. ASSUME NEW h \in Headers, TunArrive(h)
        PROVE  UNCHANGED <<nodes, owed, sent, dropped>>
    BY <1>7 DEF TunArrive, routeVars, history
  <1>8. CASE TunReadEach
    <2>1. UNCHANGED <<nodes, owed, sent, dropped>>
      BY <1>8, ReadEachMeans
    <2>. QED  BY <1>1, <2>1
  <1>9. CASE TunReadDone
    <2>1. UNCHANGED <<nodes, owed, sent, dropped>>
      BY <1>9, DoneMeans
    <2>. QED  BY <1>1, <2>1
  <1>10. ASSUME NEW ev \in SUBSET {"R", "W"}, UdpPoll(ev)
         PROVE  UNCHANGED <<nodes, owed, sent, dropped>>
    BY <1>10, PollMeans
  <1>. QED
    BY <1>1, <1>2, <1>3, <1>4, <1>5, <1>6, <1>7, <1>8, <1>9, <1>10, StepsThatCount
       DEF NodeHandlers

\* Redd sends a copy of each frame to each node of the list at most once and
\* nothing else (route.c:13-74): the data path with its threads, queues and
\* failures implements Multicast.
THEOREM PromiseKept == Spec => MulticastPromise
  <1>1. Sound /\ OneOfEach /\ OneOfEach' /\ [Next]_vars => [Promise!Next]_(Promise!vars)
    BY PromiseStep
  <1>. QED  BY <1>1, PromiseInit, OneOfEachHolds, AlwaysSound, PTL
            DEF Spec, MulticastPromise, Promise!Spec

-----------------------------------------------------------------------------
(* The order of the copies (OrderKept).                                    *)

\* Of two copies for one node the first is of the older frame, or the second
\* is one of L: a copy a job has left behind.
Precedes(c, d, L) == c.node = d.node => c.id < d.id \/ d \in L

InOrder(s, L) == \A i, j \in 1..Len(s) : i < j => Precedes(s[i], s[j], L)

Before(s, t, L) == \A i \in 1..Len(s), j \in 1..Len(t) : Precedes(s[i], t[j], L)

\* From ready_queue through work_queue to the network the copies are in order,
\* but for those left behind, and what is on work_queue without a job was.
Orderly ==
    /\ wJob # "doing" => ToSet(wWork) \subseteq left
    /\ InOrder(sent, left) /\ InOrder(wWork, left) /\ InOrder(wReady, left)
    /\ Before(sent, wWork, left) /\ Before(sent, wReady, left)
    /\ Before(wWork, wReady, left)

LEMMA EmptyInOrder ==
    ASSUME NEW L
    PROVE  InOrder(<<>>, L) /\ Before(<<>>, <<>>, L)
  <1>1. 1..Len(<<>>) = {}
    OBVIOUS
  <1>. QED  BY <1>1 DEF InOrder, Before

\* More copies may have been left behind.
LEMMA MoreLeft ==
    ASSUME NEW L, NEW M, L \subseteq M, NEW s, NEW t
    PROVE  /\ InOrder(s, L) => InOrder(s, M)
           /\ Before(s, t, L) => Before(s, t, M)
  BY DEF InOrder, Before, Precedes

\* A copy that comes after all others joins the end of a queue.
LEMMA AppendInOrder ==
    ASSUME NEW S, NEW s \in Seq(S), NEW c \in S, NEW L,
           \A i \in 1..Len(s) : Precedes(s[i], c, L)
    PROVE  /\ InOrder(s, L) => InOrder(Append(s, c), L)
           /\ \A t : Before(s, t, L) /\ (\A j \in 1..Len(t) : Precedes(c, t[j], L))
                       => Before(Append(s, c), t, L)
           /\ \A t : Before(t, s, L) /\ (\A i \in 1..Len(t) : Precedes(t[i], c, L))
                       => Before(t, Append(s, c), L)
  <1> DEFINE n == Len(s)
             a == Append(s, c)
  <1>1. /\ n \in Nat /\ Len(a) = n + 1 /\ a[n + 1] = c
        /\ \A i \in 1..n : a[i] = s[i]
    BY AppendProperties, LenProperties
  <1>2. \A i \in 1..n : Precedes(s[i], c, L)
    OBVIOUS
  <1> HIDE DEF n, a
  <1>3. \A i \in 1..(n + 1) : (i \in 1..n /\ a[i] = s[i]) \/ (i = n + 1 /\ a[i] = c)
    BY <1>1
  <1>4. ASSUME \A i, j \in 1..n : i < j => Precedes(s[i], s[j], L),
               NEW i \in 1..(n + 1), NEW j \in 1..(n + 1), i < j
        PROVE  Precedes(a[i], a[j], L)
    <2>1. i \in 1..n /\ a[i] = s[i]
      BY <1>1, <1>3, <1>4
    <2>. QED  BY <1>2, <1>3, <1>4, <2>1
  <1>5. ASSUME NEW t, \A i \in 1..n, j \in 1..Len(t) : Precedes(s[i], t[j], L),
               \A j \in 1..Len(t) : Precedes(c, t[j], L)
        PROVE  \A i \in 1..(n + 1), j \in 1..Len(t) : Precedes(a[i], t[j], L)
    BY <1>3, <1>5
  <1>6. ASSUME NEW t, \A i \in 1..Len(t), j \in 1..n : Precedes(t[i], s[j], L),
               \A i \in 1..Len(t) : Precedes(t[i], c, L)
        PROVE  \A i \in 1..Len(t), j \in 1..(n + 1) : Precedes(t[i], a[j], L)
    BY <1>3, <1>6
  <1>7. Len(a) = n + 1
    BY <1>1
  <1>8. InOrder(s, L) => InOrder(a, L)
    BY <1>4, <1>7 DEF InOrder, n
  <1>9. \A t : Before(s, t, L) /\ (\A j \in 1..Len(t) : Precedes(c, t[j], L))
                 => Before(a, t, L)
    BY <1>5, <1>7 DEF Before, n
  <1>10. \A t : Before(t, s, L) /\ (\A i \in 1..Len(t) : Precedes(t[i], c, L))
                  => Before(t, a, L)
    BY <1>6, <1>7 DEF Before, n
  <1>. QED  BY <1>8, <1>9, <1>10 DEF a

\* The head leaves a queue.
LEMMA TailInOrder ==
    ASSUME NEW S, NEW s \in Seq(S), s # <<>>, NEW L, InOrder(s, L)
    PROVE  /\ InOrder(Tail(s), L)
           /\ \A j \in 1..Len(Tail(s)) : Precedes(Head(s), Tail(s)[j], L)
           /\ \A t : Before(s, t, L) =>
                       Before(Tail(s), t, L) /\ \A j \in 1..Len(t) : Precedes(Head(s), t[j], L)
           /\ \A t : Before(t, s, L) =>
                       Before(t, Tail(s), L) /\ \A i \in 1..Len(t) : Precedes(t[i], Head(s), L)
  <1> DEFINE n == Len(s)
             r == Tail(s)
  <1>1. /\ n \in Nat \ {0} /\ Len(r) = n - 1
        /\ \A i \in 1..(n - 1) : r[i] = s[i + 1]
    BY EmptySeq, HeadTailProperties
  <1>2. Head(s) = s[1]
    BY TailElements
  <1>3. \A i, j \in 1..n : i < j => Precedes(s[i], s[j], L)
    BY DEF InOrder
  <1>4. \A t : Before(s, t, L) => \A i \in 1..n, j \in 1..Len(t) : Precedes(s[i], t[j], L)
    BY DEF Before
  <1>5. \A t : Before(t, s, L) => \A i \in 1..Len(t), j \in 1..n : Precedes(t[i], s[j], L)
    BY DEF Before
  <1> HIDE DEF n, r
  <1>6. /\ 1 \in 1..n
        /\ \A i \in 1..(n - 1) : i + 1 \in 1..n /\ 1 < i + 1 /\ r[i] = s[i + 1]
    BY <1>1
  <1>7. \A i, j \in 1..(n - 1) : i < j => i + 1 < j + 1
    BY <1>1
  <1>8. InOrder(r, L)
    BY <1>1, <1>3, <1>6, <1>7 DEF InOrder
  <1>9. \A j \in 1..(n - 1) : Precedes(s[1], r[j], L)
    BY <1>3, <1>6
  <1>10. \A t : Before(s, t, L) => Before(r, t, L) /\ \A j \in 1..Len(t) : Precedes(s[1], t[j], L)
    BY <1>1, <1>4, <1>6 DEF Before
  <1>11. \A t : Before(t, s, L) => Before(t, r, L) /\ \A i \in 1..Len(t) : Precedes(t[i], s[1], L)
    BY <1>1, <1>5, <1>6 DEF Before
  <1>. QED  BY <1>1, <1>2, <1>8, <1>9, <1>10, <1>11 DEF r

\* A job is given the newest copies of ready_queue, in front of what an earlier
\* job left on work_queue; what stays on ready_queue is left behind.
LEMMA PollInOrder ==
    ASSUME NEW S, NEW r \in Seq(S), NEW w \in Seq(S), NEW limit \in Int, NEW L,
           InOrder(r, L), InOrder(w, L), ToSet(w) \subseteq L
    PROVE  LET f == EmptyFrom(r, limit)
               t == EmptyTo(r, w, limit)
           IN  /\ InOrder(f, L) /\ InOrder(t, L)
               /\ Before(t, f, L \cup ToSet(f))
               /\ \A s : Before(s, r, L) /\ Before(s, w, L) => Before(s, f, L) /\ Before(s, t, L)
  <1> DEFINE k == Len(r) - Moved(r, limit)
             m == Len(r) - k
             f == SubSeq(r, 1, k)
             b == SubSeq(r, k + 1, Len(r))
             t == b \o w
             n == Len(w)
  <1>1. k \in 0..Len(r)
    <2>1. Moved(r, limit) \in 0..Len(r)
      BY MovedBounds, Zenon
    <2>. QED  BY <2>1, LenProperties
  <1>2. /\ f \in Seq(S) /\ b \in Seq(S) /\ Len(f) = k /\ Len(b) = m
        /\ \A i \in 1..k : f[i] = r[i]
        /\ \A i \in 1..m : b[i] = r[k + i]
    BY <1>1, SplitElements
  <1>3. EmptyFrom(r, limit) = f /\ EmptyTo(r, w, limit) = t
    BY DEF EmptyFrom, EmptyTo
  <1>4. Len(r) \in Nat /\ n \in Nat /\ k \in Nat /\ m \in Nat /\ k + m = Len(r)
    BY <1>1, LenProperties
  <1>5. /\ Len(t) = m + n
        /\ \A i \in 1..m : t[i] = b[i]
        /\ \A i \in 1..n : t[m + i] = w[i]
    <2>1. b \in Seq(S) /\ Len(b) = m
      BY <1>2
    <2> HIDE DEF b, m
    <2>2. Len(t) = Len(b) + n
      BY <2>1, ConcatIs
    <2>3. \A i \in 1..Len(b) : t[i] = b[i]
      BY <2>1, ConcatIs
    <2>4. \A i \in 1..n : t[Len(b) + i] = w[i]
      BY <2>1, ConcatIs
    <2> HIDE DEF t, n
    <2>. QED  BY <2>1, <2>2, <2>3, <2>4
  <1>6. (\A i \in 1..n : w[i] \in L) /\ (\A i \in 1..k : f[i] \in ToSet(f))
    BY <1>2, ToSetFacts
  <1> HIDE DEF k, m, f, b, t, n
  <1>7. \A i \in 1..(m + n) : \/ i \in 1..m /\ k + i \in 1..Len(r) /\ t[i] = r[k + i]
                              \/ i > m /\ i - m \in 1..n /\ t[i] = w[i - m]
    <2>1. ASSUME NEW i \in 1..(m + n), i <= m
          PROVE  i \in 1..m /\ k + i \in 1..Len(r) /\ t[i] = r[k + i]
      BY <1>2, <1>4, <1>5, <2>1
    <2>2. ASSUME NEW i \in 1..(m + n), i > m
          PROVE  i - m \in 1..n /\ t[i] = w[i - m]
      <3>1. i - m \in 1..n /\ m + (i - m) = i
        BY <1>4, <2>2
      <3>. QED  BY <1>5, <3>1
    <2>. QED  BY <1>4, <2>1, <2>2
  <1>8. \A i \in 1..k : i \in 1..Len(r) /\ f[i] = r[i]
    BY <1>2, <1>4
  <1>9. InOrder(f, L)
    BY <1>2, <1>8 DEF InOrder
  <1>10. ASSUME NEW i \in 1..(m + n), NEW j \in 1..(m + n), i < j
         PROVE  Precedes(t[i], t[j], L)
    <2>1. CASE j > m
      <3>1. t[j] = w[j - m] /\ j - m \in 1..n
        BY <1>4, <1>7, <2>1
      <3>. QED  BY <1>6, <3>1 DEF Precedes
    <2>2. CASE ~(j > m)
      <3>1. /\ k + i \in 1..Len(r) /\ t[i] = r[k + i]
            /\ k + j \in 1..Len(r) /\ t[j] = r[k + j]
        BY <1>4, <1>7, <1>10, <2>2
      <3>2. k + i < k + j
        BY <1>4, <1>10
      <3>. QED  BY <3>1, <3>2 DEF InOrder
    <2>. QED  BY <2>1, <2>2
  <1>11. InOrder(t, L)
    BY <1>5, <1>10 DEF InOrder
  <1>12. Before(t, f, L \cup ToSet(f))
    BY <1>2, <1>6 DEF Before, Precedes
  <1>13. ASSUME NEW s, Before(s, r, L), Before(s, w, L)
         PROVE  Before(s, f, L) /\ Before(s, t, L)
    <2>1. Before(s, f, L)
      BY <1>2, <1>8, <1>13 DEF Before
    <2>2. ASSUME NEW i \in 1..Len(s), NEW j \in 1..(m + n)
          PROVE  Precedes(s[i], t[j], L)
      <3>1. CASE k + j \in 1..Len(r) /\ t[j] = r[k + j]
        BY <1>13, <3>1 DEF Before
      <3>2. CASE j - m \in 1..n /\ t[j] = w[j - m]
        BY <1>13, <3>2 DEF Before, n
      <3>. QED  BY <1>7, <3>1, <3>2
    <2>. QED  BY <1>5, <2>1, <2>2 DEF Before
  <1>. QED  BY <1>3, <1>9, <1>11, <1>12, <1>13

\* Only these steps change the queues the copies pass, and a job that ends
\* with copies on work_queue leaves them behind.
LEMMA StepsThatMove ==
    ASSUME [Next]_vars
    PROVE  \/ SendToRed
           \/ \E ev \in SUBSET {"R", "W"} : UdpPoll(ev)
           \/ UdpWriteEach
           \/ /\ UNCHANGED <<wReady, wWork, sent>> /\ left \subseteq left'
              /\ wJob' # "doing" =>
                    wJob # "doing" \/ wWork = <<>> \/ ToSet(wWork) \subseteq left'
  <1> USE DEF vars, tunVars, udpVars, udpWVars, kernelVars, history
  <1> DEFINE still == UNCHANGED <<wReady, wWork, wJob, sent, left>>
  <1>1. CASE UNCHANGED vars
    BY <1>1
  <1>2. CASE Kernel
    <2>1. ASSUME NEW h \in Headers, TunArrive(h)
          PROVE  still
      BY <2>1 DEF TunArrive
    <2>2. UdpArrive => still
      BY DEF UdpArrive
    <2>3. still
      BY <1>2, <2>1, <2>2 DEF Kernel
    <2>. QED  BY <2>3
  <1>3. CASE TunPoll \/ TunReadCallback \/ HandleLocalFrame \/ TunReadDone \/ TunReadCallbackEnd
    BY <1>3 DEF TunPoll, TunReadCallback, HandleLocalFrame, TunReadDone, TunReadCallbackEnd
  <1>4. CASE TunPool \/ NodeHandlers
    BY <1>4 DEF TunPool, TunReadEach, TunReadStop, NodeHandlers, NodeAdd, NodeRemove
  <1>5. CASE UdpReadCallback \/ UdpReadDone \/ UdpReadCallbackEnd
    <2>1. still
      BY <1>5 DEF UdpReadCallback, UdpReadDone, UdpReadCallbackEnd,
           Udp!ReadCallback, Udp!ReadDone, Udp!ReadCallbackEnd, Udp!writeVars
    <2>. QED  BY <2>1
  <1>6. CASE UdpWriteCallback
    <2>1. UNCHANGED <<wReady, wWork, sent, left>> /\ wJob # "doing"
      BY <1>6 DEF UdpWriteCallback, Udp!WriteCallback
    <2>. QED  BY <2>1
  <1>7. CASE UdpReadPool
    BY <1>7 DEF UdpReadPool, UdpReadEach, UdpReadStop, Udp!ReadEach, Udp!ReadStop,
         Udp!writeVars
  <1>8. CASE UdpWriteEmpty
    <2>1. UNCHANGED <<wReady, wWork, sent, left>> /\ wWork = <<>>
      BY <1>8 DEF UdpWriteEmpty, Udp!WriteStop
    <2>. QED  BY <2>1
  <1>9. CASE UdpWriteFail
    <2>1. UNCHANGED <<wReady, wWork, sent>> /\ left' = left \cup ToSet(wWork)
      BY <1>9 DEF UdpWriteFail, Udp!WriteStop
    <2>. QED  BY <2>1
  <1>. QED
    BY <1>1, <1>2, <1>3, <1>4, <1>5, <1>6, <1>7, <1>8, <1>9
       DEF Next, TunMain, UdpMain, UdpWritePool

\* The copy that send_to_red queues comes after all that were queued before.
LEMMA LaterCopy ==
    ASSUME Sound, OneOfEach, SendToRed
    PROVE  \A d \in Queued \cup ToSet(sent) :
              Precedes(d, [node |-> Head(iter), id |-> Head(tDone).id], left)
  <1> DEFINE c == [node |-> Head(iter), id |-> Head(tDone).id]
  <1>1. c \in Copy /\ iter # <<>> /\ tDone # <<>>
    <2>1. tDone # <<>>
      BY DEF SendToRed, Sound, InTransit
    <2>. QED  BY <2>1, SendMeans
  <1>2. c \in Unvisited
    <2>1. Head(iter) \in ToSet(iter)
      BY <1>1, TailElements DEF Sound, InTransit
    <2>. QED  BY <2>1, UnvisitedIs DEF CopiesFor
  <1>3. 1 \in 1..Len(tDone) /\ c.id = tDone[1].id
    <2>1. Len(tDone) \in Nat \ {0}
      BY <1>1, EmptySeq DEF Sound, InTransit
    <2>2. Head(tDone) = tDone[1]
      BY <1>1, TailElements DEF Sound, InTransit
    <2>. QED  BY <2>1, <2>2
  <1>4. ASSUME NEW d \in Queued \cup ToSet(sent)
        PROVE  d \in Copy /\ d # c /\ (d.id < c.id \/ d.id = c.id)
    <2>1. d \in owed /\ d # c
      BY <1>2 DEF OneOfEach, CopiesOnce
    <2>. QED  BY <1>3, <2>1 DEF OneOfEach, Handled
  <1>5. \A d, e \in Copy : d.node = e.node /\ d.id = e.id => d = e
    BY DEF Copy
  <1> HIDE DEF c
  <1>6. \A d \in Queued \cup ToSet(sent) : Precedes(d, c, left)
    BY <1>1, <1>4, <1>5 DEF Precedes
  <1>. QED  BY <1>6 DEF c

LEMMA OrderlyNext ==
    ASSUME Sound, OneOfEach, Orderly, [Next]_vars
    PROVE  Orderly'
  <1> USE DEF Orderly
  <1>0. wReady \in Seq(Copy) /\ wWork \in Seq(Copy) /\ sent \in Seq(Copy)
    BY UdpQueues DEF OneOfEach, CopiesOnce
  <1>1. CASE SendToRed
    <2> DEFINE c == [node |-> Head(iter), id |-> Head(tDone).id]
    <2>1. /\ c \in Copy /\ UNCHANGED <<sent, wWork>>
          /\ wReady' = wReady \/ wReady' = Append(wReady, c)
      BY <1>1, SendMeans
    <2>2. \A d \in Queued \cup ToSet(sent) : Precedes(d, c, left)
      BY <1>1, LaterCopy
    <2>3. UNCHANGED <<wJob, left>>
      BY <1>1 DEF SendToRed, Udp!Enqueue, udpVars, udpWVars
    <2> HIDE DEF c
    <2>4. /\ \A i \in 1..Len(wReady) : Precedes(wReady[i], c, left)
          /\ \A i \in 1..Len(wWork) : Precedes(wWork[i], c, left)
          /\ \A i \in 1..Len(sent) : Precedes(sent[i], c, left)
      BY <1>0, <2>2, ToSetFacts DEF Queued
    <2>5. ASSUME wReady' = Append(wReady, c)
          PROVE  /\ InOrder(wReady', left) /\ Before(sent, wReady', left)
                 /\ Before(wWork, wReady', left)
      BY <1>0, <2>1, <2>4, <2>5, AppendInOrder
    <2>. QED  BY <2>1, <2>3, <2>5
  <1>2. ASSUME NEW ev \in SUBSET {"R", "W"}, UdpPoll(ev)
        PROVE  Orderly'
    <2>1. sent' = sent
      BY <1>2, PollMeans
    <2>2. CASE "W" \notin ev
      <3>1. UNCHANGED <<wReady, wWork, wJob, left>>
        BY <1>2, <2>2 DEF UdpPoll, Udp!PollCb, Udp!SubmitWrite
      <3>. QED  BY <2>1, <3>1
    <2>3. CASE "W" \in ev
      <3>1. /\ "W" \in uArmed /\ wJob' = "doing"
            /\ wReady' = EmptyFrom(wReady, Batch)
            /\ wWork' = EmptyTo(wReady, wWork, Batch)
            /\ left' = left \cup ToSet(wReady')
        <4>1. "W" \in uArmed /\ left' = left \cup ToSet(wReady')
          BY <1>2, <2>3 DEF UdpPoll, Udp!PollCb
        <4>2. /\ wReady' = Udp!EmptyFrom(wReady, Batch)
              /\ wWork' = Udp!EmptyTo(wReady, wWork, Batch)
              /\ wJob' = "doing"
          BY <1>2, <2>3 DEF UdpPoll, Udp!PollCb, Udp!SubmitWrite
        <4>. QED  BY <4>1, <4>2 DEF Udp!EmptyFrom, Udp!EmptyTo, Udp!Moved, EmptyFrom,
                    EmptyTo, Moved
      <3>2. ToSet(wWork) \subseteq left
        BY <3>1 DEF Sound, Udp!BatonNotReused
      <3>3. Batch \in Int
        BY BufsAssumption
      <3>4. /\ InOrder(wReady', left) /\ InOrder(wWork', left)
            /\ Before(wWork', wReady', left')
            /\ Before(sent, wReady', left) /\ Before(sent, wWork', left)
        BY <1>0, <3>1, <3>2, <3>3, PollInOrder
      <3>5. left \subseteq left'
        BY <3>1
      <3>. QED  BY <2>1, <3>1, <3>4, <3>5, MoreLeft
    <2>. QED  BY <2>2, <2>3
  <1>3. CASE UdpWriteEach
    <2> DEFINE c == Head(wWork)
    <2>1. /\ wWork # <<>> /\ wJob' = "doing" /\ wReady' = wReady
          /\ wWork' = Tail(wWork) /\ sent' = Append(sent, c)
      BY <1>3, WriteMeans
    <2>2. left' = left
      BY <1>3 DEF UdpWriteEach
    <2>3. /\ c \in Copy /\ InOrder(wWork', left)
          /\ \A j \in 1..Len(wWork') : Precedes(c, wWork'[j], left)
          /\ Before(wWork', wReady, left) /\ \A j \in 1..Len(wReady) : Precedes(c, wReady[j], left)
          /\ Before(sent, wWork', left) /\ \A i \in 1..Len(sent) : Precedes(sent[i], c, left)
      BY <1>0, <2>1, TailInOrder, TailElements
    <2> HIDE DEF c
    <2>4. InOrder(sent', left) /\ Before(sent', wWork', left) /\ Before(sent', wReady, left)
      BY <1>0, <2>1, <2>3, AppendInOrder
    <2>. QED  BY <2>1, <2>2, <2>3, <2>4
  <1>4. CASE /\ UNCHANGED <<wReady, wWork, sent>> /\ left \subseteq left'
             /\ wJob' # "doing" =>
                    wJob # "doing" \/ wWork = <<>> \/ ToSet(wWork) \subseteq left'
    <2>1. wWork = <<>> => ToSet(wWork) = {}
      BY EmptyIsInjective
    <2>2. wJob' # "doing" => ToSet(wWork') \subseteq left'
      BY <1>4, <2>1
    <2>. QED  BY <1>4, <2>2, MoreLeft
  <1>. QED  BY <1>1, <1>2, <1>3, <1>4, StepsThatMove

LEMMA InitOrderly == Init => Orderly
  <1> SUFFICES ASSUME Init PROVE Orderly
    OBVIOUS
  <1>1. sent = <<>> /\ wReady = <<>> /\ wWork = <<>>
    BY DEF Init, Udp!Init
  <1>2. ToSet(wWork) = {}
    BY <1>1, EmptyIsInjective
  <1>. QED  BY <1>1, <1>2, EmptyInOrder DEF Orderly

LEMMA OrderlyHolds == Spec => []Orderly
  <1>1. Sound /\ OneOfEach /\ Orderly /\ [Next]_vars => Orderly'
    BY OrderlyNext
  <1>. QED  BY <1>1, InitOrderly, OneOfEachHolds, AlwaysSound, PTL DEF Spec

\* A node gets its frames in the order in which the kernel routed them, but for
\* the copies a failed batch (async_io.c:51) or a backlog over one job
\* (helper.c:101) left behind: for any numbers of buffers, any list that changes
\* on the way and any interleaving of the callbacks and threads.
THEOREM NodesSeeFramesInOrder == Spec => []OrderKept
  <1>1. Sound /\ OneOfEach /\ Orderly => OrderKept
    <2> SUFFICES ASSUME Sound, OneOfEach, Orderly,
                        NEW i \in 1..Len(sent), NEW j \in 1..Len(sent), i < j,
                        sent[i].node = sent[j].node, sent[i].id > sent[j].id
                 PROVE  sent[j] \in left
      BY DEF OrderKept
    <2>1. sent[i] \in Copy /\ sent[j] \in Copy
      BY ToSetFacts DEF OneOfEach, CopiesOnce
    <2>2. sent[i].id \in Int /\ sent[j].id \in Int
      BY <2>1, Fields
    <2>3. sent[i].id < sent[j].id \/ sent[j] \in left
      BY DEF Orderly, InOrder, Precedes
    <2>. QED  BY <2>2, <2>3
  <1>. QED  BY <1>1, OrderlyHolds, OneOfEachHolds, AlwaysSound, PTL

-----------------------------------------------------------------------------
(* What is copied (PayloadFits).                                           *)

\* Nodes are visited with a frame that passed the three tests of
\* handle_local_frame, which stays at the head of work_done meanwhile.
AtHand == iter # <<>> => handling /\ Forwards(Head(tDone).hdr)

LEMMA AtHandNext ==
    ASSUME Sound, AtHand, [Next]_vars
    PROVE  AtHand'
  <1> USE DEF AtHand
  <1>1. ASSUME NEW h \in Headers, TunArrive(h)
        PROVE  AtHand'
    BY <1>1 DEF TunArrive, tunVars, tunRVars, routeVars
  <1>2. CASE TunReadEach
    <2>1. PICK g \in TunFrame : tDone' = Append(tDone, g) /\ UNCHANGED <<handling, iter>>
      BY <1>2, ReadEachMeans
    <2>2. handling => Head(tDone') = Head(tDone)
      <3>1. tDone \in Seq(TunFrame) /\ (handling => tDone # <<>>)
        BY DEF Sound, InTransit
      <3>. QED  BY <2>1, <3>1
    <2>. QED  BY <2>1, <2>2
  <1>3. CASE HandleLocalFrame
    <2>1. iter = <<>> /\ handling' /\ tDone' = tDone
      BY <1>3, HandleMeans
    <2>2. Forwards(Head(tDone).hdr) \/ iter' = iter
      BY <1>3 DEF HandleLocalFrame
    <2>. QED  BY <2>1, <2>2
  <1>4. CASE SendToRed
    BY <1>4, SendMeans
  <1>5. CASE TunReadDone
    BY <1>5, DoneMeans
  <1>6. ASSUME NEW ev \in SUBSET {"R", "W"}, UdpPoll(ev)
        PROVE  AtHand'
    BY <1>6, PollMeans
  <1>7. CASE UdpWriteEach
    BY <1>7, WriteMeans
  <1>8. CASE NodeHandlers
    BY <1>8 DEF NodeHandlers, NodeAdd, NodeRemove, tunVars, tunRVars
  <1>9. CASE UNCHANGED <<tDone, tunIn, nextId, handling, iter, nodes, owed, wReady, wWork,
                         sent, dropped>>
    BY <1>9
  <1>. QED  BY <1>1, <1>2, <1>3, <1>4, <1>5, <1>6, <1>7, <1>8, <1>9, StepsThatCount

\* What send_to_red copies lies within the bytes that were read, is never of
\* negative length and fits its buffer, so the early return of send_to_red
\* (route.c:39) that loses a buffer is never taken: for any frames the kernel
\* routes to redd and any lengths their headers announce.
THEOREM PayloadAlwaysFits == Spec => []PayloadFits
  <1>1. Init => AtHand
    BY DEF Init, AtHand
  <1>2. Sound /\ AtHand /\ [Next]_vars => AtHand'
    BY AtHandNext
  <1>3. Sound /\ AtHand => PayloadFits
    <2> SUFFICES ASSUME Sound, AtHand, handling, iter # <<>>
                 PROVE  LET h == Head(tDone).hdr
                        IN  /\ PayloadStart(h) + DataLen(h) <= h.len
                            /\ DataLen(h) \in 0..WriteBufLen
      BY DEF PayloadFits
    <2> DEFINE h == Head(tDone).hdr
    <2>1. Head(tDone) \in TunFrame
      BY HeadTailOf DEF Sound, InTransit
    <2>2. DataLen(h) \in Int /\ DataLen(h) <= WriteBufLen /\ h.len \in Int /\ PayloadStart(h) \in Int
      BY <2>1, CutFits
    <2>3. DataLen(h) >= 0
      BY DEF AtHand, Forwards
    <2>4. DataLen(h) = h.len - PayloadStart(h)
      BY DEF DataLen
    <2> HIDE DEF h
    <2>5. PayloadStart(h) + DataLen(h) <= h.len
      BY <2>2, <2>4
    <2>6. DataLen(h) \in 0..WriteBufLen
      BY <2>2, <2>3, BufsAssumption
    <2>. QED  BY <2>5, <2>6 DEF h
  <1>. QED  BY <1>1, <1>2, <1>3, AlwaysSound, PTL DEF Spec
=============================================================================
