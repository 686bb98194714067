----------------------------- MODULE Forwarding -----------------------------
(***************************************************************************)
(* The data path of redd: the tun device the kernel routes 224.0.0.0/4 to  *)
(* (src/src/tun.c), the udp socket (src/src/udp.c), both of them an        *)
(* async_io_t, and the broadcast of src/src/route.c that the read callback *)
(* of the first runs to queue packets on the second.  The node list        *)
(* changes between callbacks, on the same main thread.                     *)
(*                                                                         *)
(* Tun and Udp are instances of AsyncIo.  Nothing is ever queued for       *)
(* writing on the tun device, so its write side never changes.  Poll       *)
(* errors are left to AsyncIo.                                             *)
(***************************************************************************)
EXTENDS Frame, SequencesExt

CONSTANTS
    Node,           \* hosts the list may hold
    InitNodes,      \* the list load_nodes left, a sequence
    BadNodes,       \* nodes sendto always fails for (see UdpWriteFail)
    Headers,        \* the frames the kernel may route to the tun device
    MaxFrames,      \* bound: frames that arrive
    MaxDatagrams,   \* bound: datagrams that arrive on the udp socket
    MaxFails,       \* bound: failures of read, recvfrom and sendto, before only
                    \* BadNodes fail
    NodeOps,        \* whether the list changes while the model runs
    TunRBufs, TunWBufs, UdpRBufs, UdpWBufs,  \* buffer counts (16, 16, 16, 256)
    Batch,          \* buffers one job is given (32)
    ReadBufLen,     \* read_buf_len of the tun device (2048)
    WriteBufLen     \* write_buf_len of the udp socket (2048)

\* add_red_node, which load_nodes calls too, never lists a node twice.
ASSUME NodesAssumption ==
    BadNodes \subseteq Node /\ InitNodes \in Seq(Node) /\ IsInjective(InitNodes)
ASSUME HeadersAssumption == Headers \subseteq FrameHeaders
ASSUME BoundsAssumption ==
    /\ MaxFrames \in Nat /\ MaxDatagrams \in Nat /\ MaxFails \in Nat
    /\ NodeOps \in BOOLEAN
ASSUME BufsAssumption ==
    /\ TunRBufs \in Nat /\ TunWBufs \in Nat /\ UdpRBufs \in Nat /\ UdpWBufs \in Nat
    /\ Batch \in Nat \ {0}
    /\ ReadBufLen \in Nat /\ WriteBufLen \in Nat
    \* tun.c:118 and udp.c:124 pass the same length
    /\ ReadBufLen <= WriteBufLen

VARIABLES
    tAvail, tWork, tDone, tWorking, tJob, tCallback,          \* tun read_io
    xAvail, xReady, xWork, xDone, xWorking, xJob,             \* tun write_io
    tArmed, tPollErr,                                         \* tun poll
    uAvail, uRead, uReadDone, uReading, uReadJob, uCallback,  \* udp read_io
    wAvail, wReady, wWork, wDone, wWorking, wJob,             \* udp write_io
    uArmed, uPollErr,                                         \* udp poll
    nodes,         \* server.nodes, from head to tail
    handling,      \* handle_local_frame has been called for the head of tDone
    iter,          \* the nodes do_broadcast's iterator has still to visit
    tunIn,         \* frames routed to the tun device and not read
    udpIn,         \* datagrams received by the socket and not read
    nextId,        \* number of the next frame that arrives
    fails,         \* failures so far, counted up to MaxFails
    owed,          \* history: the copies the frames handled so far call for
    dropped,       \* history: copies dropped because no buffer was available
    sent,          \* history: the copies sendto accepted, in order
    left           \* history: the copies a write job was submitted or ended without

tunRVars   == <<tAvail, tWork, tDone, tWorking, tJob, tCallback>>
tunWVars   == <<xAvail, xReady, xWork, xDone, xWorking, xJob>>
tunVars    == <<tunRVars, tunWVars, tArmed, tPollErr>>
udpRVars   == <<uAvail, uRead, uReadDone, uReading, uReadJob, uCallback>>
udpWVars   == <<wAvail, wReady, wWork, wDone, wWorking, wJob>>
udpVars    == <<udpRVars, udpWVars, uArmed, uPollErr>>
routeVars  == <<nodes, handling, iter>>
kernelVars == <<tunIn, udpIn, nextId, fails>>
history    == <<owed, dropped, sent, left>>
vars == <<tunVars, udpVars, routeVars, kernelVars, history>>

FrameId == 0..(MaxFrames - 1)
Copy == [node : Node, id : FrameId]

\* A frame in a tun read buffer, and what a udp read buffer holds.
TunFrame == [hdr : {Truncated(h, ReadBufLen) : h \in Headers}, id : FrameId]
Datagram == {"datagram"}

Tun == INSTANCE AsyncIo WITH
    Frame <- TunFrame, Packet <- {}, RBufs <- TunRBufs, WBufs <- TunWBufs,
    Batch <- Batch,
    rAvail <- tAvail, rWork <- tWork, rDone <- tDone, rWorking <- tWorking,
    rJob <- tJob, rCallback <- tCallback,
    wAvail <- xAvail, wReady <- xReady, wWork <- xWork, wDone <- xDone,
    wWorking <- xWorking, wJob <- xJob,
    armed <- tArmed, pollErr <- tPollErr

Udp == INSTANCE AsyncIo WITH
    Frame <- Datagram, Packet <- Copy, RBufs <- UdpRBufs, WBufs <- UdpWBufs,
    Batch <- Batch,
    rAvail <- uAvail, rWork <- uRead, rDone <- uReadDone, rWorking <- uReading,
    rJob <- uReadJob, rCallback <- uCallback,
    wAvail <- wAvail, wReady <- wReady, wWork <- wWork, wDone <- wDone,
    wWorking <- wWorking, wJob <- wJob,
    armed <- uArmed, pollErr <- uPollErr

\* init_routing: both devices are set up and their polls started.
Init ==
    /\ Tun!Init /\ Udp!Init
    /\ nodes = InitNodes /\ handling = FALSE /\ iter = <<>>
    /\ tunIn = <<>> /\ udpIn = 0 /\ nextId = 0 /\ fails = 0
    /\ owed = {} /\ dropped = {} /\ sent = <<>> /\ left = {}

\* The main thread is in uv_run, between callbacks.
MainFree == ~tCallback /\ ~uCallback

----------------------------------------------------------------------------
(* The kernel.                                                             *)

TunArrive(h) ==
    /\ nextId < MaxFrames
    /\ tunIn' = Append(tunIn, [hdr |-> h, id |-> nextId])
    /\ nextId' = nextId + 1
    /\ UNCHANGED <<tunVars, udpVars, routeVars, udpIn, fails, history>>

UdpArrive ==
    /\ udpIn < MaxDatagrams
    /\ udpIn' = udpIn + 1
    /\ UNCHANGED <<tunVars, udpVars, routeVars, tunIn, nextId, fails, history>>

----------------------------------------------------------------------------
(* The main thread: poll events and job callbacks of the tun device.       *)

TunPoll ==
    /\ MainFree
    /\ tunIn # <<>>
    /\ Tun!PollCb({"R"})
    /\ UNCHANGED <<udpVars, routeVars, kernelVars, history>>

TunReadCallback ==
    /\ MainFree
    /\ Tun!ReadCallback
    /\ UNCHANGED <<udpVars, routeVars, kernelVars, history>>

\* Variant with a bug, for the mutants of PROJECT.json: the list the server
\* started with is used.
HandleLocalFrameStaleList ==
    /\ tCallback /\ tDone # <<>> /\ ~handling
    /\ handling' = TRUE
    /\ LET f == Head(tDone) IN
       IF Forwards(f.hdr)
       THEN /\ iter' = InitNodes
            /\ owed' = owed \union {[node |-> n, id |-> f.id] : n \in ToSet(nodes)}
       ELSE UNCHANGED <<iter, owed>>
    /\ UNCHANGED <<nodes, tunVars, udpVars, kernelVars, dropped, sent, left>>

\* tun_read_done calls handle_local_frame, which broadcasts the payload or
\* ignores the frame.
HandleLocalFrame ==
    /\ tCallback /\ tDone # <<>> /\ ~handling
    /\ handling' = TRUE
    /\ LET f == Head(tDone) IN
       IF Forwards(f.hdr)
       THEN /\ iter' = nodes
            /\ owed' = owed \union {[node |-> n, id |-> f.id] : n \in ToSet(nodes)}
       ELSE UNCHANGED <<iter, owed>>
    /\ UNCHANGED <<nodes, tunVars, udpVars, kernelVars, dropped, sent, left>>

\* Variant with a bug: the payload is compared with the wrong length.
SendToRedWrongLength ==
    /\ handling /\ iter # <<>>
    /\ iter' = Tail(iter)
    /\ LET f == Head(tDone)
           c == [node |-> Head(iter), id |-> f.id]
       IN \/ /\ wAvail = 0
             /\ dropped' = dropped \union {c}
             /\ UNCHANGED udpVars
          \/ /\ wAvail > 0 /\ f.hdr.len > DataLen(f.hdr)
             /\ wAvail' = wAvail - 1
             /\ dropped' = dropped \union {c}
             /\ UNCHANGED <<udpRVars, wReady, wWork, wDone, wWorking, wJob, uArmed, uPollErr>>
    /\ UNCHANGED <<nodes, handling, tunVars, kernelVars, owed, sent, left>>

\* send_to_red for the next node of the list.  Without a buffer the copy is
\* dropped; a payload longer than the buffer is dropped too, and the buffer
\* that was taken is not put back.
SendToRed ==
    /\ handling /\ iter # <<>>
    /\ iter' = Tail(iter)
    /\ LET f == Head(tDone)
           c == [node |-> Head(iter), id |-> f.id]
       IN \/ /\ wAvail = 0
             /\ dropped' = dropped \union {c}
             /\ UNCHANGED udpVars
          \/ /\ wAvail > 0 /\ DataLen(f.hdr) > WriteBufLen
             /\ wAvail' = wAvail - 1
             /\ dropped' = dropped \union {c}
             /\ UNCHANGED <<udpRVars, wReady, wWork, wDone, wWorking, wJob, uArmed, uPollErr>>
          \/ /\ DataLen(f.hdr) <= WriteBufLen
             /\ Udp!Enqueue(c)
             /\ UNCHANGED dropped
    /\ UNCHANGED <<nodes, handling, tunVars, kernelVars, owed, sent, left>>

\* tun_read_done has returned: async_io_callback recycles the buffer.
TunReadDone ==
    /\ handling /\ iter = <<>>
    /\ Tun!ReadDone
    /\ handling' = FALSE
    /\ UNCHANGED <<nodes, iter, udpVars, kernelVars, history>>

TunReadCallbackEnd ==
    /\ Tun!ReadCallbackEnd
    /\ UNCHANGED <<udpVars, routeVars, kernelVars, history>>

----------------------------------------------------------------------------
(* The main thread: the udp socket.                                        *)

\* The events of the socket are collected before the callbacks of one turn of
\* the loop run, so a callback may see fewer events than now hold.  The
\* socket can always be written to: sendto fails without that.
UdpPoll(ev) ==
    /\ MainFree
    /\ "R" \in ev => udpIn > 0
    /\ Udp!PollCb(ev)
    /\ left' = IF "W" \in ev THEN left \union ToSet(wReady') ELSE left
    /\ UNCHANGED <<tunVars, routeVars, kernelVars, owed, dropped, sent>>

UdpReadCallback ==
    /\ MainFree
    /\ Udp!ReadCallback
    /\ UNCHANGED <<tunVars, routeVars, kernelVars, history>>

\* udp_read_done does nothing: what nodes send is thrown away.
UdpReadDone ==
    /\ Udp!ReadDone
    /\ UNCHANGED <<tunVars, routeVars, kernelVars, history>>

UdpReadCallbackEnd ==
    /\ Udp!ReadCallbackEnd
    /\ UNCHANGED <<tunVars, routeVars, kernelVars, history>>

UdpWriteCallback ==
    /\ MainFree
    /\ Udp!WriteCallback
    /\ UNCHANGED <<tunVars, routeVars, kernelVars, history>>

----------------------------------------------------------------------------
(* The main thread: the handlers of node.add and node.remove.              *)

NodeAdd(n) ==
    /\ NodeOps /\ MainFree
    /\ n \notin ToSet(nodes)
    /\ nodes' = Append(nodes, n)
    /\ UNCHANGED <<handling, iter, tunVars, udpVars, kernelVars, history>>

NodeRemove(n) ==
    /\ NodeOps /\ MainFree
    /\ \E i \in DOMAIN nodes : nodes[i] = n /\ nodes' = RemoveAt(nodes, i)
    /\ UNCHANGED <<handling, iter, tunVars, udpVars, kernelVars, history>>

----------------------------------------------------------------------------
(* The pool threads.                                                       *)

\* A system call fails that could have succeeded.
CallFails == fails < MaxFails /\ fails' = fails + 1

\* tun_read_each: read() of one frame.
TunReadEach ==
    /\ tunIn # <<>>
    /\ LET f == Head(tunIn) IN
       Tun!ReadEach([f EXCEPT !.hdr = Truncated(@, ReadBufLen)])
    /\ tunIn' = Tail(tunIn)
    /\ UNCHANGED <<udpVars, routeVars, udpIn, nextId, fails, history>>

\* The job is over: no buffer is left, or read() fails, for want of a frame
\* or though one waits; tun_read_each makes no difference.
TunReadStop ==
    /\ Tun!ReadStop
    /\ \/ (tWork = 0 \/ tunIn = <<>>) /\ UNCHANGED fails
       \/ tWork > 0 /\ tunIn # <<>> /\ CallFails
    /\ UNCHANGED <<udpVars, routeVars, tunIn, udpIn, nextId, history>>

\* udp_read_each: recvfrom() of one datagram.
UdpReadEach ==
    /\ udpIn > 0
    /\ Udp!ReadEach("datagram")
    /\ udpIn' = udpIn - 1
    /\ UNCHANGED <<tunVars, routeVars, tunIn, nextId, fails, history>>

\* The same for recvfrom().
UdpReadStop ==
    /\ Udp!ReadStop
    /\ \/ (uRead = 0 \/ udpIn = 0) /\ UNCHANGED fails
       \/ uRead > 0 /\ udpIn > 0 /\ CallFails
    /\ UNCHANGED <<tunVars, routeVars, tunIn, udpIn, nextId, history>>

\* udp_write_each: sendto() accepts the packet at the head.
UdpWriteEach ==
    /\ wWork # <<>> /\ Head(wWork).node \notin BadNodes
    /\ Udp!WriteEach
    /\ sent' = Append(sent, Head(wWork))
    /\ UNCHANGED <<tunVars, routeVars, kernelVars, owed, dropped, left>>

\* sendto() fails: the network is down or has no buffer for a moment, or the
\* address can never be sent to.  The latter is what uv_ip4_addr makes of a
\* host name in add_red_node: 255.255.255.255.
UdpWriteFail ==
    /\ wWork # <<>>
    /\ \/ /\ Head(wWork).node \in BadNodes
          /\ fails' = IF fails < MaxFails THEN fails + 1 ELSE fails
       \/ Head(wWork).node \notin BadNodes /\ CallFails
    /\ Udp!WriteStop
    /\ left' = left \union ToSet(wWork)
    /\ UNCHANGED <<tunVars, routeVars, tunIn, udpIn, nextId, owed, dropped, sent>>

UdpWriteEmpty ==
    /\ wWork = <<>>
    /\ Udp!WriteStop
    /\ UNCHANGED <<tunVars, routeVars, kernelVars, history>>

----------------------------------------------------------------------------
Kernel == (\E h \in Headers : TunArrive(h)) \/ UdpArrive

TunMain == TunPoll \/ TunReadCallback \/ HandleLocalFrame \/ SendToRed
             \/ TunReadDone \/ TunReadCallbackEnd

UdpMain == (\E ev \in SUBSET {"R", "W"} : UdpPoll(ev))
             \/ UdpReadCallback \/ UdpReadDone \/ UdpReadCallbackEnd
             \/ UdpWriteCallback

NodeHandlers == \E n \in Node : NodeAdd(n) \/ NodeRemove(n)

TunPool == TunReadEach \/ TunReadStop
UdpReadPool == UdpReadEach \/ UdpReadStop
UdpWritePool == UdpWriteEach \/ UdpWriteFail \/ UdpWriteEmpty

Next == Kernel \/ TunMain \/ UdpMain \/ NodeHandlers
          \/ TunPool \/ UdpReadPool \/ UdpWritePool

Spec == Init /\ [][Next]_vars

\* The loop calls every callback that stays due; a direction that is armed
\* and ready again and again is reported (a level-triggered epoll); and the
\* four jobs the two devices can have out fit libuv's four pool threads, so
\* every submitted job runs.  Arrivals, node handlers and failures are not
\* made to happen.
Fairness ==
    /\ SF_vars(TunPoll)
    /\ SF_vars(\E ev \in {{"R"}, {"R", "W"}} : UdpPoll(ev))
    /\ SF_vars(\E ev \in {{"W"}, {"R", "W"}} : UdpPoll(ev))
    /\ SF_vars(TunReadCallback)
    /\ WF_vars(HandleLocalFrame \/ SendToRed \/ TunReadDone \/ TunReadCallbackEnd)
    /\ SF_vars(UdpReadCallback)
    /\ WF_vars(UdpReadDone \/ UdpReadCallbackEnd)
    /\ SF_vars(UdpWriteCallback)
    /\ WF_vars(TunPool) /\ WF_vars(UdpReadPool) /\ WF_vars(UdpWritePool)

FairSpec == Spec /\ Fairness

----------------------------------------------------------------------------
(* Properties.                                                             *)

\* The copies the broadcast that is under way has still to queue.
Unvisited ==
    IF iter = <<>> THEN {} ELSE {[node |-> n, id |-> Head(tDone).id] : n \in ToSet(iter)}

Queued == ToSet(wReady) \union ToSet(wWork)

\* Every copy of every frame is accounted for, once: it is still to be queued
\* by send_to_red (route.c:34), waiting, sent, or was dropped for want of a
\* buffer.  A copy is never sent twice and a stale or foreign one is never
\* sent, whatever fails and however the threads interleave.
Accounting ==
    /\ owed = Unvisited \union Queued \union ToSet(sent) \union dropped
    /\ Cardinality(owed) = Cardinality(Unvisited) + Len(wReady) + Len(wWork)
                             + Len(sent) + Cardinality(dropped)

\* A node gets its frames in the order they arrived, but for the copies a write
\* job left behind: a newer copy goes out before an older one only when the
\* older one was in a batch that failed (async_io.c:51 keeps the rest, and
\* async_io_poll_cb puts what is ready in front of it) or in a backlog over
\* Batch (helper.c:101 takes the newest).
OrderKept ==
    \A i, j \in 1..Len(sent) :
        (i < j /\ sent[i].node = sent[j].node /\ sent[i].id > sent[j].id)
            => sent[j] \in left

\* What send_to_red copies (route.c:39-45) lies within the bytes that were read
\* into the frame's buffer, is not of negative length and fits the buffer it
\* is copied to: the early return that loses that buffer is never taken.
PayloadFits ==
    handling /\ iter # <<>> =>
        LET h == Head(tDone).hdr IN
        /\ PayloadStart(h) + DataLen(h) <= h.len
        /\ DataLen(h) \in 0..WriteBufLen

\* The udp socket behaves as AsyncIo says, though its packets are queued from
\* the callbacks of the other device: what is proved of AsyncIo holds of it.
UdpIsAsyncIo == Udp!Spec

\* The data path implements Multicast: a copy is outstanding from the moment
\* its frame is handled until it is sent or dropped.
Promise == INSTANCE Multicast WITH
    members <- ToSet(nodes),
    taken <- {c.id : c \in owed},
    outstanding <- owed \ (ToSet(sent) \union dropped),
    sent <- ToSet(sent)

MulticastPromise == Promise!Spec

\* "Redd listens for multicast packets and sends a copy of it out to each node
\* in a list" (README.md:5): a copy that is owed is sent, unless it found no
\* buffer.  It fails when a sendto fails and no other frame follows.
Delivered ==
    \A c \in Copy : (c \in owed) ~> (c \in ToSet(sent) \union dropped)

\* As long as no sendto fails, every copy that is owed is sent or was dropped
\* for want of a buffer (route.c:37), and a write pool that has run empty gets
\* a buffer back.
NothingFails == [](fails = 0)
DeliveredUnlessFailed == NothingFails => Delivered
PoolRefillsUnlessFailed == NothingFails => ((wAvail = 0) ~> (wAvail > 0))

\* A failed sendto leaves its batch stranded, but not for ever: once the calls
\* have stopped failing, the next packet that is queued makes async_io_poll_start
\* arm the socket again, and the job that follows sends what was stranded too.
\* So does a packet that waited while the batch failed.
Recovers ==
    \A c \in Copy :
        (fails = MaxFails /\ c \in Queued /\ wReady # <<>>) ~> (c \in ToSet(sent))

\* The tun device is read until it is empty, again and again, even when the
\* udp side is stuck: full queues there never hold back the main thread or the
\* tun job.
TunDrained == (tunIn # <<>>) ~> (tunIn = <<>>)
=============================================================================
