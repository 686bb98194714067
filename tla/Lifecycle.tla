------------------------------ MODULE Lifecycle ------------------------------
(***************************************************************************)
(* The life of the process: main and signal_handler of src/src/redd.c,     *)
(* listen_to_port and shutdown_api of src/src/api.c, init_routing and      *)
(* shutdown_routing, and async_io_shutdown of the udp device (AsyncIo)     *)
(* while jobs of the pool may be out.                                      *)
(*                                                                         *)
(* uv_run works in turns.  A turn collects what is ready and calls the     *)
(* callbacks in any order; uv_stop lets the turn it is called in come to   *)
(* its end, closing callbacks included.                                    *)
(*                                                                         *)
(* What C gives no meaning to (freed memory, a NULL list, a queue that was *)
(* never initialised) ends in pc = "undefined" where the build may go      *)
(* wrong, and goes on as well where it may not.                            *)
(*                                                                         *)
(* Left out: the tun device's own queues, which the same code takes down   *)
(* just before; the vxlan link (Vxlan); the lists' contents (Registry).    *)
(***************************************************************************)
EXTENDS AsyncIo, Functions

CONSTANTS Binds,       \* the address families of the bind directive: sequences
          MaxSignals   \* bound on the signals sent to the process

ASSUME BindsAssumption == \A b \in Binds : b \in Seq(STRING)

VARIABLES
    pc,         \* "server", "tun", "udp", "listen" while starting, "poll" or
                \* "turn" in uv_run, "ended" behind it, "exited" by exit(1),
                \* "killed", "undefined"
    routing,    \* server.routing_enabled
    bind,       \* server.bindaddr, <<>> for the wildcard
    started,    \* how many uv_signal_start of init_server are done
    watched,    \* the signal the handle watches for
    signals,    \* signals sent so far
    pending,    \* watched signals not yet handled
    intSent,    \* history: the first signal was a SIGINT after init_server
    tun,        \* the tun device: "none", "up", "failed", "down"
    udpOpen,    \* the udp socket is open
    lists,      \* server.nodes and server.ips are not NULL
    tunName,    \* server.tun_name is not NULL
    tcp,        \* the uv_tcp_t of listen_to_port in the order they were made:
                \* "listening", "closing", "closed" by uv_close and freed, or
                \* "dropped": freed while the loop still has them
    ipfd,       \* server.ipfd: indices into tcp
    turn,       \* what this turn of the loop still has to call
    client,     \* a request that has arrived: "none", "ping", "list", "status"
    handler,    \* where signal_handler is: "none", "tun", "poll", "read",
                \* "write", "clean", "done"
    quiet,      \* history: no job and no request was there when it was called
    rHold,      \* the buffer async_io_do has at hand: "none", "held", "freed"
    wHold,
    freed       \* buffers of the udp device that were freed

confVars   == <<routing, bind>>
signalVars == <<started, watched, signals, pending, intSent>>
listenVars == <<tcp, ipfd>>
serverVars == <<tun, udpOpen, lists, tunName>>
loopVars   == <<turn, client>>
stopVars   == <<handler, quiet, freed>>
holdVars   == <<rHold, wHold>>
lifeVars   == <<pc, confVars, signalVars, listenVars, serverVars, loopVars, stopVars,
                holdVars, vars>>

Over == {"ended", "exited", "killed", "undefined"}

\* Nothing is set up; init_server_config has made the lists.
LifeInit ==
    /\ pc = "server" /\ routing \in BOOLEAN /\ bind \in Binds
    /\ started = 0 /\ watched = "none" /\ signals = 0 /\ pending = 0 /\ intSent = FALSE
    /\ tun = "none" /\ udpOpen = FALSE /\ lists = TRUE /\ tunName = FALSE
    /\ tcp = <<>> /\ ipfd = <<>>
    /\ turn = {} /\ client = "none"
    /\ handler = "none" /\ quiet = FALSE /\ freed = 0
    /\ rHold = "none" /\ wHold = "none"
    /\ rAvail = 0 /\ rWork = 0 /\ rDone = <<>> /\ rWorking = FALSE /\ rJob = "idle"
    /\ rCallback = FALSE
    /\ wAvail = 0 /\ wReady = <<>> /\ wWork = <<>> /\ wDone = 0 /\ wWorking = FALSE
    /\ wJob = "idle"
    /\ armed = {} /\ pollErr = FALSE

----------------------------------------------------------------------------
(* Starting.                                                               *)

\* Variant with a bug, for the mutants of PROJECT.json: SIGINT first.
SignalOrderIntFirst == <<"INT", "USR1", "TERM">>

SignalOrder == <<"USR1", "TERM", "INT">>

\* uv_signal_start on a handle that is started makes it watch for the new
\* signal instead.
SignalStart ==
    /\ pc = "server"
    /\ started' = started + 1
    /\ watched' = SignalOrder[started']
    /\ pc' = IF started' < Len(SignalOrder) THEN "server" ELSE IF routing THEN "tun" ELSE "listen"
    /\ UNCHANGED <<confVars, signals, pending, intSent, listenVars, serverVars, loopVars,
                   stopVars, holdVars, vars>>

\* init_tun; its result is not looked at.  It names the device it opened.
InitTun ==
    /\ pc = "tun"
    /\ tun' \in {"up", "failed"}
    /\ tunName' = (tun' = "up")
    /\ pc' = "udp"
    /\ UNCHANGED <<confVars, signalVars, listenVars, udpOpen, lists, loopVars, stopVars,
                   holdVars, vars>>

\* init_udp: bind succeeds, or the process exits.
InitUdp ==
    /\ pc = "udp"
    /\ \/ /\ pc' = "listen" /\ udpOpen' = TRUE
          /\ rAvail' = RBufs /\ wAvail' = WBufs
          /\ PollStart(rWorking, wWorking, wReady)
       \/ /\ pc' = "exited"
          /\ UNCHANGED <<udpOpen, rAvail, wAvail, pollVars>>
    /\ UNCHANGED <<confVars, signalVars, listenVars, tun, lists, tunName, loopVars, stopVars,
                   holdVars, rWork, rDone, rWorking, rJob, rCallback, wReady, wWork, wDone, wWorking, wJob>>

\* The next uv_tcp_t is made and listens, or is left in state fallen.
Listen(ok, fallen) ==
    /\ tcp' = Append(tcp, IF ok THEN "listening" ELSE fallen)
    /\ ipfd' = IF ok THEN Append(ipfd, Len(tcp')) ELSE ipfd
    /\ UNCHANGED <<confVars, signalVars, serverVars, loopVars, stopVars, holdVars, vars>>

ListenAny6 ==
    /\ pc = "listen" /\ bind = <<>> /\ tcp = <<>>
    /\ \E ok \in BOOLEAN : Listen(ok, "dropped")
    /\ UNCHANGED pc

\* Variant with a bug: freed as in the other branches.
ListenAny4Dropped ==
    /\ pc = "listen" /\ bind = <<>> /\ tcp # <<>>
    /\ \E ok \in BOOLEAN : Listen(ok, "dropped")
    /\ pc' = IF ipfd' # <<>> THEN "poll" ELSE "exited"

\* The only failure that goes through uv_close.
ListenAny4 ==
    /\ pc = "listen" /\ bind = <<>> /\ tcp # <<>>
    /\ \E ok \in BOOLEAN : Listen(ok, "closing")
    /\ pc' = IF ipfd' # <<>> THEN "poll" ELSE "exited"

\* An address of the bind directive, of either family.
ListenAddress ==
    /\ pc = "listen" /\ bind # <<>>
    /\ \E ok \in BOOLEAN :
          /\ Listen(ok, "dropped")
          /\ pc' = IF ~ok THEN "exited" ELSE IF Len(tcp') = Len(bind) THEN "poll" ELSE "listen"

\* uv_tcp_init links the new handle behind the last one the loop has.
Dangling == \E i \in DOMAIN tcp : tcp[i] = "dropped"

\* A handle is made, by listen_to_port or by on_connect, behind a freed one.
UseDangling ==
    /\ Dangling
    /\ pc = "listen" \/ (pc = "turn" /\ "client" \in turn /\ handler \in {"none", "done"})
    /\ pc' = "undefined"
    /\ UNCHANGED <<confVars, signalVars, listenVars, serverVars, loopVars, stopVars, holdVars,
                   vars>>

----------------------------------------------------------------------------
(* The loop.                                                               *)

\* What uv__io_poll reports: all that is there, a frame of the tun device if
\* one came, and events of the udp socket that is polled.
NewTurn ==
    /\ pc = "poll"
    /\ \E some \in SUBSET ({"frame" : x \in {tun} \cap {"up"}} \cup {"io" : x \in armed}) :
          turn' = some \cup (IF pending > 0 THEN {"signal"} ELSE {})
                       \cup (IF "finished" \in {rJob, wJob} THEN {"work"} ELSE {})
                       \cup (IF client # "none" THEN {"client"} ELSE {})
    /\ turn' # {}
    /\ pc' = "turn"
    /\ UNCHANGED <<confVars, signalVars, listenVars, serverVars, client, stopVars, holdVars, vars>>

\* The main thread is between two callbacks of a turn.
Between == pc = "turn" /\ ~rCallback /\ handler \in {"none", "done"}

\* async_io_poll_cb of udp, unless the poll has been stopped in this turn.
OnIo ==
    /\ Between /\ "io" \in turn
    /\ turn' = turn \ {"io"}
    /\ \/ \E ev \in SUBSET {"R", "W"} : PollCb(ev)
       \/ PollCbError
       \/ armed = {} /\ UNCHANGED vars
    /\ UNCHANGED <<pc, confVars, signalVars, listenVars, serverVars, client, stopVars, holdVars>>

\* uv__work_done: the callbacks of the jobs that have finished by now.
OnWork ==
    /\ pc = "turn" /\ handler \in {"none", "done"} /\ "work" \in turn
    /\ \/ UNCHANGED turn /\ (ReadCallback \/ ReadDone \/ ReadCallbackEnd \/ WriteCallback)
       \/ /\ ~rCallback /\ "finished" \notin {rJob, wJob}
          /\ turn' = turn \ {"work"} /\ UNCHANGED vars
    /\ UNCHANGED <<pc, confVars, signalVars, listenVars, serverVars, client, stopVars, holdVars>>

\* The callback of a tun read job: a copy of the frame is queued if there is
\* a node and a buffer.  After shutdown_tun its work_done is empty.
OnFrame ==
    /\ Between /\ "frame" \in turn
    /\ turn' = turn \ {"frame"}
    /\ \/ tun = "up" /\ \E p \in Packet : Enqueue(p)
       \/ UNCHANGED vars
    /\ UNCHANGED <<pc, confVars, signalVars, listenVars, serverVars, client, stopVars, holdVars>>

\* on_read of a client: a ping, a request that uses a list, or a status
\* request, which takes the length of tun_name as well.
OnClient ==
    /\ Between /\ "client" \in turn
    /\ turn' = turn \ {"client"}
    /\ IF (client # "ping" /\ ~lists) \/ (client = "status" /\ ~tunName)
       THEN pc' = "undefined" /\ UNCHANGED client
       ELSE client' = "none" /\ UNCHANGED pc
    /\ UNCHANGED <<confVars, signalVars, listenVars, serverVars, stopVars, holdVars, vars>>

\* uv__run_closing_handles, and uv_run's look at stop_flag.
EndTurn ==
    /\ Between /\ turn = {}
    /\ tcp' = [i \in DOMAIN tcp |-> IF tcp[i] = "closing" THEN "closed" ELSE tcp[i]]
    /\ pc' = IF handler = "done" THEN "ended" ELSE "poll"
    /\ UNCHANGED <<confVars, signalVars, ipfd, serverVars, loopVars, stopVars, holdVars, vars>>

----------------------------------------------------------------------------
(* signal_handler.                                                         *)

\* A signal the handle no longer watches for is not passed on to it.
OnSignalIgnored ==
    /\ Between /\ "signal" \in turn
    /\ pending = 0 \/ watched = "none"
    /\ pending' = 0
    /\ turn' = turn \ {"signal"}
    /\ UNCHANGED <<pc, confVars, started, watched, signals, intSent, listenVars, serverVars,
                   client, stopVars, holdVars, vars>>

\* close_ports: uv_close of what listen_to_port has counted.
ClosePorts ==
    tcp' = [i \in DOMAIN tcp |-> IF i \in Range(ipfd) THEN "closing" ELSE tcp[i]]

\* Variant with a bug: uv_signal_stop is not called.
OnSignalKeepsHandle ==
    /\ Between /\ "signal" \in turn
    /\ pending > 0 /\ watched # "none"
    /\ pending' = pending - 1
    /\ IF handler = "none"
       THEN /\ ClosePorts
            /\ handler' = IF routing THEN "tun" ELSE "clean"
            /\ UNCHANGED pc
       ELSE pc' = "undefined" /\ UNCHANGED <<tcp, handler>>
    /\ quiet' = ("doing" \notin {rJob, wJob} /\ ~("client" \in turn /\ client # "ping"))
    /\ UNCHANGED <<confVars, started, watched, signals, intSent, ipfd, serverVars, loopVars, freed,
                   holdVars, vars>>

\* uv_signal_stop, shutdown_api.  In a second call the ports would be NULL.
OnSignal ==
    /\ Between /\ "signal" \in turn
    /\ pending > 0 /\ watched # "none"
    /\ pending' = pending - 1
    /\ watched' = "none"
    /\ IF handler = "none"
       THEN /\ ClosePorts
            /\ handler' = IF routing THEN "tun" ELSE "clean"
            /\ UNCHANGED pc
       ELSE pc' = "undefined" /\ UNCHANGED <<tcp, handler>>
    /\ quiet' = ("doing" \notin {rJob, wJob} /\ ~("client" \in turn /\ client # "ping"))
    /\ UNCHANGED <<confVars, started, signals, intSent, ipfd, serverVars, loopVars, freed,
                   holdVars, vars>>

\* shutdown_tun walks queues init_tun may not have initialised.
ShutdownTun ==
    /\ pc = "turn" /\ handler = "tun"
    /\ tun' = "down"
    /\ IF tun = "up" THEN handler' = "poll" /\ UNCHANGED pc
       ELSE pc' = "undefined" /\ UNCHANGED handler
    /\ UNCHANGED <<confVars, signalVars, listenVars, udpOpen, lists, tunName, loopVars, quiet,
                   freed, holdVars, vars>>

\* async_io_poll_stop of udp, and the buffers only the main thread uses.
StopPoll ==
    /\ pc = "turn" /\ handler = "poll"
    /\ armed' = {}
    /\ handler' = "read"
    /\ freed' = freed + rAvail
    /\ rAvail' = 0
    /\ UNCHANGED <<pc, confVars, signalVars, listenVars, serverVars, loopVars, quiet, holdVars,
                   rWork, rDone, rWorking, rJob, rCallback, writeVars, pollErr>>

\* async_io_queue_shutdown frees the last of work_queue, then the last of
\* work_done, until both are empty.  async_io_do has the first of work_queue.
FreeRead ==
    /\ pc = "turn" /\ handler = "read"
    /\ IF rWork > 0
       THEN /\ rWork' = rWork - 1 /\ freed' = freed + 1
            /\ rHold' = IF rWork = 1 /\ rHold = "held" THEN "freed" ELSE rHold
            /\ UNCHANGED <<rDone, handler, wAvail, wReady>>
       ELSE /\ freed' = freed + Len(rDone) + wAvail + Len(wReady)
            /\ rDone' = <<>> /\ wAvail' = 0 /\ wReady' = <<>>
            /\ handler' = "write"
            /\ UNCHANGED <<rWork, rHold>>
    /\ UNCHANGED <<pc, confVars, signalVars, listenVars, serverVars, loopVars, quiet, wHold,
                   rAvail, rWorking, rJob, rCallback, wWork, wDone, wWorking, wJob, pollVars>>

\* Variant with a bug: work_queue is forgotten.
FreeWriteKeepsWork ==
    /\ pc = "turn" /\ handler = "write"
    /\ freed' = freed + wDone
    /\ wDone' = 0
    /\ udpOpen' = FALSE
    /\ handler' = "clean"
    /\ UNCHANGED <<pc, confVars, signalVars, listenVars, tun, lists, tunName, loopVars, quiet,
                   holdVars, readVars, wAvail, wReady, wWork, wWorking, wJob, pollVars>>

\* The same for write_io, then the socket is closed.
FreeWrite ==
    /\ pc = "turn" /\ handler = "write"
    /\ IF wWork # <<>>
       THEN /\ wWork' = SubSeq(wWork, 1, Len(wWork) - 1) /\ freed' = freed + 1
            /\ wHold' = IF Len(wWork) = 1 /\ wHold = "held" THEN "freed" ELSE wHold
            /\ UNCHANGED <<wDone, handler, udpOpen>>
       ELSE /\ freed' = freed + wDone
            /\ wDone' = 0
            /\ udpOpen' = FALSE
            /\ handler' = "clean"
            /\ UNCHANGED <<wWork, wHold>>
    /\ UNCHANGED <<pc, confVars, signalVars, listenVars, tun, lists, tunName, loopVars, quiet,
                   rHold, readVars, wAvail, wReady, wWorking, wJob, pollVars>>

\* clean_server_config.
CleanServerConfig == lists' = FALSE /\ tunName' = FALSE

\* Variant with a bug: uv_stop is not called.
StopLoopForgotten ==
    /\ pc = "turn" /\ handler = "clean"
    /\ CleanServerConfig
    /\ handler' = "none"
    /\ UNCHANGED <<pc, confVars, signalVars, listenVars, tun, udpOpen, loopVars, quiet, freed,
                   holdVars, vars>>

\* The rest of signal_handler: clean_server_config, uv_stop.
StopLoop ==
    /\ pc = "turn" /\ handler = "clean"
    /\ CleanServerConfig
    /\ handler' = "done"
    /\ UNCHANGED <<pc, confVars, signalVars, listenVars, tun, udpOpen, loopVars, quiet, freed,
                   holdVars, vars>>

----------------------------------------------------------------------------
(* The thread pool: async_io_do with its _each in two steps.               *)

TakeHead ==
    /\ \/ /\ rJob = "doing" /\ rHold = "none" /\ rWork > 0
          /\ rHold' = "held" /\ UNCHANGED wHold
       \/ /\ wJob = "doing" /\ wHold = "none" /\ wWork # <<>>
          /\ wHold' = "held" /\ UNCHANGED rHold
    /\ UNCHANGED vars

DoRead ==
    /\ \/ rHold = "held" /\ \E f \in Frame : ReadEach(f)
       \/ rHold # "none" /\ ReadStop
       \/ rHold = "none" /\ rWork = 0 /\ ReadStop
    /\ rHold' = "none" /\ UNCHANGED wHold

DoWrite ==
    /\ \/ wHold = "held" /\ WriteEach
       \/ wHold # "none" /\ WriteStop
       \/ wHold = "none" /\ wWork = <<>> /\ WriteStop
    /\ wHold' = "none" /\ UNCHANGED rHold

Pool ==
    /\ pc \notin Over \ {"ended"}
    /\ TakeHead \/ DoRead \/ DoWrite
    /\ UNCHANGED <<pc, confVars, signalVars, listenVars, serverVars, loopVars, stopVars>>

\* _each has used a buffer that was freed under it, or async_io_do links it.
UseFreed ==
    /\ pc \notin Over \ {"ended"}
    /\ "freed" \in {rHold, wHold}
    /\ pc' = "undefined"
    /\ UNCHANGED <<confVars, signalVars, listenVars, serverVars, loopVars, stopVars, holdVars,
                   vars>>

----------------------------------------------------------------------------
(* The outside.                                                            *)

\* A request arrives.
Request ==
    /\ pc \in {"poll", "turn"} /\ client = "none"
    /\ client' \in {"ping", "list", "status"}
    /\ UNCHANGED <<pc, confVars, signalVars, listenVars, serverVars, turn, stopVars, holdVars,
                   vars>>

\* A signal that is not watched for has its default action.
Signal ==
    /\ pc \notin Over /\ signals < MaxSignals
    /\ signals' = signals + 1
    /\ \E s \in {"USR1", "TERM", "INT"} :
          /\ IF s = watched THEN pending' = pending + 1 /\ UNCHANGED pc
             ELSE pc' = "killed" /\ UNCHANGED pending
          /\ intSent' = (intSent \/ (signals = 0 /\ s = "INT" /\ pc # "server"))
    /\ UNCHANGED <<confVars, started, watched, listenVars, serverVars, loopVars, stopVars,
                   holdVars, vars>>

----------------------------------------------------------------------------
Main ==
    \/ SignalStart \/ InitTun \/ InitUdp
    \/ ListenAny6 \/ ListenAny4 \/ ListenAddress \/ UseDangling
    \/ NewTurn \/ OnIo \/ OnWork \/ OnFrame \/ OnClient \/ EndTurn
    \/ OnSignalIgnored \/ OnSignal \/ ShutdownTun \/ StopPoll \/ FreeRead \/ FreeWrite
    \/ StopLoop

LifeNext == Main \/ Pool \/ UseFreed \/ Request \/ Signal

\* The main thread runs.
LifeSpec == LifeInit /\ [][LifeNext]_lifeVars /\ WF_lifeVars(Main)

----------------------------------------------------------------------------
(* Properties.                                                             *)

Serving == pc \in {"poll", "turn"} /\ handler = "none"

\* listen_to_port keeps its word (api.c:293-304): a server that runs listens
\* on every address of its bind directive, or on one of the two wildcards.
\* Of the handles it gave up only that of the IPv6 wildcard is still known
\* to the loop when it is freed.
ListensAsAsked ==
    Serving =>
        /\ IF bind = <<>> THEN ipfd # <<>> ELSE Len(ipfd) = Len(bind)
        /\ \A k \in DOMAIN ipfd : tcp[ipfd[k]] = "listening"
        /\ \A i \in DOMAIN tcp : tcp[i] = "dropped" => bind = <<>> /\ i = 1

\* A stop in a quiet moment is well defined: if no job is in the pool and no
\* request but a ping has arrived when signal_handler is called, init_tun
\* succeeded and no freed handle dangles, nothing undefined happens in the
\* rest of the turn, whatever callbacks it still calls (redd.c:126-140) and
\* however often the signal came.  Before the stop the only other way there
\* is a status request to a server without a tun device (status.c:36).
CleanStop ==
    pc = "undefined" =>
        \/ Dangling \/ (tun = "down" /\ handler = "tun")
        \/ handler # "none" /\ ~quiet
        \/ handler = "none" /\ client = "status" /\ ~tunName

\* When uv_run has returned everything is given back once: each buffer of
\* the udp device, on whichever queue the stop found it, each listener, the
\* socket and the lists.
AllReleased ==
    pc = "ended" =>
        /\ freed = IF routing THEN RBufs + WBufs ELSE 0
        /\ rAvail + rWork + Len(rDone) + wAvail + Len(wReady) + Len(wWork) + wDone = 0
        /\ \A i \in DOMAIN tcp : tcp[i] = "closed" \/ (tcp[i] = "dropped" /\ i = 1)
        /\ ~udpOpen /\ ~lists

\* The loop never waits on a descriptor that was closed: a job's callback
\* that comes after shutdown_udp starts the poll again (async_io.c:101), and
\* only the end of uv_run keeps it from being watched.
PolledIsOpen == pc = "poll" /\ armed # {} => udpOpen

\* A SIGINT sent to a server that has started its handle is answered by an
\* orderly end, unless starting fails, a second signal kills the process or
\* the stop runs into one of the undefined cases.
InterruptEnds ==
    intSent ~> \/ pc \in {"ended", "exited", "undefined"}
               \/ pc = "killed" /\ signals > 1
=============================================================================
