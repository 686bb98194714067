# A TLA+ model of redd

redd forwards multicast traffic of a Linux vxlan to a list of hosts. This directory holds
TLA+ modules that model it, TLC configurations that check them on small instances, and
proofs that TLAPS checks for every instance. Paths such as `async_io.c` are under `src/src/`.

## Inventory

One process: a libuv main loop, libuv's thread pool, and child processes it waits for.

| part | source | state | operations | hard behaviour | what makes it correct |
|---|---|---|---|---|---|
| async_io, loop and pool mode | `async_io.c` 39-246 | per device two directions, each with four queues (avail, ready, work, done), a `working` flag and a baton; the poll mask | poll callback, pool job, job callback, `async_io_write_buf_get`, `async_io_poll_start` | main and pool threads share unlocked queues; every event stops the poll for both directions; a job that fails leaves its batch behind | buffers conserved, baton used once at a time, no race, no lost wake-up |
| async_io, worker mode | `async_io.c` 248-471 | a thread and loop per device, ping/pong handles, send_queue | `send_read_buffers`, `read_ping`, ... | hand-over between two loops | (no caller in the repository) |
| queue helper | `helper.c` 96-105 | - | `ngx_empty_into` | order and limit | closed form |
| tun, udp, route | `tun.c`, `udp.c`, `route.c` | two devices, the frame being handled, the list iterator | read a frame, broadcast it, queue a packet, send it | two devices, two pool jobs and the main thread interleave; send failures; full pools | each copy is sent at most once, to a member of the list; only a copy some job left behind is overtaken |
| node list | `node.c` | `server.nodes` and the file `nodes` | add, remove, list, save, load | a host name is accepted and becomes an unroutable address | list equals file after every request and restart |
| ip list | `ip.c` | `server.ips`, the addresses of the vxlan link, the file `ips` | add, remove, list, save, load | three copies of one fact, each step may fail, crash between them | list, link and file agree |
| persistence | `helper.c` 107-228 | the two files | save, load | not atomic; failures only logged | what was saved is loaded |
| api server | `api.c`, `api/*.c` | connections, receive buffers | accept, read, parse, dispatch, reply | messages in fragments, several in one read, peers that vanish | one reply per request, in order |
| vxlan | `vxlan.c` | the link, its state and its fdb entry, in the kernel | set up with retries, tear down | left over links of a crashed run | link up with its entry after start |
| main, signals | `redd.c`, `listen_to_port` and `shutdown_api` in `api.c`, `async_io_shutdown` | the loop, one signal handle, the listeners, what the devices own | start, bind, signal handler, end of the loop | the stop runs inside a turn of the loop, with jobs in the pool and callbacks still to come | a stop in a quiet moment reaches nothing freed, and everything is given back once |
| configuration | `config.c`, the options in `redd.c` | `server` fields | defaults, file, options, one directive per line | quotes, comments and open last lines; options appended to the file as text | the last directive wins, and an argument arrives as it was given |
| adlist | `util/adlist.c` | cells with `prev`, `next` and a value; head, tail, len; an iterator | insert, delete, rotate, iterate, index, search | deletion while iterating; both ends | the pointers are one sequence, and an iteration visits it |
| sds, util | `util/sds.c`, `util/util.c` | strings | split, trim, quote, parse | escapes, unbalanced quotes | splitting undoes quoting |
| commands, log | `util/cmd.c`, `log.c` | - | run a command and wait; write a line | a status other than 0 | the status callers act on |

How they interact: the poll callback of a device submits a job to the pool; the job reads or
sends with the device's `_each` and ends; its callback runs on the main thread, calls `_done`
for each buffer and restarts the poll. The tun device's `_done` is the broadcast, which takes
buffers from the udp device, queues them and restarts its poll. API handlers run on the main
thread between those callbacks and change the node and ip lists, run `ip` commands to the
end, reply and save. `main` reads the configuration, then sets up the server, the devices, the
vxlan link and the listeners one after the other; `signal_handler`, a callback like the
others, takes them down again in the middle of a turn of the loop.

## Modules

| module | models | state and actions |
|---|---|---|
| `NgxQueue` | `ngx_empty_into` in closed form | operators `EmptyFrom`, `EmptyTo` on sequences |
| `EmptyInto` | its loop | one action per iteration |
| `AsyncIo` | one `async_io_t` | `rAvail`..`rCallback`: read_io; `wAvail`..`wJob`: write_io; `armed`: the poll mask. `PollCb`, `ReadCallback`/`ReadDone`/`ReadCallbackEnd`, `WriteCallback`, `Enqueue` are the main thread's steps, `ReadEach`, `ReadStop`, `WriteEach`, `WriteStop` the pool's |
| `Frame` | the tests of `handle_local_frame` | operators on the header fields that decide |
| `Forwarding` | tun + udp + route + node list | two instances of `AsyncIo`; `HandleLocalFrame` and `SendToRed` are the broadcast, one node per step; `tunIn`, `udpIn` the kernel's queues |
| `Multicast` | the promise of the data path | abstract: copies outstanding and sent |
| `Registry` | `ip.c`, `node.c`, `helper.c` and the handlers that change the lists | `ips`, `nodes`: the lists; `link`: the addresses on the vxlan link; `file`, `saved`: the two files; `routing`: whether the configuration enables it, without which no link is made or removed; `pc`: the step of start-up or of a handler. `AddRedIp`..`RemoveRedNode` are the four list operations, `OpenFile`, `LoadIp`, `LoadNode` the load, `SaveOpen`, `SaveWrite` the save, `Crash` and `Stop` the ends |
| `Vxlan` | `vxlan.c` | `link`, `fdb`: the kernel's; `tun`: whether `init_tun` succeeded; `pc`, `retry`, `success`: `init_vxlan`. One action per command |
| `ApiServer` | `api.c` and the handlers as its clients see them | per client `conn`, `wire`, `buf`, `writes`; `reading`, `framec`: the loop of `on_read`; `nodes`: the list the handlers act on; a response says which request it answers, and how |
| `AtomicApi` | what the api promises | abstract: one list, each command at one moment |
| `Text` | `sdssplitlen`, `sdstrim`, `sdscatrepr`, `sdssplitargs` | operators on sequences of bytes; a loop is the function of what it has after so many turns (`SplitTurn`, `TokenTurn`, `ArgsTurn`) |
| `Config` | the options of `main`, `load_server_config*` | `file`, `args`; `lines`, `linenum`: the loop over the lines; `fields`: what the directives set. `Load`, then one line per step |
| `Lifecycle` | `main`, `init_server`, `signal_handler`, `listen_to_port`, `close_ports`, `init_routing`, `shutdown_routing`, `async_io_queue_shutdown` | extends `AsyncIo`, whose device is the udp socket; `pc`, `handler`: where `main` and `signal_handler` are; `turn`: the callbacks this turn of the loop still calls; `tcp`, `ipfd`: the listeners; `tunName`: whether `init_tun` left a name; `rHold`, `wHold`: the buffer a pool job has at hand; `freed` |
| `AdList` | `util/adlist.c` | `head`, `tail`, `prev`, `next`, `live` as the heap has them; `order`: the sequence they stand for; `iter` |
| `NgxQueueProofs`, `AlgorithmsProofs` (of `EmptyInto`, `AdList`, `Text` and `Config`), `AsyncIoProofs`, `ForwardingProofs`, `RegistryProofs`, `ApiServerProofs`, `VxlanProofs`, `LifecycleProofs` | | theorems |
| `MC*` | | instances for TLC; `MCAlgorithms` runs `EmptyInto`, `Config` or `AdList`, which share nothing |

Queues whose elements do not matter are their lengths. A pool job is idle, doing or finished;
it takes one buffer per step, so the main thread interleaves with every part of it. A handler
of the api is one thread's work that nothing interrupts but a death of the process: in
`ApiServer`, where nothing dies, it is one step, and in `Registry`, where the process may be
killed, one step per change it makes outside itself. Where C gives a step no meaning (freed
memory, a NULL list, a queue that was never initialised), `Lifecycle` has two outcomes: the
process goes on, or its `pc` is "undefined". A text is a sequence of bytes, but only the bytes
some code treats differently are told apart. Operators whose comment says they have a
bug are used only by the mutants of `PROJECT.json`.

How the modules fit together: `Forwarding` has two instances of `AsyncIo` and checks that each of
its steps is a step or a stutter of the udp device's (`UdpIsAsyncIo`), whose packets come from the
other device's callback; the tun device's steps are `AsyncIo`'s as they stand. So what is proved
of `AsyncIo` holds of both (`TunKeeps`, `UdpKeeps`); `Lifecycle` runs the actions of `AsyncIo`
inside the turns of the loop and adds what `async_io_init` and `async_io_shutdown` do to the same
queues; `Config` is made of `Text`; `AsyncIo` uses the closed form of `ngx_empty_into` that
`EmptyInto` justifies; `Forwarding` implements `Multicast` and `ApiServer` implements `AtomicApi`,
each by a refinement mapping (`MulticastPromise`, `Atomic`).

## What the runs check

| run | question | result |
|---|---|---|
| `algorithms` | does the loop of `ngx_empty_into` compute the closed form? does every argument reach the configuration unchanged, and does the last directive win? are a list's pointers a sequence after every call, and may an iteration be interrupted by deletions of what it returned? | yes |
| `async_io` | can any interleaving of the main thread and two pool jobs, with failing reads and writes and poll errors, lose a buffer, submit a baton twice, race on a queue or fall asleep with work? | no |
| `forwarding` | is every copy of every frame accounted for once while nodes come and go and reads and sends fail? is a copy overtaken only when a failed batch or a backlog over the limit of a job left it behind? does a copied payload lie within what was read? does the udp device stay `AsyncIo`, and the whole `Multicast`? | yes |
| `forwarding_live` | are copies sent, does an empty pool refill, is the tun device drained, do stranded copies get out again? | the first two while no call fails; the tun device is drained whatever fails; stranded copies get out once another packet is queued or waits and the failures have stopped |
| `forwarding_stranded` | is a copy sent although a send failed before it? | no: finding |
| `registry` | do lists, files and link agree, with and without routing, through failures, kills, stops and restarts? | yes, each to the extent its property says |
| `registry_overlap` | is every listed address on the link when one text contains another? | no: finding |
| `vxlan` | does `init_vxlan` end, do its retries help, does a stop clean up, with a tun device and without? | yes |
| `vxlan_restart` | does the link lead to the running process after a kill? | no: finding |
| `lifecycle` | does a running server listen where it was asked to? is a stop in a quiet moment well defined, does every stop give everything back once, does a SIGINT end the process? | yes, each to the extent its property says |
| `api_server` | does framing stay in step, does each reply answer the request whose turn it is, with an error where the request names no node, is each command atomic, is it answered? | yes, for the commands redd knows |
| `api_server_unknown` | is an unknown command answered? | no: finding |

Every property of a passing run has a mutant in `PROJECT.json`: a plausible bug in a mapped
definition that makes TLC find the property violated.

### Bounds

- `algorithms`: for the queue, two elements, queues of up to three, limits -1, 0, 1, 2 and 4:
  below, at and above every length (TLAPS covers the rest). For the configuration, eight files
  with every kind of line (comment, capitals, open last line, both quotes, unbalanced quotes),
  arguments of up to three bytes out of the classes the code tells apart, `MaxNumber` 10 and
  `MaxBind` 2, so that numbers and lists reach and pass their limits. For the list, four cells
  and two values: two inner cells and a repeated value; cells are reused after they are freed.
  Cells and values are symmetric.
- `async_io`: three read and four write buffers and a batch of two: a job can leave leftovers,
  packets queue up behind them, and `ready_queue` outgrows a batch. TLAPS covers the rest.
- `forwarding` (223 thousand states): two frames of three kinds (forwarded, cut short by the tun
  buffer, with a UDP header that announces less than a UDP header), two nodes of which one is never
  reachable, two more failing `read`, `recvfrom` or `sendto`. Two frames are four copies for three
  write buffers and a batch of two: copies find the pool empty, and the backlog outgrows a job, as
  redd's 256 buffers outgrow its 32. Two tun read buffers let one job bring both frames, the
  second handled after the first filled the queue. TLAPS covers the safety for the rest.
- `forwarding_live`: three frames to two nodes are six copies for three buffers and batches of
  two, so a pool runs empty and a queue outgrows a batch; one failing call anywhere, with frames
  to come after it, is what `Recovers` is about. `forwarding_stranded`: one frame, so that none
  comes after it.
- `registry` (1.2 million states): two addresses, two nodes, two failures and two kills anywhere,
  any number of requests, stops and restarts, routing enabled or not. Two members make the order
  of a list and the removal of either end show. TLAPS covers the rest.
- `vxlan`: three retries, five failures (one loop used up and the next one strained), two kills.
- `lifecycle` (890 thousand states): with and without routing and a tun device, for the wildcard
  and for two addresses; one read and two write buffers and a batch of two, so that a stop finds
  buffers on each queue and one in a job's hands; two signals, of which the second may come
  before, in or after the handler. TLAPS covers the safety for the rest.
- `api_server` (279 thousand states): a client that pipelines two requests beside one with one,
  frames of two pieces: a read may complete no frame, one, one and a half, or two. `Asks` gives
  each client its commands: both change and list the nodes, one also sends an unknown command and
  an addition without a node, the other a ping and a removal without one.

Names of bounds: `MaxFrames`, `MaxDatagrams`, `MaxFails`, `MaxFaults`, `MaxCrashes`,
`MaxRequests`, `Asks`, `MaxSignals`, `MaxLen`; each is a constant of its module, and bounds the
inputs, the guards and the type invariant.

### Fairness

- `Forwarding`: strong fairness for an event that is watched for and due, since libuv polls
  level-triggered and each event disarms both directions (`async_io.c:108`), so that one
  direction is enabled and disabled by the other again and again; strong fairness for job
  callbacks, which wait for the main thread to be free; weak fairness for the rest of a callback
  and for the pool jobs, which libuv's four threads run as soon as they are submitted. Nothing
  makes a frame arrive, a node change or a call fail.
- `Vxlan`: weak fairness of `InitVxlan`: a command that was started ends and `sleep` returns.
- `ApiServer`: weak fairness for the loop over the frames of a read and for writes while the
  peer accepts, strong fairness for reads, which compete with other clients' callbacks, and a
  client that began a frame finishes it or hangs up.

- `Lifecycle`: weak fairness of the main thread (`Main`), whose commands and callbacks return.
  Nothing makes a signal, a request or a frame arrive or a pool job end.

The other modules have safety properties only and state no fairness.

### Deadlock

`CHECK_DEADLOCK FALSE` stands where the system may really stop: `EmptyInto` returns and the
configuration is loaded (`MCAlgorithms`), the process ends (`Lifecycle`), a poll error ends a
device (`AsyncIo`), and with the bounds used up the server waits for frames (`Forwarding`) or
requests (`ApiServer`). `Registry` and `Vxlan` are checked for it.

## Findings

1. **A failed send strands its batch** (`async_io.c:51`, run `forwarding_stranded`). `async_io_do`
   stops at the first `_each` that fails; the packet and the rest of the batch stay on
   `work_queue`. `async_io_poll_start` looks only at `ready_queue`, so nothing submits another job
   until some later frame is queued, and then they go out after newer packets. A consequence the
   run does not need (`Recovers` states what is left: a stranded copy is sent when another packet
   has, or gets, a buffer): once failures have left every write buffer on `work_queue`,
   `async_io_write_buf_get` finds none, nothing is queued any more, and no write job is ever
   submitted again: forwarding is over until a restart. A node whose address cannot be routed,
   such as a host name (`validate_node` accepts any text), makes every job that meets it fail.
2. **An address can be listed and never assigned** (`ip.c:149`, run `registry_overlap`).
   `vxlan_has_ip` greps for the text of the address anywhere in `ip addr show`.
3. **A restart after a kill leaves the link to the dead process** (`vxlan.c:56`, run
   `vxlan_restart`). `success` is still -1 when the link exists.
4. **An unknown command is never answered** (`api.c:178`, run `api_server_unknown`), while
   `test/test.rb` waits for the response.

## What is proved

TLAPS proves these for every value of the constants that satisfies the modules' assumptions.

- `NgxQueueProofs.EmptyIntoConserves`: one piece is cut off the end of the first queue and stands,
  unchanged, in front of the second; what is before and behind it stays as it was.
  `AlgorithmsProofs.EmptyIntoCorrect`: the loop returns the closed form, from the invariant that
  finishing the loop from where it is gives what the whole call gives. The lemmas on sequences
  that several components need (what `Append`, `Tail`, `RemoveAt`, a split and `ngx_empty_into` do
  to the elements and to their being different) are in `NgxQueueProofs`.
- `AlgorithmsProofs`, of the linked list. `ListRepresents`: `Shape` states the pointers as
  functions on all cells (`Linked`); every way of adding a cell is one `Insertion` between two
  neighbours, of which either may be missing, and the lemmas `LinkIn`, `LinkOut` and `LinkRound`
  show once what relinking does to the sequence. `IteratorStaysLive` and `IterationVisitsAll`:
  `Under` says that while the iterator holds a cell the returned ones lie behind it and the owed
  ones do not (`Owed`), which insertions and removals keep because they do not change which of two
  other cells comes first (`ComesInsert`, `ComesRemove`). `LookupsAreRight`, and that
  `listRelease` frees all cells, need what n steps along a pointer field reach (`FollowNext`,
  `FollowPrev`).
- `AlgorithmsProofs`, of the configuration. `QuotingUndone`: `sdssplitargs` gives back, as one
  argument, whatever text `sdscatrepr` has quoted, for any bytes and any length. The loops are
  functions of the number of turns, so each fact about one is proved by counting up (`UpTo`): after
  as many turns as there are bytes the token holds those bytes and stands behind their escapes.
  `OptionsGetThrough` says the same of the whole detour: quoting, joining to lines in `main`,
  splitting into lines, trimming, splitting into arguments. Its invariant over the arguments
  (`Match`) relates the option text, split into lines, to the arguments meant by it, line by line;
  a name opens a line and an argument extends the last one, because quoting leaves no line end in
  what it writes and every argument ends with a blank that trimming the line takes away again.
  `LastDirectiveWins`: the file's text and the option text, joined by a line end, split into the
  pieces of each (`PiecesJoined`), so the lines of the whole mean what those of the file mean and
  then what the arguments mean (`LinesJoined`, `LoadMeans`). The invariant `ConfigInv` says that
  the fields hold what the lines done so far mean, and that all directives of those lines were
  valid. A line moves it on because every directive is either rejected whatever the fields are or
  sets its own field to a value that does not depend on them (`ExecuteSets`), so that executing
  it now and executing it alone, as `LastValue` does, agree.
- `AsyncIoProofs`: `TypeCorrect`, `NoBufferLost`, `BatonExclusive`, `NeverStalls`,
  `QueuesRaceFree`. None of them is inductive alone: that an event cannot submit a job twice
  rests on the `working` flags saying exactly which jobs are out (`WorkingMeansOut`), on the poll
  mask asking only for directions that do not work (`ArmedMeansFree`), and on `work_done` being
  empty whenever its job is not out (`DoneEmptied`). The conjunction, `IInv`, is inductive with
  one lemma per action; the action property `RaceFree` follows from it because a main step
  touches a direction's queues only when that direction's job is not running.
- `RegistryProofs`, without conditions: `TypeCorrect` and `RemovalIsFinal`. `listSearchKey`
  finds the first match only, so a removal is final because no list, and no file, ever holds a
  text twice (`Unrepeated`), which additions and loads keep by looking before they append; that
  rests on lemmas about `Append` and `RemoveFirst` on sequences without repetition.
- `RegistryProofs`, on condition that grep tells the addresses apart (`TellsApart`, the condition
  that finding 2 violates): `AttachedHolds` whatever fails. On condition, too, that it finds each
  address in its own line (`FindsOwn`), and for histories without a failed command or file
  operation, with any number of kills: `SavedHolds` and `AckedHolds`. `FindsOwn` is needed because
  a start after a kill meets addresses that are still there: one that grep misses cannot be
  assigned a second time and drops off the list. Their invariant `FInv` says at each point of
  start-up and of a handler how the lists stand to the files: what is loaded and what is left to
  load make up the file (`Loading`), outside a handler list and file are equal (`Saving`), where
  each confirmed entry is to be found (`Confirmed`), and that a server without routing lists and
  saves no address (`Unrouted`). TLC checked `IInv` and `FInv` on the run's instance before
  they were proved. `LinkHolds` adds for histories without kills that the link never has more than
  the lists: until the addresses are loaded it has only what the file lists, afterwards only what
  `server.ips` lists (`OnlyListed`); that an address leaves link and list together needs
  `Unrepeated` once more.
- `ForwardingProofs`: `UdpImplements` shows, action by action, that a step of the whole program is
  a step or a stutter of the udp device's `AsyncIo`; the one that is not immediate is `SendToRed`,
  whose buffer comes from the other device's callback. The lemma `TunImplements` says the same of
  the tun device, where it is immediate. With them `TunKeeps` and `UdpKeeps` carry
  `BuffersConserved` and `NoStall` over by instantiating `AsyncIoProofs`. `PayloadAlwaysFits`: what
  travels between kernel and callback is always a frame cut to the read buffer (`InTransit`), and
  the frame the broadcast has at hand passed the tests of `handle_local_frame` (`AtHand`); so what
  is copied was read with the frame, is not of negative length, and fits: no header makes
  `send_to_red` take a buffer it does not use.
- `ForwardingProofs`, of the whole path. `EveryCopyAccounted` rests on `OneOfEach`: frame
  numbers are in use once (`Numbered`, `Handled`), neither the node list nor what is left of the
  broadcast holds a node twice (`NodesOnce`), and no copy is on two queues or both waiting and
  sent (`CopiesOnce`). `PromiseKept` maps every step to one of `Multicast` or a stutter; the two
  that are not stutters are the broadcast, which owes a copy to each node of the list, and the
  send, whose copy must have been owed and not sent, which is `OneOfEach` again.
  `NodesSeeFramesInOrder`: `left` records the copies that were on `ready_queue` when a job was
  submitted without them, and those on `work_queue` when a job ended without them. No condition on
  the counts or on failures is needed: from the tun queues to the network, of two copies for a node
  the first is of the older frame or the second is in `left` (`Orderly`). Appending a copy keeps it
  because frames are handled in the order they came; the poll callback, which puts what is ready
  in front of what is left over, keeps it because a direction without a job has only copies of
  `left` on its `work_queue`.
- `ApiServerProofs`: `StaysInStep` (the pieces of a client's requests are always accounted for:
  handled, in the loop, in the buffer, on the wire or not yet sent, by the division with remainder
  of `on_read`). `RepliesOrdered`: the responses queued and received, taken together, are a
  beginning of all there were, and those answer the requests handled so far one by one (`Told`),
  each with the outcome its request calls for and none without, unless it is silent.
  `ServesAtomically` is the refinement of `AtomicApi`: the frame in hand is always a request that
  was sent in full and not yet handled (`NextRequest`, from the same accounting), and a removal
  takes away the only occurrence since the list never holds a node twice.
- `VxlanProofs`: `TypeCorrect`; `RetriesHelp`, from an invariant that counts what failures are
  left against the retries of the loop that runs, a failed `init_tun` being one of them;
  `StopsClean`.
- `LifecycleProofs`: `ListenKept`, `StopsCleanly`, `Released`, `PollsOpen`, from an invariant in
  layers, each kept with the help of those before it: where `main` and `signal_handler` can be
  together (`Stages`), that a device is idle before its socket opens (`Unused`), what a quiet
  stop relies on (`Calm`), the states of the listeners (`Handles`, `Listening`) and the count of
  buffers over the queues, the jobs' hands and `freed` (`Counted`).

Assumptions: the named `ASSUME`s of the modules (counts are natural numbers, a batch and a frame
are not empty, addresses, nodes, clients and the special values are different, read buffers are no
longer than write buffers, the list the server starts with holds no node twice, which
`add_red_node` ensures, `node.c:159`), `TellsApart` and `FindsOwn` where a theorem names them (an
IPv6 address in capitals or with its zeros written out is not found in the line the kernel prints
for it), and for `RepliesOrdered` and `ServesAtomically` that the unknown command is the silent
one (`SilentUnknown`), which finding 4 is about.

Of the program's arguments the proofs assume that what follows the two dashes of a name is a
name: not empty, without blanks and quotes, and not beginning with `#` (`ArgumentsOfConfig`).
`main` copies it as it is (`redd.c:188`), so anything else would be split, end the line or be
taken for a comment. An argument that is not a name is any text. Of the configuration file they
assume any text, and that `means` is what its lines mean one by one (`FilesOfConfig`,
`LinesMean`); TLC compares that with the meanings written out for the files of the run.

Model-checked only: liveness (`DeliveredUnlessFailed`, `PoolRefillsUnlessFailed`, `TunDrained`,
`Recovers`, `Starts`, `InterruptEnds`, `Answered`). No safety property of a passing run is left
without a theorem. TLAPS cannot prove liveness under fairness or reason about ENABLED, its provers
cannot instantiate the library's induction theorems, and it has no backend for modules with
RECURSIVE operators; the modules with proofs use none. Where a proof needs an induction
(`FollowIs`, `UpTo`), it takes the least counterexample, which the library states without an
operator parameter (`Least`).

## What is not modelled

- `async_io_worker_*` (`async_io.c` 248-471): no caller in the repository. `send_write_buffers`
  would leave its packets on a queue nothing empties, so there is no use the model could be
  checked against.
- The number and pattern functions and `getAbsolutePath` of `util.c`, the growth of sds buffers,
  a configuration file that cannot be opened, the freeing of replaced strings, and NUL bytes.
  One directive stands for each kind.
- Daemonising, the pid file, the process title, logging, allocation failure and the text of
  messages and commands.
- In `Lifecycle`: the tun device's own queues, which the same code takes down just before the udp
  device's; a failing `uv_poll_init`; each list link of a queue by itself (a take from a queue is
  one step). In `ApiServer`: a failing accept; `ip_list` and `status`, which pack the other
  list the way `node_list` does; and a request that ends the process, which is in `Registry`
  (requests that are no map) and in `Lifecycle` (`status` without a tun device, whose name is NULL,
  `status.c:36`).
- An `exit(1)` in `init_api` leaves the vxlan link behind; `Vxlan` has it as a kill.
- The bframe and msgpack libraries and libuv are external: modelled by what redd relies on
  (frames a read completes, values of an expected type or not, callbacks on one thread, turns of
  the loop).
- `Registry`: a file the kernel has not written to disk when the host goes down, addresses
  changed on the link by others, a configuration that changes between two starts, and two texts
  that name the same address. `Forwarding`: poll errors, which `AsyncIo` has.

## Plan

Done, in this order because each rests on the one before: `NgxQueue`/`EmptyInto`, `AsyncIo`,
`Frame`/`Multicast`/`Forwarding` (the core), `Registry`, `Vxlan`, `AdList`,
`AtomicApi`/`ApiServer`, then `Text`/`Config`, `Lifecycle`, and the proofs.

Next, by weight:

1. `Config`: the remaining directives and the error paths of opening files, with each string
   owned once.
2. A second device in `Lifecycle`, so that a stop between the two teardowns shows.
