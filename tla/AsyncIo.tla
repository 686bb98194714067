------------------------------- MODULE AsyncIo -------------------------------
(***************************************************************************)
(* One async_io_t of src/src/async_io.c in the mode redd uses it: the      *)
(* descriptor is polled by the main loop and its I/O is done by jobs of    *)
(* libuv's thread pool, one job per direction at a time.                   *)
(*                                                                         *)
(* Buffers travel avail -> work -> done -> avail on the read side and      *)
(* avail -> ready -> work -> done -> avail on the write side.  The main    *)
(* thread and the pool threads share the four queues without a lock: only  *)
(* the working flags and the poll mask keep them apart.                    *)
(*                                                                         *)
(* A queue whose elements carry no data that matters is its length.  A     *)
(* pool job is "idle" (not submitted), "doing" (submitted or in            *)
(* async_io_do) or "finished" (its callback has not been called yet).      *)
(*                                                                         *)
(* _each, _done and _cb are the device's functions: _each succeeds or      *)
(* fails freely here, and _done may queue packets on any device.           *)
(***************************************************************************)
EXTENDS NgxQueue

CONSTANTS Frame,     \* what a read buffer can come back with
          Packet,    \* what a write buffer can be filled with
          RBufs,     \* read_buf_count of async_io_init
          WBufs,     \* write_buf_count of async_io_init
          Batch      \* buffers one job is given (32)

ASSUME RBufsAssumption == RBufs \in Nat
ASSUME WBufsAssumption == WBufs \in Nat
ASSUME BatchAssumption == Batch \in Nat \ {0}

VARIABLES
    rAvail,    \* length of read_io.avail_queue
    rWork,     \* length of read_io.work_queue
    rDone,     \* read_io.work_done
    rWorking,  \* read_io.working
    rJob,      \* the pool job of read_io.baton
    rCallback, \* the main thread is inside async_io_callback of read_io
    wAvail,    \* length of write_io.avail_queue
    wReady,    \* write_io.ready_queue
    wWork,     \* write_io.work_queue
    wDone,     \* length of write_io.work_done
    wWorking,  \* write_io.working
    wJob,      \* the pool job of write_io.baton
    armed,     \* the event mask uv_poll watches, {} when stopped
    pollErr    \* history: the poll was last stopped by an error status

readVars  == <<rAvail, rWork, rDone, rWorking, rJob, rCallback>>
writeVars == <<wAvail, wReady, wWork, wDone, wWorking, wJob>>
pollVars  == <<armed, pollErr>>
vars == <<readVars, writeVars, pollVars>>

Jobs == {"idle", "doing", "finished"}

\* Variants with a bug, for the mutants of PROJECT.json: one of the working
\* flags is not looked at.
PollFlagsIgnoreReading(rworking, wworking, ready) ==
    {"R"} \union (IF wworking \/ ready = <<>> THEN {} ELSE {"W"})

PollFlagsIgnoreWriting(rworking, wworking, ready) ==
    (IF rworking THEN {} ELSE {"R"}) \union
    (IF ready = <<>> THEN {} ELSE {"W"})

\* The mask async_io_poll_start asks for: readable unless a read job is out,
\* writable unless a write job is out or nothing is ready to be written.
PollFlags(rworking, wworking, ready) ==
    (IF rworking THEN {} ELSE {"R"}) \union
    (IF wworking \/ ready = <<>> THEN {} ELSE {"W"})

\* async_io_poll_start replaces the mask, or stops the poll when it is empty.
PollStart(rworking, wworking, ready) ==
    /\ armed' = PollFlags(rworking, wworking, ready)
    /\ pollErr' = FALSE

Init ==
    /\ rAvail = RBufs /\ rWork = 0 /\ rDone = <<>>
    /\ rWorking = FALSE /\ rJob = "idle" /\ rCallback = FALSE
    /\ wAvail = WBufs /\ wReady = <<>> /\ wWork = <<>> /\ wDone = 0
    /\ wWorking = FALSE /\ wJob = "idle"
    /\ armed = PollFlags(FALSE, FALSE, <<>>)
    /\ pollErr = FALSE

----------------------------------------------------------------------------
(* The main thread.                                                        *)

\* Variant with a bug: a whole batch is taken whatever is available.
SubmitReadUnchecked(ev) ==
    IF "R" \in ev
    THEN /\ rWorking' = TRUE
         /\ rAvail' = rAvail - Batch
         /\ rWork' = rWork + Batch
         /\ rJob' = "doing"
    ELSE UNCHANGED <<rWorking, rAvail, rWork, rJob>>

\* The two directions of async_io_poll_cb: submit the job of the direction
\* that has an event, with up to Batch buffers moved to its work_queue.
SubmitRead(ev) ==
    IF "R" \in ev
    THEN LET n == IF rAvail < Batch THEN rAvail ELSE Batch IN
         /\ rWorking' = TRUE
         /\ rAvail' = rAvail - n
         /\ rWork' = rWork + n
         /\ rJob' = "doing"
    ELSE UNCHANGED <<rWorking, rAvail, rWork, rJob>>

\* Variant with a bug: what a failed job left on work_queue is forgotten.
SubmitWriteFresh(ev) ==
    IF "W" \in ev
    THEN /\ wWorking' = TRUE
         /\ wReady' = EmptyFrom(wReady, Batch)
         /\ wWork' = EmptyTo(wReady, <<>>, Batch)
         /\ wJob' = "doing"
    ELSE UNCHANGED <<wWorking, wReady, wWork, wJob>>

SubmitWrite(ev) ==
    IF "W" \in ev
    THEN /\ wWorking' = TRUE
         /\ wReady' = EmptyFrom(wReady, Batch)
         /\ wWork' = EmptyTo(wReady, wWork, Batch)
         /\ wJob' = "doing"
    ELSE UNCHANGED <<wWorking, wReady, wWork, wJob>>

\* async_io_poll_cb called with events ev.
PollCb(ev) ==
    /\ ~rCallback
    /\ ev # {} /\ ev \subseteq armed
    /\ armed' = {}
    /\ SubmitRead(ev)
    /\ SubmitWrite(ev)
    /\ UNCHANGED <<rDone, rCallback, wAvail, wDone, pollErr>>

\* async_io_poll_cb called with an error status and no events: the poll is
\* stopped, status is not looked at and nothing starts it again.
PollCbError ==
    /\ ~rCallback
    /\ armed # {}
    /\ armed' = {}
    /\ pollErr' = TRUE
    /\ UNCHANGED <<readVars, writeVars>>

\* Variant with a bug: working is cleared before _done is called.
ReadCallbackEarlyClear ==
    /\ ~rCallback
    /\ rJob = "finished"
    /\ rJob' = "idle"
    /\ rCallback' = TRUE
    /\ rWorking' = FALSE
    /\ UNCHANGED <<rAvail, rWork, rDone, writeVars, pollVars>>

\* async_io_callback of read_io is called when its job has finished; it
\* hands work_done to _done one buffer at a time (ReadDone), clears working
\* and restarts the poll (ReadCallbackEnd).
ReadCallback ==
    /\ ~rCallback
    /\ rJob = "finished"
    /\ rJob' = "idle"
    /\ rCallback' = TRUE
    /\ UNCHANGED <<rAvail, rWork, rDone, rWorking, writeVars, pollVars>>

ReadDone ==
    /\ rCallback
    /\ rDone # <<>>
    /\ rDone' = Tail(rDone)
    /\ rAvail' = rAvail + 1
    /\ UNCHANGED <<rWork, rWorking, rJob, rCallback, writeVars, pollVars>>

\* Variant with a bug: the poll is not restarted.
ReadCallbackEndNoRestart ==
    /\ rCallback
    /\ rDone = <<>>
    /\ rWorking' = FALSE
    /\ rCallback' = FALSE
    /\ UNCHANGED <<rAvail, rWork, rDone, rJob, writeVars, pollVars>>

ReadCallbackEnd ==
    /\ rCallback
    /\ rDone = <<>>
    /\ rWorking' = FALSE
    /\ rCallback' = FALSE
    /\ PollStart(FALSE, wWorking, wReady)
    /\ UNCHANGED <<rAvail, rWork, rDone, rJob, writeVars>>

\* Variants with a bug: the poll is not restarted; the buffers are not put back.
WriteCallbackNoRestart ==
    /\ ~rCallback
    /\ wJob = "finished"
    /\ wJob' = "idle"
    /\ wAvail' = wAvail + wDone
    /\ wDone' = 0
    /\ wWorking' = FALSE
    /\ UNCHANGED <<readVars, wReady, wWork, pollVars>>

WriteCallbackKeepsBuffers ==
    /\ ~rCallback
    /\ wJob = "finished"
    /\ wJob' = "idle"
    /\ wDone' = 0
    /\ wWorking' = FALSE
    /\ PollStart(rWorking, FALSE, wReady)
    /\ UNCHANGED <<readVars, wAvail, wReady, wWork>>

\* async_io_callback of write_io: _done and _cb of both devices do nothing,
\* so the whole callback is one step.
WriteCallback ==
    /\ ~rCallback
    /\ wJob = "finished"
    /\ wJob' = "idle"
    /\ wAvail' = wAvail + wDone
    /\ wDone' = 0
    /\ wWorking' = FALSE
    /\ PollStart(rWorking, FALSE, wReady)
    /\ UNCHANGED <<readVars, wReady, wWork>>

\* Variants with a bug: the packet goes to the head of ready_queue; the poll
\* is not restarted.
EnqueueAtHead(p) ==
    /\ wAvail > 0
    /\ wAvail' = wAvail - 1
    /\ wReady' = <<p>> \o wReady
    /\ PollStart(rWorking, wWorking, wReady')
    /\ UNCHANGED <<readVars, wWork, wDone, wWorking, wJob>>

EnqueueNoRestart(p) ==
    /\ wAvail > 0
    /\ wAvail' = wAvail - 1
    /\ wReady' = Append(wReady, p)
    /\ UNCHANGED <<readVars, wWork, wDone, wWorking, wJob, pollVars>>

\* The main thread queues a packet: async_io_write_buf_get, insertion at the
\* tail of ready_queue, async_io_poll_start.  It may do so from any callback.
Enqueue(p) ==
    /\ wAvail > 0
    /\ wAvail' = wAvail - 1
    /\ wReady' = Append(wReady, p)
    /\ PollStart(rWorking, wWorking, wReady')
    /\ UNCHANGED <<readVars, wWork, wDone, wWorking, wJob>>

----------------------------------------------------------------------------
(* The thread pool: async_io_do of either direction.                       *)

\* _each succeeded on the head of work_queue: the buffer moves to work_done.
ReadEach(f) ==
    /\ rJob = "doing"
    /\ rWork > 0
    /\ rWork' = rWork - 1
    /\ rDone' = Append(rDone, f)
    /\ UNCHANGED <<rAvail, rWorking, rJob, rCallback, writeVars, pollVars>>

\* _each failed, or work_queue is empty: the job returns and leaves the rest
\* of work_queue where it is.
ReadStop ==
    /\ rJob = "doing"
    /\ rJob' = "finished"
    /\ UNCHANGED <<rAvail, rWork, rDone, rWorking, rCallback, writeVars, pollVars>>

\* Variants with a bug: the buffer that was sent is not kept for work_done, or
\* not taken off work_queue.
WriteEachLoses ==
    /\ wJob = "doing"
    /\ wWork # <<>>
    /\ wWork' = Tail(wWork)
    /\ UNCHANGED <<readVars, wAvail, wReady, wDone, wWorking, wJob, pollVars>>

WriteEachKeepsHead ==
    /\ wJob = "doing"
    /\ wWork # <<>>
    /\ wDone < WBufs
    /\ wDone' = wDone + 1
    /\ UNCHANGED <<readVars, wAvail, wReady, wWork, wWorking, wJob, pollVars>>

WriteEach ==
    /\ wJob = "doing"
    /\ wWork # <<>>
    /\ wWork' = Tail(wWork)
    /\ wDone' = wDone + 1
    /\ UNCHANGED <<readVars, wAvail, wReady, wWorking, wJob, pollVars>>

WriteStop ==
    /\ wJob = "doing"
    /\ wJob' = "finished"
    /\ UNCHANGED <<readVars, wAvail, wReady, wWork, wDone, wWorking, pollVars>>

----------------------------------------------------------------------------
MainStep ==
    \/ \E ev \in SUBSET {"R", "W"} : PollCb(ev)
    \/ PollCbError
    \/ ReadCallback \/ ReadDone \/ ReadCallbackEnd
    \/ WriteCallback
    \/ \E p \in Packet : Enqueue(p)

PoolStep ==
    \/ \E f \in Frame : ReadEach(f)
    \/ ReadStop
    \/ WriteEach
    \/ WriteStop

Next == MainStep \/ PoolStep

Spec == Init /\ [][Next]_vars

----------------------------------------------------------------------------
(* Properties.                                                             *)

TypeOK ==
    /\ rAvail \in Nat /\ rWork \in Nat /\ rDone \in Seq(Frame)
    /\ rWorking \in BOOLEAN /\ rJob \in Jobs /\ rCallback \in BOOLEAN
    /\ wAvail \in Nat /\ wReady \in Seq(Packet) /\ wWork \in Seq(Packet)
    /\ wDone \in Nat
    /\ wWorking \in BOOLEAN /\ wJob \in Jobs
    /\ armed \in SUBSET {"R", "W"} /\ pollErr \in BOOLEAN

\* No buffer is lost or used twice: whatever the two threads and a failing
\* _each do, the buffers async_io_queue_init (async_io.c:166) made are all on
\* exactly one of the queues of their direction.
BuffersConserved ==
    /\ rAvail + rWork + Len(rDone) = RBufs
    /\ wAvail + Len(wReady) + Len(wWork) + wDone = WBufs

\* The baton of a direction holds the one uv_work_t of that direction
\* (async_io.c:112, 122): an event that would submit it again is watched for
\* only while the job of that direction is not submitted and its callback is over.
BatonNotReused ==
    /\ "R" \in armed => rJob = "idle" /\ ~rCallback /\ rDone = <<>>
    /\ "W" \in armed => wJob = "idle" /\ wDone = 0

\* The device never goes to sleep by itself.  Reading is armed or a job is
\* out whose callback will arm it; packets that are ready are armed for
\* writing or a job is out; only an error status breaks this.
NoStall ==
    \/ pollErr
    \/ rWorking \/ wWorking
    \/ /\ "R" \in armed
       /\ wReady # <<>> => "W" \in armed

\* working says exactly that a job is out or its callback is running
\* (set in async_io.c:111 and :121, cleared in :100).
WorkingMeansOut ==
    /\ rWorking <=> (rJob # "idle" \/ rCallback)
    /\ wWorking <=> (wJob # "idle")
    /\ rCallback => rJob = "idle"

\* work_queue and work_done are unlocked: while a pool thread is in
\* async_io_do of a direction (async_io.c:48-56) no step of the main thread
\* touches the two queues of that direction.
RaceFree ==
    [][MainStep => /\ rJob = "doing" => UNCHANGED <<rWork, rDone>>
                   /\ wJob = "doing" => UNCHANGED <<wWork, wDone>>]_vars
=============================================================================
