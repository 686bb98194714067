---------------------------- MODULE AsyncIoProofs ----------------------------
(* The invariants of one async_io_t, for any numbers of buffers and any      *)
(* batch size.                                                               *)
EXTENDS AsyncIo, NgxQueueProofs

\* A direction whose job and callback are over has nothing in work_done.
DoneEmptied ==
    /\ ~rWorking => rDone = <<>>
    /\ ~wWorking => wDone = 0

\* The mask never asks for a direction whose working flag is set.
ArmedMeansFree ==
    /\ "R" \in armed => ~rWorking
    /\ "W" \in armed => ~wWorking

\* The inductive invariant.  BatonNotReused and BuffersConserved need the
\* flags to agree with the jobs, and the done queues to be empty when the
\* flag is clear.
IInv ==
    /\ TypeOK
    /\ BuffersConserved
    /\ WorkingMeansOut
    /\ DoneEmptied
    /\ ArmedMeansFree
    /\ NoStall

\* The flags async_io_poll_start computes are a legal mask, never ask for a
\* direction that works, and ask for every direction that has work and is free.
LEMMA PollFlagsFacts ==
    ASSUME NEW rw \in BOOLEAN, NEW ww \in BOOLEAN, NEW q
    PROVE  /\ PollFlags(rw, ww, q) \in SUBSET {"R", "W"}
           /\ "R" \in PollFlags(rw, ww, q) <=> ~rw
           /\ "W" \in PollFlags(rw, ww, q) <=> ~ww /\ q # <<>>
  BY DEF PollFlags

LEMMA InitIInv == Init => IInv
  <1> SUFFICES ASSUME Init PROVE IInv
    OBVIOUS
  <1>1. armed = {"R"}
    BY DEF Init, PollFlags
  <1>2. TypeOK
    BY <1>1, RBufsAssumption, WBufsAssumption, EmptySeq DEF Init, TypeOK, Jobs
  <1>3. BuffersConserved
    BY RBufsAssumption, WBufsAssumption DEF Init, BuffersConserved
  <1>. QED
    BY <1>1, <1>2, <1>3
       DEF Init, IInv, WorkingMeansOut, DoneEmptied, ArmedMeansFree, NoStall

\* Handing a batch to the write job keeps the number of queued packets.
LEMMA BatchKeepsPackets ==
    ASSUME NEW q \in Seq(Packet), NEW w \in Seq(Packet)
    PROVE  /\ EmptyFrom(q, Batch) \in Seq(Packet)
           /\ EmptyTo(q, w, Batch) \in Seq(Packet)
           /\ Len(EmptyFrom(q, Batch)) + Len(EmptyTo(q, w, Batch)) = Len(q) + Len(w)
  <1>1. Batch \in Int
    BY BatchAssumption
  <1>2. EmptyFrom(q, Batch) \in Seq(Packet)
    BY <1>1, EmptyIntoLengths
  <1>3. EmptyTo(q, w, Batch) \in Seq(Packet)
    BY <1>1, EmptyIntoLengths
  <1>4. Len(EmptyFrom(q, Batch)) = Len(q) - Moved(q, Batch)
    BY <1>1, EmptyIntoLengths
  <1>5. Len(EmptyTo(q, w, Batch)) = Len(w) + Moved(q, Batch)
    BY <1>1, EmptyIntoLengths
  <1> DEFINE k == Moved(q, Batch)
             m == Len(q)
             n == Len(w)
  <1>6. k \in Int /\ m \in Nat /\ n \in Nat
    BY <1>1, MovedBounds, LenProperties
  <1>7. (m - k) + (n + k) = m + n
    <2> HIDE DEF k, m, n
    <2>. QED  BY <1>6
  <1>. QED  BY <1>2, <1>3, <1>4, <1>5, <1>7

\* async_io_poll_cb.
LEMMA PollCbIInv ==
    ASSUME IInv, NEW ev \in SUBSET {"R", "W"}, PollCb(ev)
    PROVE  IInv'
  <1> USE DEF IInv
  <1>1. "R" \in ev => ~rWorking
    BY DEF PollCb, ArmedMeansFree
  <1>2. "W" \in ev => ~wWorking
    BY DEF PollCb, ArmedMeansFree
  <1>3. /\ wReady \in Seq(Packet) /\ wWork \in Seq(Packet)
        /\ EmptyFrom(wReady, Batch) \in Seq(Packet)
        /\ EmptyTo(wReady, wWork, Batch) \in Seq(Packet)
        /\ Len(EmptyFrom(wReady, Batch)) + Len(EmptyTo(wReady, wWork, Batch))
             = Len(wReady) + Len(wWork)
    BY BatchKeepsPackets DEF TypeOK
  <1>4. /\ Len(wReady) \in Nat /\ Len(wWork) \in Nat
        /\ Len(wReady') \in Nat /\ Len(wWork') \in Nat
        /\ wReady' \in Seq(Packet) /\ wWork' \in Seq(Packet)
        /\ Len(wReady') + Len(wWork') = Len(wReady) + Len(wWork)
        /\ wAvail' = wAvail /\ wDone' = wDone
    BY <1>3, LenProperties DEF PollCb, SubmitWrite
  <1>5. /\ rAvail' \in Nat /\ rWork' \in Nat
        /\ rAvail' + rWork' = rAvail + rWork
        /\ rDone' = rDone
    BY BatchAssumption DEF PollCb, SubmitRead, TypeOK
  <1>6. TypeOK'
    BY <1>4, <1>5 DEF PollCb, SubmitRead, SubmitWrite, TypeOK, Jobs
  <1>7. BuffersConserved'
    <2>1. rAvail' + rWork' + Len(rDone') = RBufs
      BY <1>5, LenProperties DEF TypeOK, BuffersConserved
    <2>2. wAvail' + Len(wReady') + Len(wWork') + wDone' = WBufs
      <3>1. /\ wAvail \in Nat /\ wDone \in Nat
            /\ wAvail + Len(wReady) + Len(wWork) + wDone = WBufs
        BY DEF TypeOK, BuffersConserved
      <3> DEFINE a == Len(wReady)
                 b == Len(wWork)
                 c == Len(wReady')
                 d == Len(wWork')
      <3>2. /\ a \in Nat /\ b \in Nat /\ c \in Nat /\ d \in Nat
            /\ c + d = a + b /\ wAvail + a + b + wDone = WBufs
        BY <1>4, <3>1
      <3> HIDE DEF a, b, c, d
      <3>3. wAvail + c + d + wDone = WBufs
        BY <3>1, <3>2
      <3>. QED  BY <1>4, <3>3 DEF c, d
    <2>. QED  BY <2>1, <2>2 DEF BuffersConserved
  <1>8. WorkingMeansOut'
    BY DEF PollCb, SubmitRead, SubmitWrite, WorkingMeansOut
  <1>9. DoneEmptied'
    BY DEF PollCb, SubmitRead, SubmitWrite, DoneEmptied, TypeOK
  <1>10. ArmedMeansFree' /\ NoStall'
    BY DEF PollCb, SubmitRead, SubmitWrite, ArmedMeansFree, NoStall, TypeOK
  <1>. QED  BY <1>6, <1>7, <1>8, <1>9, <1>10

\* The other steps of the main thread.
LEMMA PollCbErrorIInv == IInv /\ PollCbError => IInv'
  BY DEF IInv, PollCbError, readVars, writeVars, TypeOK, BuffersConserved,
         WorkingMeansOut, DoneEmptied, ArmedMeansFree, NoStall

LEMMA ReadCallbackIInv == IInv /\ ReadCallback => IInv'
  BY DEF IInv, ReadCallback, writeVars, pollVars, TypeOK, Jobs,
         BuffersConserved, WorkingMeansOut, DoneEmptied, ArmedMeansFree, NoStall

LEMMA ReadDoneIInv == IInv /\ ReadDone => IInv'
  <1> SUFFICES ASSUME IInv, ReadDone PROVE IInv'
    OBVIOUS
  <1> USE DEF IInv, ReadDone, writeVars, pollVars
  <1>1. /\ rDone' \in Seq(Frame) /\ Len(rDone') = Len(rDone) - 1
        /\ Len(rDone) \in Nat
    BY HeadTailProperties, LenProperties DEF TypeOK
  <1>2. rWorking
    BY DEF DoneEmptied, TypeOK
  <1>3. TypeOK'
    BY <1>1 DEF TypeOK
  <1>4. BuffersConserved'
    BY <1>1 DEF TypeOK, BuffersConserved
  <1>5. WorkingMeansOut' /\ DoneEmptied' /\ ArmedMeansFree' /\ NoStall'
    BY <1>2 DEF WorkingMeansOut, DoneEmptied, ArmedMeansFree, NoStall
  <1>. QED  BY <1>3, <1>4, <1>5

LEMMA ReadCallbackEndIInv == IInv /\ ReadCallbackEnd => IInv'
  <1> SUFFICES ASSUME IInv, ReadCallbackEnd PROVE IInv'
    OBVIOUS
  <1> USE DEF IInv, ReadCallbackEnd, writeVars, PollStart
  <1>1. /\ armed' \in SUBSET {"R", "W"}
        /\ "R" \in armed'
        /\ "W" \in armed' <=> ~wWorking /\ wReady # <<>>
    BY PollFlagsFacts DEF TypeOK
  <1>2. TypeOK'
    BY <1>1 DEF TypeOK
  <1>3. BuffersConserved'
    BY DEF BuffersConserved
  <1>4. WorkingMeansOut' /\ DoneEmptied' /\ ArmedMeansFree' /\ NoStall'
    BY <1>1 DEF WorkingMeansOut, DoneEmptied, ArmedMeansFree, NoStall
  <1>. QED  BY <1>2, <1>3, <1>4

LEMMA WriteCallbackIInv == IInv /\ WriteCallback => IInv'
  <1> SUFFICES ASSUME IInv, WriteCallback PROVE IInv'
    OBVIOUS
  <1> USE DEF IInv, WriteCallback, readVars, PollStart
  <1>1. /\ armed' \in SUBSET {"R", "W"}
        /\ "R" \in armed' <=> ~rWorking
        /\ "W" \in armed' <=> wReady # <<>>
    BY PollFlagsFacts DEF TypeOK
  <1>2. TypeOK'
    <2>1. wAvail' \in Nat /\ wDone' \in Nat
      BY DEF TypeOK
    <2>3. pollErr' \in BOOLEAN
      BY Zenon
    <2>2. /\ UNCHANGED <<rAvail, rWork, rDone, rWorking, rJob, rCallback>>
          /\ UNCHANGED <<wReady, wWork>>
          /\ wWorking' = FALSE /\ wJob' = "idle"
      OBVIOUS
    <2>. QED  BY <1>1, <2>1, <2>2, <2>3 DEF TypeOK, Jobs
  <1>3. BuffersConserved'
    BY LenProperties DEF TypeOK, BuffersConserved
  <1>4. WorkingMeansOut' /\ DoneEmptied' /\ ArmedMeansFree' /\ NoStall'
    BY <1>1 DEF WorkingMeansOut, DoneEmptied, ArmedMeansFree, NoStall
  <1>. QED  BY <1>2, <1>3, <1>4

LEMMA EnqueueIInv ==
    ASSUME IInv, NEW p \in Packet, Enqueue(p)
    PROVE  IInv'
  <1> USE DEF IInv, Enqueue, readVars, PollStart
  <1>1. /\ wReady' \in Seq(Packet) /\ Len(wReady') = Len(wReady) + 1
        /\ Len(wReady) \in Nat /\ wReady' # <<>>
    BY AppendProperties, LenProperties DEF TypeOK
  <1>2. /\ armed' \in SUBSET {"R", "W"}
        /\ "R" \in armed' <=> ~rWorking
        /\ "W" \in armed' <=> ~wWorking
    BY <1>1, PollFlagsFacts DEF TypeOK
  <1>3. TypeOK'
    <2>1. wAvail' \in Nat
      BY DEF TypeOK
    <2>3. pollErr' \in BOOLEAN
      BY Zenon
    <2>2. /\ UNCHANGED <<rAvail, rWork, rDone, rWorking, rJob, rCallback>>
          /\ UNCHANGED <<wWork, wDone, wWorking, wJob>>
      OBVIOUS
    <2>. QED  BY <1>1, <1>2, <2>1, <2>2, <2>3 DEF TypeOK
  <1>4. BuffersConserved'
    BY <1>1, LenProperties DEF TypeOK, BuffersConserved
  <1>5. WorkingMeansOut' /\ DoneEmptied' /\ ArmedMeansFree' /\ NoStall'
    BY <1>1, <1>2 DEF WorkingMeansOut, DoneEmptied, ArmedMeansFree, NoStall
  <1>. QED  BY <1>3, <1>4, <1>5

\* The steps of the pool threads.
LEMMA ReadEachIInv ==
    ASSUME IInv, NEW f \in Frame, ReadEach(f)
    PROVE  IInv'
  <1> USE DEF IInv, ReadEach, writeVars, pollVars
  <1>1. /\ rDone' \in Seq(Frame) /\ Len(rDone') = Len(rDone) + 1
        /\ Len(rDone) \in Nat
    BY AppendProperties, LenProperties DEF TypeOK
  <1>2. rWorking
    BY DEF WorkingMeansOut
  <1>3. TypeOK'
    BY <1>1 DEF TypeOK
  <1>4. BuffersConserved'
    BY <1>1 DEF TypeOK, BuffersConserved
  <1>5. WorkingMeansOut' /\ DoneEmptied' /\ ArmedMeansFree' /\ NoStall'
    BY <1>2 DEF WorkingMeansOut, DoneEmptied, ArmedMeansFree, NoStall
  <1>. QED  BY <1>3, <1>4, <1>5

LEMMA WriteEachIInv == IInv /\ WriteEach => IInv'
  <1> SUFFICES ASSUME IInv, WriteEach PROVE IInv'
    OBVIOUS
  <1> USE DEF IInv, WriteEach, readVars, pollVars
  <1>1. /\ wWork' \in Seq(Packet) /\ Len(wWork') = Len(wWork) - 1
        /\ Len(wWork) \in Nat
    BY HeadTailProperties, LenProperties DEF TypeOK
  <1>2. wWorking
    BY DEF WorkingMeansOut
  <1>3. TypeOK'
    BY <1>1 DEF TypeOK
  <1>4. BuffersConserved'
    BY <1>1, LenProperties DEF TypeOK, BuffersConserved
  <1>5. WorkingMeansOut' /\ DoneEmptied' /\ ArmedMeansFree' /\ NoStall'
    BY <1>2 DEF WorkingMeansOut, DoneEmptied, ArmedMeansFree, NoStall
  <1>. QED  BY <1>3, <1>4, <1>5

LEMMA ReadStopIInv == IInv /\ ReadStop => IInv'
  BY DEF IInv, ReadStop, writeVars, pollVars, TypeOK, Jobs,
         BuffersConserved, WorkingMeansOut, DoneEmptied, ArmedMeansFree, NoStall

LEMMA WriteStopIInv == IInv /\ WriteStop => IInv'
  BY DEF IInv, WriteStop, readVars, pollVars, TypeOK, Jobs,
         BuffersConserved, WorkingMeansOut, DoneEmptied, ArmedMeansFree, NoStall

LEMMA StutterIInv == IInv /\ UNCHANGED vars => IInv'
  BY DEF IInv, vars, readVars, writeVars, pollVars, TypeOK, BuffersConserved,
         WorkingMeansOut, DoneEmptied, ArmedMeansFree, NoStall

LEMMA NextIInv == IInv /\ [Next]_vars => IInv'
  <1> SUFFICES ASSUME IInv, [Next]_vars PROVE IInv'
    OBVIOUS
  <1>1. CASE MainStep
    BY <1>1, PollCbIInv, PollCbErrorIInv, ReadCallbackIInv, ReadDoneIInv,
       ReadCallbackEndIInv, WriteCallbackIInv, EnqueueIInv DEF MainStep
  <1>2. CASE PoolStep
    BY <1>2, ReadEachIInv, WriteEachIInv, ReadStopIInv, WriteStopIInv DEF PoolStep
  <1>3. CASE UNCHANGED vars
    BY <1>3, StutterIInv
  <1>. QED  BY <1>1, <1>2, <1>3 DEF Next

LEMMA IInvHolds == Spec => []IInv
  <1>. QED  BY InitIInv, NextIInv, PTL DEF Spec

-----------------------------------------------------------------------------
\* Type correctness of a device with any number of buffers.
THEOREM TypeCorrect == Spec => []TypeOK
  <1>1. IInv => TypeOK
    BY DEF IInv
  <1>. QED  BY <1>1, IInvHolds, PTL

\* No interleaving of the main thread with the pool threads, and no failure of
\* _each, loses a buffer or puts it on two queues.
THEOREM NoBufferLost == Spec => []BuffersConserved
  <1>1. IInv => BuffersConserved
    BY DEF IInv
  <1>. QED  BY <1>1, IInvHolds, PTL

\* The uv_work_t of a direction is never submitted while it is in the pool or
\* its callback is running.
THEOREM BatonExclusive == Spec => []BatonNotReused
  <1>1. IInv => BatonNotReused
    BY DEF IInv, WorkingMeansOut, DoneEmptied, ArmedMeansFree, BatonNotReused,
           TypeOK, Jobs
  <1>. QED  BY <1>1, IInvHolds, PTL

\* Without a poll error the device always has an armed event or a job out for
\* the work it holds.
THEOREM NeverStalls == Spec => []NoStall
  <1>1. IInv => NoStall
    BY DEF IInv
  <1>. QED  BY <1>1, IInvHolds, PTL

\* The working flags, which alone keep the two threads apart, are set exactly
\* while a job is out or its callback runs.
THEOREM FlagsTellJobs == Spec => []WorkingMeansOut
  <1>1. IInv => WorkingMeansOut
    BY DEF IInv
  <1>. QED  BY <1>1, IInvHolds, PTL

\* One step of the main thread from a state of the invariant leaves the two
\* queues of a running job alone.
LEMMA MainStepRaceFree ==
    ASSUME IInv, MainStep
    PROVE  /\ rJob = "doing" => UNCHANGED <<rWork, rDone>>
           /\ wJob = "doing" => UNCHANGED <<wWork, wDone>>
  <1> USE DEF IInv
  <1>1. /\ rJob = "doing" => rWorking /\ ~rCallback
        /\ wJob = "doing" => wWorking
    BY DEF WorkingMeansOut
  <1>2. ASSUME NEW ev \in SUBSET {"R", "W"}, PollCb(ev)
        PROVE  /\ rJob = "doing" => UNCHANGED <<rWork, rDone>>
               /\ wJob = "doing" => UNCHANGED <<wWork, wDone>>
    <2>1. /\ rJob = "doing" => "R" \notin ev
          /\ wJob = "doing" => "W" \notin ev
      BY <1>1, <1>2 DEF PollCb, ArmedMeansFree
    <2>. QED  BY <1>2, <2>1 DEF PollCb, SubmitRead, SubmitWrite
  <1>3. CASE PollCbError
    BY <1>3 DEF PollCbError, readVars, writeVars
  <1>4. CASE ReadCallback
    BY <1>4 DEF ReadCallback, writeVars
  <1>5. CASE ReadDone
    BY <1>1, <1>5 DEF ReadDone, writeVars
  <1>6. CASE ReadCallbackEnd
    BY <1>6 DEF ReadCallbackEnd, writeVars
  <1>7. CASE WriteCallback
    BY <1>7 DEF WriteCallback, readVars
  <1>8. ASSUME NEW p \in Packet, Enqueue(p)
        PROVE  /\ rJob = "doing" => UNCHANGED <<rWork, rDone>>
               /\ wJob = "doing" => UNCHANGED <<wWork, wDone>>
    BY <1>8 DEF Enqueue, readVars
  <1>. QED  BY <1>2, <1>3, <1>4, <1>5, <1>6, <1>7, <1>8 DEF MainStep

\* The unlocked work_queue and work_done of a direction belong to the pool
\* thread for as long as it is in async_io_do.
THEOREM QueuesRaceFree == Spec => RaceFree
  <1>1. IInv /\ [Next]_vars =>
          [MainStep => /\ rJob = "doing" => UNCHANGED <<rWork, rDone>>
                       /\ wJob = "doing" => UNCHANGED <<wWork, wDone>>]_vars
    BY MainStepRaceFree
  <1>. QED  BY <1>1, IInvHolds, PTL DEF Spec, RaceFree
=============================================================================
