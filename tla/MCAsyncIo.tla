------------------------------ MODULE MCAsyncIo ------------------------------
(* One device with one frame and two packets: enough buffers for leftovers  *)
(* of a failed job, packets that queue up behind them, and a ready_queue    *)
(* longer than a batch.                                                     *)
EXTENDS AsyncIo
=============================================================================
