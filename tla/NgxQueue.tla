------------------------------ MODULE NgxQueue ------------------------------
(***************************************************************************)
(* The queue helper of src/src/helper.c.  An ngx_queue_t is an intrusive   *)
(* doubly linked ring; it is modelled by the sequence of its elements from *)
(* head to tail.                                                           *)
(*                                                                         *)
(* ngx_empty_into(from, to, limit) moves elements one at a time: it takes  *)
(* the LAST element of from and inserts it at the HEAD of to, until from   *)
(* is empty or limit elements were moved (a negative limit never ends the  *)
(* loop).  The moved elements keep their order, they come out in front of  *)
(* what to held, and when from is longer than the limit it is its newest   *)
(* elements that move.                                                     *)
(***************************************************************************)
EXTENDS Integers, Sequences

\* How many elements one call moves.
Moved(from, limit) ==
    IF limit < 0 \/ Len(from) < limit THEN Len(from) ELSE limit

\* What is left in from after the call.
EmptyFrom(from, limit) == SubSeq(from, 1, Len(from) - Moved(from, limit))

\* What to holds after the call.
EmptyTo(from, to, limit) ==
    SubSeq(from, Len(from) - Moved(from, limit) + 1, Len(from)) \o to
=============================================================================
