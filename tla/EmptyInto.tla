------------------------------ MODULE EmptyInto ------------------------------
(***************************************************************************)
(* The loop of ngx_empty_into (src/src/helper.c), one action per           *)
(* iteration, against the closed form that NgxQueue gives and that the     *)
(* models of the devices use.                                              *)
(***************************************************************************)
EXTENDS NgxQueue

CONSTANTS Elem,      \* queue elements
          MaxLen,    \* bound on the length of the queues passed in
          Limits     \* the limits passed in

ASSUME LimitsAssumption == Limits \subseteq Int
ASSUME MaxLenAssumption == MaxLen \in Nat

VARIABLES from, to, limit,     \* the function's parameters as the loop changes them
          from0, to0, limit0,  \* the arguments of the call
          pc                   \* "loop" or "done"

vars == <<from, to, limit, from0, to0, limit0, pc>>

Queues == UNION {[1..n -> Elem] : n \in 0..MaxLen}

Init ==
    /\ from0 \in Queues /\ to0 \in Queues /\ limit0 \in Limits
    /\ from = from0 /\ to = to0 /\ limit = limit0
    /\ pc = "loop"

\* Variant with a bug, for the mutants of PROJECT.json: the limit is
\* decremented before it is tested.
ReturnPreDecrement ==
    /\ pc = "loop"
    /\ from = <<>> \/ limit = 1
    /\ pc' = "done"
    /\ UNCHANGED <<from, to, limit, from0, to0, limit0>>

\* !ngx_queue_empty(from) && limit-- != 0, then the body.
Iterate ==
    /\ pc = "loop"
    /\ from # <<>> /\ limit # 0
    /\ limit' = limit - 1
    /\ from' = SubSeq(from, 1, Len(from) - 1)
    /\ to' = <<from[Len(from)]>> \o to
    /\ UNCHANGED <<from0, to0, limit0, pc>>

Return ==
    /\ pc = "loop"
    /\ from = <<>> \/ limit = 0
    /\ pc' = "done"
    /\ UNCHANGED <<from, to, limit, from0, to0, limit0>>

Next == Iterate \/ Return

Spec == Init /\ [][Next]_vars

TypeOK ==
    /\ from \in Seq(Elem) /\ to \in Seq(Elem) /\ limit \in Int
    /\ from0 \in Seq(Elem) /\ to0 \in Seq(Elem) /\ limit0 \in Int
    /\ pc \in {"loop", "done"}

\* The loop is left only when one of its two conditions fails.
ReturnMeansEnded == pc = "done" => from = <<>> \/ limit = 0

\* Finishing the loop from here gives what the whole call gives.
LoopInvariant ==
    /\ EmptyFrom(from, limit) = EmptyFrom(from0, limit0)
    /\ EmptyTo(from, to, limit) = EmptyTo(from0, to0, limit0)

\* When ngx_empty_into (helper.c:96) returns, its queues are the closed form
\* EmptyFrom / EmptyTo of its arguments.
Correct ==
    pc = "done" => /\ from = EmptyFrom(from0, limit0)
                   /\ to = EmptyTo(from0, to0, limit0)
=============================================================================
