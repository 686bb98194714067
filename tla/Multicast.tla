------------------------------ MODULE Multicast ------------------------------
(***************************************************************************)
(* What redd promises about multicast traffic, whatever its queues and     *)
(* threads: every frame it takes in is owed once to each node of the list  *)
(* at that moment; a copy that is owed is sent at most once or given up,   *)
(* and nothing is sent that is not owed.                                   *)
(***************************************************************************)
EXTENDS Integers

CONSTANTS Node,        \* the hosts that can be in the list
          FrameId      \* identifies the frames in order of arrival

VARIABLES members,     \* the nodes in the list
          taken,       \* the frames taken in
          outstanding, \* the copies that are owed
          sent         \* the copies that were sent

vars == <<members, taken, outstanding, sent>>

Copy == [node : Node, id : FrameId]

Init ==
    /\ members \in SUBSET Node
    /\ taken = {} /\ outstanding = {} /\ sent = {}

Join(n) ==
    /\ n \notin members
    /\ members' = members \union {n}
    /\ UNCHANGED <<taken, outstanding, sent>>

Leave(n) ==
    /\ n \in members
    /\ members' = members \ {n}
    /\ UNCHANGED <<taken, outstanding, sent>>

\* Frame id is taken in and owed to every member.
Take(id) ==
    /\ id \notin taken
    /\ taken' = taken \union {id}
    /\ outstanding' = outstanding \union {[node |-> n, id |-> id] : n \in members}
    /\ UNCHANGED <<members, sent>>

Transmit(c) ==
    /\ c \in outstanding
    /\ outstanding' = outstanding \ {c}
    /\ sent' = sent \union {c}
    /\ UNCHANGED <<members, taken>>

GiveUp(c) ==
    /\ c \in outstanding
    /\ outstanding' = outstanding \ {c}
    /\ UNCHANGED <<members, taken, sent>>

Next ==
    \/ \E n \in Node : Join(n) \/ Leave(n)
    \/ \E id \in FrameId : Take(id)
    \/ \E c \in Copy : Transmit(c) \/ GiveUp(c)

Spec == Init /\ [][Next]_vars
=============================================================================
