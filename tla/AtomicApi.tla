----------------------------- MODULE AtomicApi -----------------------------
(***************************************************************************)
(* What the api promises its clients, without connections, frames and      *)
(* buffers: each command takes effect at one moment, a client's commands   *)
(* in the order it sent them, and the response says what the list was at   *)
(* that moment.                                                            *)
(***************************************************************************)
EXTENDS Naturals, SequencesExt

CONSTANTS
    Client,
    Item,          \* members of the list
    NoItem,        \* what a request for a change holds when it names none
    Command,       \* the commands a client may send, see Commands
    Silent         \* the commands that get no response

Commands ==
    [cmd : {"node.add", "node.remove"}, item : Item \cup {NoItem}] \cup
    [cmd : {"node.list", "ping", "run"}, item : {NoItem}]

VARIABLES
    members,       \* the list
    sent,          \* sent[c]: the commands of c
    taken,         \* taken[c]: how many of them have taken effect
    said           \* said[c]: the responses to those

vars == <<members, sent, taken, said>>

Init ==
    /\ members = <<>>
    /\ sent = [c \in Client |-> <<>>]
    /\ taken = [c \in Client |-> 0]
    /\ said = [c \in Client |-> <<>>]

\* The list without x, which is on it once.
Without(list, x) ==
    RemoveAt(list, CHOOSE i \in DOMAIN list : \A j \in DOMAIN list : list[j] = x <=> j = i)

\* What a response to a command says.
Outcome(r) ==
    CASE r.cmd = "node.list" -> "list"
      [] r.cmd = "ping"      -> "echo"
      [] OTHER               -> IF r.item = NoItem THEN "error" ELSE "success"

\* The list after a command, and the response to it.
Effect(list, r) ==
    CASE r.cmd = "node.add" /\ r.item # NoItem /\ ~Contains(list, r.item) ->
            Append(list, r.item)
      [] r.cmd = "node.remove" /\ Contains(list, r.item) -> Without(list, r.item)
      [] OTHER -> list

Response(list, r, id) ==
    [id |-> id, outcome |-> Outcome(r), data |-> IF r.cmd = "node.list" THEN list ELSE <<>>]

Send(c, r) ==
    /\ sent' = [sent EXCEPT ![c] = Append(@, r)]
    /\ UNCHANGED <<members, taken, said>>

Take(c) ==
    LET id == taken[c] + 1
        r  == sent[c][id] IN
    /\ id <= Len(sent[c])
    /\ members' = Effect(members, r)
    /\ taken' = [taken EXCEPT ![c] = id]
    /\ said' = IF r \in Silent THEN said
               ELSE [said EXCEPT ![c] = Append(@, Response(members, r, id))]
    /\ UNCHANGED sent

Next == \E c \in Client : Take(c) \/ \E r \in Command : Send(c, r)

Spec == Init /\ [][Next]_vars
=============================================================================
