----------------------------- MODULE ApiServer -----------------------------
(***************************************************************************)
(* The api server of src/src/api.c: connections, the frames a read         *)
(* completes, the dispatch of a request to its handler in src/src/api, and *)
(* the replies.  Callbacks run one at a time on the main thread; one read  *)
(* may complete several frames, handled in a loop.                         *)
(*                                                                         *)
(* A frame is FrameUnits pieces of data, and TCP delivers any number of    *)
(* pieces at a time.  The bframe library is external: it returns the       *)
(* frames a read completes and keeps the rest in the client's buffer.      *)
(* node.add, node.remove and node.list stand for the ip commands too (see  *)
(* Registry) and node.list for status.  Not modelled: failing accepts, the *)
(* shutdown, a request that ends the process (Registry, Lifecycle).        *)
(***************************************************************************)
EXTENDS Naturals, SequencesExt

CONSTANTS
    Client, Item, Command, Silent,
    Asks,          \* bound: Asks[c], the commands c uses
    MaxRequests,   \* bound: MaxRequests[c], the requests of c
    FrameUnits     \* pieces of a frame

ASSUME ClientAssumption == "none" \notin Client
ASSUME RequestsAssumption == MaxRequests \in [Client -> Nat] /\ FrameUnits \in Nat \ {0}

VARIABLES
    conn,          \* conn[c]: the connection of c, see ConnStates
    sent,          \* sent[c]: the requests c began to send
    unsent,        \* unsent[c]: pieces of the last one it has not sent
    wire,          \* wire[c]: pieces sent and not read
    buf,           \* buf[c]: pieces in client->buf
    reading,       \* the client whose on_read runs, or "none"
    framec,        \* frames its loop has still to handle
    taken,         \* taken[c]: requests of c that were handled
    nodes,         \* server.nodes
    writes,        \* writes[c]: responses uv_write has queued
    got,           \* got[c]: responses c has received
    said           \* history: said[c], the responses to c

vars == <<conn, sent, unsent, wire, buf, reading, framec, taken, nodes, writes, got, said>>

\* What a request without a node, or one that is not text, is read as.
NoItem == "no item"

Promise == INSTANCE AtomicApi WITH members <- nodes

ASSUME CommandAssumption ==
    /\ Command \subseteq Promise!Commands /\ Silent \subseteq Command
    /\ Asks \in [Client -> SUBSET Command]
    /\ NoItem \notin Item

Init ==
    /\ Promise!Init
    /\ conn = [c \in Client |-> "new"]
    /\ unsent = [c \in Client |-> 0]
    /\ wire = [c \in Client |-> 0]
    /\ buf = [c \in Client |-> 0]
    /\ reading = "none" /\ framec = 0
    /\ writes = [c \in Client |-> <<>>]
    /\ got = [c \in Client |-> <<>>]

\* "closed" by the client; "gone": on_read has freed the client.
ConnStates == {"new", "open", "closed", "gone"}

----------------------------------------------------------------------------
(* The clients.                                                            *)

\* A client does not wait for a response before the next request.
Send(c, r) ==
    /\ conn[c] = "open" /\ unsent[c] = 0
    /\ Len(sent[c]) < MaxRequests[c]
    /\ sent' = [sent EXCEPT ![c] = Append(@, r)]
    /\ unsent' = [unsent EXCEPT ![c] = FrameUnits]
    /\ UNCHANGED <<conn, wire, buf, reading, framec, taken, nodes, writes, got, said>>

SendUnit(c) ==
    /\ conn[c] = "open" /\ unsent[c] > 0
    /\ unsent' = [unsent EXCEPT ![c] = @ - 1]
    /\ wire' = [wire EXCEPT ![c] = @ + 1]
    /\ UNCHANGED <<conn, sent, buf, reading, framec, taken, nodes, writes, got, said>>

HangUp(c) ==
    /\ conn[c] = "open"
    /\ conn' = [conn EXCEPT ![c] = "closed"]
    /\ UNCHANGED <<sent, unsent, wire, buf, reading, framec, taken, nodes, writes, got, said>>

\* libuv and the kernel bring the next response to the client.
Flush(c) ==
    /\ conn[c] = "open" /\ writes[c] # <<>>
    /\ got' = [got EXCEPT ![c] = Append(@, Head(writes[c]))]
    /\ writes' = [writes EXCEPT ![c] = Tail(@)]
    /\ UNCHANGED <<conn, sent, unsent, wire, buf, reading, framec, taken, nodes, said>>

----------------------------------------------------------------------------
(* The main thread.                                                        *)

MainFree == reading = "none"

OnConnect(c) ==
    /\ MainFree /\ conn[c] = "new"
    /\ conn' = [conn EXCEPT ![c] = "open"]
    /\ UNCHANGED <<sent, unsent, wire, buf, reading, framec, taken, nodes, writes, got, said>>

\* Variant with a bug, for the mutants of PROJECT.json: pieces that complete
\* no frame are dropped instead of kept in client->buf.
OnReadDropsRest(c, n) ==
    /\ MainFree /\ conn[c] \in {"open", "closed"}
    /\ n <= wire[c]
    /\ wire' = [wire EXCEPT ![c] = @ - n]
    /\ reading' = c /\ framec' = n \div FrameUnits
    /\ UNCHANGED <<conn, sent, unsent, buf, taken, nodes, writes, got, said>>

\* on_read with n > 0 pieces, up to its loop over the frames.
OnRead(c, n) ==
    /\ MainFree /\ conn[c] \in {"open", "closed"}
    /\ n <= wire[c]
    /\ wire' = [wire EXCEPT ![c] = @ - n]
    /\ buf' = [buf EXCEPT ![c] = (@ + n) % FrameUnits]
    /\ reading' = c /\ framec' = (buf[c] + n) \div FrameUnits
    /\ UNCHANGED <<conn, sent, unsent, taken, nodes, writes, got, said>>

\* reply; the response to a client that hung up is never received.
Reply(c, res) ==
    /\ writes' = [writes EXCEPT ![c] = Append(@, res)]
    /\ said' = [said EXCEPT ![c] = Append(@, res)]

Respond(c, id, outcome, data) ==
    Reply(c, [id |-> id, outcome |-> outcome, data |-> data])

\* validate_node only looks for the value.
Valid(n) == n # NoItem

ReplySuccess(c, id) == Respond(c, id, "success", <<>>)
ReplyError(c, id)   == Respond(c, id, "error", <<>>)

\* The handlers; handle_node_remove replies success for an unknown node too.
HandleNodeAdd(c, id, n) ==
    \/ /\ Valid(n)
       /\ nodes' = IF Contains(nodes, n) THEN nodes ELSE Append(nodes, n)
       /\ ReplySuccess(c, id)
    \/ ~Valid(n) /\ ReplyError(c, id) /\ UNCHANGED nodes

\* Variant with a bug: only a node that was on the list gets its reply.
HandleNodeRemoveKnown(c, id, n) ==
    \/ /\ Valid(n)
       /\ nodes' = RemoveFirst(nodes, n)
       /\ IF Contains(nodes, n) THEN ReplySuccess(c, id) ELSE UNCHANGED <<writes, said>>
    \/ ~Valid(n) /\ ReplyError(c, id) /\ UNCHANGED nodes

HandleNodeRemove(c, id, n) ==
    \/ /\ Valid(n)
       /\ nodes' = RemoveFirst(nodes, n)
       /\ ReplySuccess(c, id)
    \/ ~Valid(n) /\ ReplyError(c, id) /\ UNCHANGED nodes

\* Variant with a bug: the list is packed for the client that asked first.
HandleNodeListStale(c, id) ==
    /\ Respond(c, id, "list", IF id = 1 THEN nodes ELSE <<>>)
    /\ UNCHANGED nodes

HandleNodeList(c, id) == Respond(c, id, "list", nodes) /\ UNCHANGED nodes

HandlePing(c, id) == Respond(c, id, "echo", <<>>) /\ UNCHANGED nodes

\* Any other command is logged.
HandleUnknownCommand == UNCHANGED <<nodes, writes, said>>

\* parse_request: the next frame of the loop in on_read.
ParseRequest ==
    /\ framec > 0
    /\ framec' = framec - 1
    /\ LET c  == reading
           id == taken[c] + 1
           r  == sent[c][id] IN
       /\ taken' = [taken EXCEPT ![c] = id]
       /\ CASE r.cmd = "node.add"    -> HandleNodeAdd(c, id, r.item)
            [] r.cmd = "node.remove" -> HandleNodeRemove(c, id, r.item)
            [] r.cmd = "node.list"   -> HandleNodeList(c, id)
            [] r.cmd = "ping"        -> HandlePing(c, id)
            [] OTHER                 -> HandleUnknownCommand
    /\ UNCHANGED <<conn, sent, unsent, wire, buf, reading, got>>

\* Variant with a bug: only the first frame of a read is handled.
OnReadEndEarly ==
    /\ reading # "none"
    /\ framec < 2
    /\ reading' = "none" /\ framec' = 0
    /\ UNCHANGED <<conn, sent, unsent, wire, buf, taken, nodes, writes, got, said>>

OnReadEnd ==
    /\ reading # "none" /\ framec = 0
    /\ reading' = "none"
    /\ UNCHANGED <<conn, sent, unsent, wire, buf, framec, taken, nodes, writes, got, said>>

\* on_read with nread < 0, when all that came before was read.
OnReadEof(c) ==
    /\ MainFree
    /\ conn[c] = "closed" /\ wire[c] = 0
    /\ conn' = [conn EXCEPT ![c] = "gone"]
    /\ buf' = [buf EXCEPT ![c] = 0]
    /\ writes' = [writes EXCEPT ![c] = <<>>]
    /\ UNCHANGED <<sent, unsent, wire, reading, framec, taken, nodes, got, said>>

Read(c) == \E n \in 1..(MaxRequests[c] * FrameUnits) : OnRead(c, n)

Next ==
    \/ \E c \in Client :
          \/ \E r \in Asks[c] : Send(c, r)
          \/ SendUnit(c) \/ HangUp(c) \/ Flush(c)
          \/ OnConnect(c) \/ Read(c) \/ OnReadEof(c)
    \/ ParseRequest \/ OnReadEnd

\* The loop runs callbacks to their end, reads what has arrived on every
\* connection and writes while the peer accepts; a client finishes the frame
\* it began unless it hangs up.
Fairness ==
    /\ WF_vars(ParseRequest) /\ WF_vars(OnReadEnd)
    /\ \A c \in Client : SF_vars(Read(c)) /\ WF_vars(Flush(c)) /\ WF_vars(SendUnit(c))

Spec == Init /\ [][Next]_vars /\ Fairness

----------------------------------------------------------------------------
(* Properties.                                                             *)

Outcomes == {"success", "error", "list", "echo"}
Responses == [id : Nat, outcome : Outcomes, data : Seq(Item)]

TypeOK ==
    /\ conn \in [Client -> ConnStates]
    /\ sent \in [Client -> Seq(Command)]
    /\ unsent \in [Client -> Nat] /\ wire \in [Client -> Nat]
    /\ buf \in [Client -> 0..(FrameUnits - 1)]
    /\ reading \in Client \cup {"none"} /\ framec \in Nat
    /\ taken \in [Client -> Nat] /\ nodes \in Seq(Item)
    /\ writes \in [Client -> Seq(Responses)]
    /\ got \in [Client -> Seq(Responses)]
    /\ said \in [Client -> Seq(Responses)]

\* log answers requests of c that were handled: each response says what its
\* request calls for, they come in the order of the requests, none twice, and
\* only a silent request is passed over.
Answers(c, log) ==
    /\ \A k \in DOMAIN log :
          /\ log[k].id \in 1..taken[c]
          /\ sent[c][log[k].id] \notin Silent
          /\ log[k].outcome = Promise!Outcome(sent[c][log[k].id])
    /\ \A j, k \in DOMAIN log : j < k => log[j].id < log[k].id
    /\ \A k \in DOMAIN log : \A i \in 1..log[k].id :
          sent[c][i] \in Silent \/ \E j \in DOMAIN log : log[j].id = i

\* What a client has received and what is queued for it answers its own
\* requests, in their order and each once, with an error for exactly those
\* that name no node; until the client is gone no request that was handled
\* lacks its answer.
RepliesInOrder ==
    \A c \in Client :
        /\ Answers(c, got[c] \o writes[c])
        /\ conn[c] # "gone" =>
              \A i \in 1..taken[c] : sent[c][i] \in Silent
                  \/ \E k \in DOMAIN (got[c] \o writes[c]) : (got[c] \o writes[c])[k].id = i

\* However requests are cut and joined on the way, those handled and in hand
\* are the ones sent in full and read: the next frame is always the next
\* request.
FramesInStep ==
    \A c \in Client :
        conn[c] # "gone" =>
            FrameUnits * (taken[c] + IF reading = c THEN framec ELSE 0)
                + buf[c] + wire[c] + unsent[c]
            = FrameUnits * Len(sent[c])

\* All clients see one list: every command takes effect at one moment between
\* its sending and its response, in the order each client sent them.
Atomic == Promise!Spec

\* A request that a client begins, and stays to hear about, is answered,
\* unless its command is one of the Silent ones.
Answered ==
    \A c \in Client : \A i \in 1..MaxRequests[c] :
        Len(sent[c]) >= i /\ sent[c][i] \notin Silent /\ conn[c] = "open"
            ~> (\E k \in DOMAIN got[c] : got[c][k].id = i) \/ conn[c] # "open"
=============================================================================
