------------------------------ MODULE Registry ------------------------------
(***************************************************************************)
(* The two lists redd keeps, server.ips (src/src/ip.c) and server.nodes    *)
(* (src/src/node.c), with everything that holds a copy of them: the        *)
(* addresses on the vxlan link, and the files "ips" and "nodes" under      *)
(* save_path (src/src/helper.c).  The handlers of ip.add, ip.remove,       *)
(* node.add and node.remove (src/src/api) run to the end on the main       *)
(* thread, so only a death of the process falls between their steps.       *)
(* ip.list, node.list, status and ping change nothing and are left out.    *)
(*                                                                         *)
(* Not modelled: out of memory; a write the kernel had not put on disk     *)
(* when the host went down; addresses changed on the link by others; a     *)
(* configuration that changes between two starts; two texts that name the  *)
(* same address to the kernel.                                             *)
(***************************************************************************)
EXTENDS Naturals, SequencesExt

CONSTANTS
    Ip, Node,      \* texts a request may carry
    Matches,       \* <<a, b>>: grep b matches the line `ip addr show` prints for a;
                   \* an upper-case or uncompressed IPv6 text may miss its own
    MaxFaults,     \* bound: commands and file operations that fail
    MaxCrashes     \* bound: times the process is killed

ASSUME MatchesAssumption == Matches \subseteq Ip \X Ip
ASSUME BoundsAssumption == MaxFaults \in Nat /\ MaxCrashes \in Nat
VARIABLES
    pc,        \* where the main thread is, see Points
    req,       \* the request being handled
    ips,       \* server.ips, from head to tail
    nodes,     \* server.nodes
    todo,      \* what load_data has unpacked and not yet added
    routing,   \* server.routing_enabled
    linkUp,    \* whether the vxlan link exists
    link,      \* the addresses on it
    dir,       \* whether save_path exists
    file,      \* whether each of the two files is there, and whole
    saved,     \* the list in it, <<>> unless it is whole
    faults, crashes,
    acked      \* history: entries whose addition was the last thing the api
               \* confirmed, and no death has been in a position to lose

store == <<routing, linkUp, link, dir, file, saved>>
vars  == <<pc, req, ips, nodes, todo, store, faults, crashes, acked>>

Kinds  == {"ips", "nodes"}
\* A torn file is empty, or holds the beginning of what was to be written.
FileStates == {"none", "torn", "whole"}
NoValue == "no value"  \* a map without the key ip_address, or node
NoMap   == "no map"    \* msgpack data of another type
NoRequest == [op |-> "none", arg |-> NoValue]

ASSUME KindsAssumption ==
    Ip \cap Node = {} /\ {NoValue, NoMap} \cap (Ip \cup Node) = {}

Requests ==
    [op : {"ip.add", "ip.remove"}, arg : Ip \cup {NoValue, NoMap}] \cup
    [op : {"node.add", "node.remove"}, arg : Node \cup {NoValue, NoMap}]
Points ==
    {"down", "open ips", "load ips", "open nodes", "load nodes", "idle",
     "apply", "reply", "error", "open", "write"}

Up == pc # "down"
KindOf(r) == IF r.op \in {"ip.add", "ip.remove"} THEN "ips" ELSE "nodes"
ListOf(kind) == IF kind = "ips" THEN ips ELSE nodes

\* One command or file operation fails.
Fault == faults < MaxFaults /\ faults' = faults + 1

\* The first start on a host: save_path may have been made by the package.
Init ==
    /\ pc = "down" /\ req = NoRequest
    /\ ips = <<>> /\ nodes = <<>> /\ todo = <<>>
    /\ routing \in BOOLEAN /\ linkUp = FALSE /\ link = {}
    /\ dir \in BOOLEAN /\ file = [k \in Kinds |-> "none"]
    /\ saved = [k \in Kinds |-> <<>>]
    /\ faults = 0 /\ crashes = 0 /\ acked = {}

----------------------------------------------------------------------------
(* The lists and the link.                                                 *)

HasIp(a) == \E b \in link : <<b, a>> \in Matches

\* vxlan_has_ip greps for the text of the address; when the command cannot
\* be run the answer is no.  f is the number of faults after the command.
VxlanHasIp(a, has, f) ==
    \/ has = HasIp(a) /\ f = faults
    \/ has = FALSE /\ f = faults + 1

\* The exit status of a command that can succeed or not, after f faults.
Exits(can, ok, f) ==
    /\ faults' \in 0..MaxFaults
    /\ \/ ok = can /\ faults' = f
       \/ can /\ ~ok /\ faults' = f + 1

\* Variant with a bug, for the mutants of PROJECT.json: the status of the
\* command is ignored.
AddRedIpUnchecked(a, ok) ==
    IF Contains(ips, a)
    THEN ok /\ UNCHANGED <<ips, link, faults>>
    ELSE \E has \in BOOLEAN, f \in 0..MaxFaults :
         /\ VxlanHasIp(a, has, f)
         /\ IF has THEN ok /\ link' = link /\ faults' = f
            ELSE /\ Exits(linkUp /\ a \notin link, ok, f)
                 /\ link' = IF ok THEN link \cup {a} ELSE link
         /\ ips' = Append(ips, a)

\* add_red_ip, which returned 0 (ok) or not.
AddRedIp(a, ok) ==
    IF Contains(ips, a)
    THEN ok /\ UNCHANGED <<ips, link, faults>>
    ELSE \E has \in BOOLEAN, f \in 0..MaxFaults :
         /\ VxlanHasIp(a, has, f)
         /\ IF has THEN ok /\ link' = link /\ faults' = f
            ELSE /\ Exits(linkUp /\ a \notin link, ok, f)
                 /\ link' = IF ok THEN link \cup {a} ELSE link
         /\ ips' = IF ok THEN Append(ips, a) ELSE ips

\* Variant with a bug: the result of grep is read the wrong way round.
RemoveRedIpInverted(a, ok) ==
    IF ~Contains(ips, a)
    THEN ok /\ UNCHANGED <<ips, link, faults>>
    ELSE \E has \in BOOLEAN, f \in 0..MaxFaults :
         /\ VxlanHasIp(a, has, f)
         /\ IF has THEN ok /\ link' = link /\ faults' = f
            ELSE /\ Exits(a \in link, ok, f)
                 /\ link' = IF ok THEN link \ {a} ELSE link
         /\ ips' = RemoveFirst(ips, a)

\* remove_red_ip: the entry goes before the command runs, and stays away
\* when it fails.
RemoveRedIp(a, ok) ==
    IF ~Contains(ips, a)
    THEN ok /\ UNCHANGED <<ips, link, faults>>
    ELSE \E has \in BOOLEAN, f \in 0..MaxFaults :
         /\ VxlanHasIp(a, has, f)
         /\ IF ~has THEN ok /\ link' = link /\ faults' = f
            ELSE /\ Exits(a \in link, ok, f)
                 /\ link' = IF ok THEN link \ {a} ELSE link
         /\ ips' = RemoveFirst(ips, a)

\* Variants with a bug: the node goes to the head; no search comes first.
AddRedNodeHead(n) ==
    nodes' = IF Contains(nodes, n) THEN nodes ELSE <<n>> \o nodes
AddRedNodeAgain(n) == Len(nodes) < 3 /\ nodes' = Append(nodes, n)

AddRedNode(n) ==
    nodes' = IF Contains(nodes, n) THEN nodes ELSE Append(nodes, n)

RemoveRedNode(n) == nodes' = RemoveFirst(nodes, n)

----------------------------------------------------------------------------
(* Starting: init_routing, then load_ips and load_nodes.                   *)

\* init_vxlan leaves a link it finds, with its addresses.  With
\* routing_enabled = no there is no link, and the lists are loaded as ever.
Start ==
    /\ pc = "down"
    /\ \/ linkUp' = routing /\ UNCHANGED faults
       \/ routing /\ ~linkUp /\ linkUp' = FALSE /\ Fault
    /\ pc' = "open ips"
    /\ UNCHANGED <<routing, req, ips, nodes, todo, link, dir, file, saved, crashes, acked>>

\* get_save_file_path when save_path does not exist: NULL when mkdir works,
\* and the path of a file that cannot be opened when it does not.
MakeSavePath ==
    /\ ~dir
    /\ \/ dir' = TRUE /\ UNCHANGED faults
       \/ dir' = FALSE /\ Fault

\* The process is gone; what it held in memory with it.
Dies ==
    /\ pc' = "down" /\ req' = NoRequest
    /\ ips' = <<>> /\ nodes' = <<>> /\ todo' = <<>>
    /\ UNCHANGED store

\* What unpack_function is handed: nothing when the file is torn or cannot
\* be read, or the directory had to be made.
Unpack(kind, list) ==
    \/ dir /\ todo' = list /\ UNCHANGED <<dir, faults>>
    \/ dir /\ file[kind] # "none" /\ todo' = <<>> /\ Fault /\ UNCHANGED dir
    \/ MakeSavePath /\ todo' = <<>>

\* Variant with a bug, for the mutants of PROJECT.json: the loop over the
\* array stops one short.
OpenFileShort(kind, opening, loading) ==
    /\ pc = opening
    /\ Unpack(kind, SubSeq(saved[kind], 1, Len(saved[kind]) - 1))
    /\ pc' = loading
    /\ UNCHANGED <<routing, req, ips, nodes, linkUp, link, file, saved, crashes, acked>>

\* load_data up to the call of unpack_function.  A torn file leaves
\* `deserialized` uninitialized: it is taken for no map, or for a map
\* anywhere in memory.
OpenFile(kind, opening, loading) ==
    /\ pc = opening
    /\ \/ /\ Unpack(kind, saved[kind])
          /\ pc' = loading
          /\ UNCHANGED <<req, ips, nodes, linkUp, link, file, saved>>
       \/ dir /\ file[kind] = "torn" /\ Dies /\ UNCHANGED faults
    /\ UNCHANGED <<routing, crashes, acked>>

OpenIps   == OpenFile("ips", "open ips", "load ips")
OpenNodes == OpenFile("nodes", "open nodes", "load nodes")

\* unpack_ips ignores what add_red_ip returns.
LoadIp ==
    /\ pc = "load ips" /\ todo # <<>>
    /\ \E ok \in BOOLEAN : AddRedIp(Head(todo), ok)
    /\ todo' = Tail(todo)
    /\ UNCHANGED <<routing, pc, req, nodes, linkUp, dir, file, saved, crashes, acked>>

LoadNode ==
    /\ pc = "load nodes" /\ todo # <<>>
    /\ AddRedNode(Head(todo))
    /\ todo' = Tail(todo)
    /\ UNCHANGED <<pc, req, ips, store, faults, crashes, acked>>

Loaded ==
    /\ pc \in {"load ips", "load nodes"} /\ todo = <<>>
    /\ pc' = IF pc = "load ips" THEN "open nodes" ELSE "idle"
    /\ UNCHANGED <<req, ips, nodes, todo, store, faults, crashes, acked>>

----------------------------------------------------------------------------
(* A request.                                                              *)

Receive(r) ==
    /\ pc = "idle"
    /\ req' = r /\ pc' = "apply"
    /\ acked' = IF r.op \in {"ip.remove", "node.remove"} THEN acked \ {r.arg} ELSE acked
    /\ UNCHANGED <<ips, nodes, todo, store, faults, crashes>>

\* validate_ip and validate_node only look for the value.
Invalid ==
    /\ pc = "apply" /\ req.arg = NoValue
    /\ pc' = "error"
    /\ UNCHANGED <<req, ips, nodes, todo, store, faults, crashes, acked>>

\* unpack_ip returned NULL: free_ip reads through it.
InvalidNull ==
    /\ pc = "apply" /\ req.arg = NoMap
    /\ Dies
    /\ UNCHANGED <<faults, crashes, acked>>

ApplyIp ==
    /\ pc = "apply" /\ req.arg \in Ip
    /\ \E ok \in BOOLEAN :
       /\ IF req.op = "ip.add" THEN AddRedIp(req.arg, ok) ELSE RemoveRedIp(req.arg, ok)
       /\ pc' = IF ok THEN "reply" ELSE "error"
    /\ UNCHANGED <<routing, req, nodes, todo, linkUp, dir, file, saved, crashes, acked>>

ApplyNode ==
    /\ pc = "apply" /\ req.arg \in Node
    /\ IF req.op = "node.add" THEN AddRedNode(req.arg) ELSE RemoveRedNode(req.arg)
    /\ pc' = "reply"
    /\ UNCHANGED <<req, ips, todo, store, faults, crashes, acked>>

Finish == pc' = "idle" /\ req' = NoRequest

ReplyError ==
    /\ pc = "error"
    /\ Finish
    /\ UNCHANGED <<ips, nodes, todo, store, faults, crashes, acked>>

\* uv_write sends at once when it can, before the list is saved.
ReplySuccess ==
    /\ pc = "reply"
    /\ pc' = "open"
    /\ acked' = IF req.op \in {"ip.add", "node.add"} THEN acked \cup {req.arg} ELSE acked
    /\ UNCHANGED <<req, ips, nodes, todo, store, faults, crashes>>

----------------------------------------------------------------------------
(* save_data, of the list that the request changed.                        *)

\* fopen truncates the file.  Nothing is saved when it fails, nor when the
\* directory had to be made.
SaveOpen ==
    /\ pc = "open"
    /\ \/ /\ dir /\ file' = [file EXCEPT ![KindOf(req)] = "torn"]
          /\ saved' = [saved EXCEPT ![KindOf(req)] = <<>>]
          /\ pc' = "write" /\ UNCHANGED <<req, dir, faults>>
       \/ dir /\ Fault /\ Finish /\ UNCHANGED <<dir, file, saved>>
       \/ MakeSavePath /\ Finish /\ UNCHANGED <<file, saved>>
    /\ UNCHANGED <<routing, ips, nodes, todo, linkUp, link, crashes, acked>>

\* fwrite and fclose; a short write is logged and stays.
SaveWrite ==
    /\ pc = "write"
    /\ \/ /\ file' = [file EXCEPT ![KindOf(req)] = "whole"]
          /\ saved' = [saved EXCEPT ![KindOf(req)] = ListOf(KindOf(req))]
          /\ UNCHANGED faults
       \/ Fault /\ UNCHANGED <<file, saved>>
    /\ Finish
    /\ UNCHANGED <<routing, ips, nodes, todo, linkUp, link, dir, crashes, acked>>

----------------------------------------------------------------------------
(* The ends of the process.                                                *)

\* What a death at this point may lose of what was confirmed: the request
\* in progress, and between fopen and fwrite the whole list.
AtRisk ==
    CASE pc = "open"  -> {req.arg}
      [] pc = "write" -> IF KindOf(req) = "ips" THEN Ip ELSE Node
      [] OTHER        -> {}

\* Killed: the link and its addresses stay.
Crash ==
    /\ Up /\ crashes < MaxCrashes
    /\ crashes' = crashes + 1
    /\ Dies
    /\ acked' = acked \ AtRisk
    /\ UNCHANGED faults

\* Variant with a bug: the addresses are believed to outlive the link.
StopKeepsAddresses ==
    /\ pc = "idle"
    /\ pc' = "down" /\ ips' = <<>> /\ nodes' = <<>>
    /\ linkUp' = FALSE
    /\ UNCHANGED <<routing, req, todo, link, dir, file, saved, faults, crashes, acked>>

\* The signal handler, between requests: shutdown_vxlan deletes the link.
\* Without routing there is none to delete.
Stop ==
    /\ pc = "idle"
    /\ pc' = "down" /\ ips' = <<>> /\ nodes' = <<>>
    /\ \/ linkUp' = FALSE /\ link' = {} /\ UNCHANGED faults
       \/ linkUp /\ Fault /\ UNCHANGED <<linkUp, link>>
    /\ UNCHANGED <<routing, req, todo, dir, file, saved, crashes, acked>>

Next ==
    \/ Start \/ OpenIps \/ OpenNodes \/ LoadIp \/ LoadNode \/ Loaded
    \/ \E r \in Requests : Receive(r)
    \/ Invalid \/ InvalidNull \/ ApplyIp \/ ApplyNode
    \/ ReplyError \/ ReplySuccess \/ SaveOpen \/ SaveWrite
    \/ Crash \/ Stop

Spec == Init /\ [][Next]_vars

----------------------------------------------------------------------------
(* Properties.                                                             *)

TypeOK ==
    /\ pc \in Points
    /\ req \in Requests \cup {NoRequest}
    /\ ips \in Seq(Ip) /\ nodes \in Seq(Node) /\ todo \in Seq(Ip \cup Node)
    /\ routing \in BOOLEAN /\ linkUp \in BOOLEAN /\ (linkUp => routing)
    /\ link \subseteq Ip /\ (~linkUp => link = {})
    /\ dir \in BOOLEAN
    /\ file \in [Kinds -> FileStates] /\ DOMAIN saved = Kinds
    /\ saved["ips"] \in Seq(Ip) /\ saved["nodes"] \in Seq(Node)
    /\ \A k \in Kinds : file[k] # "whole" => saved[k] = <<>>
    /\ faults \in 0..MaxFaults /\ crashes \in 0..MaxCrashes
    /\ acked \subseteq Ip \cup Node

\* When no command and no file operation has failed, the server waits for
\* requests with lists that its files hold in the same order, also after it
\* was killed anywhere in a handler and started again.
SavedAgrees ==
    pc = "idle" /\ faults = 0 => \A k \in Kinds : saved[k] = ListOf(k)

\* Every address in the list is on the link, whatever failed and whenever
\* the process was killed: a command that fails on an addition keeps the
\* address out of the list, on a removal the entry is already gone, and a
\* load adds what a new link lacks.  It needs texts that grep tells apart.
ListedIsAttached == ToSet(ips) \subseteq link

\* Without failures and kills nothing stays on the link that the list does
\* not have: not after a removal, a stop and start, or a death on a request
\* that is no map.
LinkIsList ==
    pc = "idle" /\ faults = 0 /\ crashes = 0 => link = ToSet(ips)

\* A kill loses a confirmed addition only when it falls between the reply
\* and the save of that request, or when it catches the file truncated and
\* not yet written; everything else is there after a restart.
AckedSurvives ==
    pc = "idle" /\ faults = 0 => acked \subseteq ToSet(ips) \cup ToSet(nodes)

\* When a removal is confirmed the list has no entry left with that text:
\* listSearchKey finds the first one only, so additions and loads must never
\* put a second one in.
RemovedIsGone ==
    pc = "open" /\ req.op \in {"ip.remove", "node.remove"} =>
        ~Contains(ListOf(KindOf(req)), req.arg)
=============================================================================
