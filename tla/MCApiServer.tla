---- MODULE MCApiServer ----
(* Instances of ApiServer for TLC. *)
EXTENDS ApiServer

Lists == [cmd : {"node.list"}, item : {NoItem}]
Pings == [cmd : {"ping"}, item : {NoItem}]
Changes == [cmd : {"node.add", "node.remove"}, item : Item]
NoNode(cmd) == [cmd |-> cmd, item |-> NoItem]

\* The "run" of test/test.rb, which the server does not know.
Unknown == [cmd : {"run"}, item : {NoItem}]
PingAndUnknown == Pings \cup Unknown
Mixed == Changes \cup Lists \cup PingAndUnknown \cup {NoNode("node.add"), NoNode("node.remove")}

\* One client pipelines, the other sends one request; both change and list
\* the nodes, one sends unknown commands, the other pings.
First == CHOOSE c \in Client : TRUE
TwoAndOne == [c \in Client |-> IF c = First THEN 2 ELSE 1]
Shared == [c \in Client |-> Changes \cup Lists \cup
              IF c = First THEN Unknown \cup {NoNode("node.add")}
                           ELSE Pings \cup {NoNode("node.remove")}]
AllCommands == [c \in Client |-> Command]
NoCommand == {}
====
