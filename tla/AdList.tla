------------------------------ MODULE AdList ------------------------------
(***************************************************************************)
(* The doubly linked list of src/src/util/adlist.c as cells and pointers,  *)
(* next to the sequence of cells it stands for, with one iterator.  redd   *)
(* keeps its nodes and ips in two such lists.  A call runs to the end on   *)
(* the main thread.  Not modelled: malloc failing, listDup (no caller), a  *)
(* second iterator on the same list.                                       *)
(***************************************************************************)
EXTENDS Integers, SequencesExt

CONSTANTS
    Cell,       \* addresses malloc may return for a listNode
    Value,      \* what a node's value pointer leads to
    Null

ASSUME NullAssumption == Null \notin Cell

VARIABLES
    head, tail, len,      \* struct list
    prev, next, value,    \* the fields of the cells; Null in free ones
    live,                 \* the cells malloc gave and free did not take back
    iter,                 \* the iterator: the cell it holds and its direction
    current,              \* the cell listNext returned last, unless deleted
    order,                \* history: the list as a sequence of cells
    due,                  \* history: cells in the list since the iteration began
    visited               \* history: the cells it returned that are still there

struct == <<head, tail, len, prev, next, value, live>>
iteration == <<iter, current, due, visited>>
listVars == <<struct, iteration, order>>

NoIter == [on |-> FALSE, next |-> Null, dir |-> "head"]

\* listCreate.
ListInit ==
    /\ head = Null /\ tail = Null /\ len = 0
    /\ prev = [c \in Cell |-> Null] /\ next = [c \in Cell |-> Null]
    /\ value = [c \in Cell |-> Null]
    /\ live = {}
    /\ iter = NoIter /\ current = Null /\ due = {} /\ visited = <<>>
    /\ order = <<>>

\* The assignment c->field = to, which the code makes after testing c.
Relink(f, c, to) == IF c = Null THEN f ELSE [f EXCEPT ![c] = to]

Alloc(c, v) ==
    /\ c \in Cell \ live
    /\ live' = live \cup {c}
    /\ value' = [value EXCEPT ![c] = v]
    /\ len' = len + 1
    /\ UNCHANGED iteration

AddNodeHead(c, v) ==
    /\ Alloc(c, v)
    /\ head' = c
    /\ tail' = IF len = 0 THEN c ELSE tail
    /\ prev' = [Relink(prev, head, c) EXCEPT ![c] = Null]
    /\ next' = [next EXCEPT ![c] = head]
    /\ order' = <<c>> \o order

AddNodeTail(c, v) ==
    /\ Alloc(c, v)
    /\ head' = IF len = 0 THEN c ELSE head
    /\ tail' = c
    /\ prev' = [prev EXCEPT ![c] = tail]
    /\ next' = [Relink(next, tail, c) EXCEPT ![c] = Null]
    /\ order' = Append(order, c)

Position(c) == CHOOSE i \in DOMAIN order : order[i] = c

\* Variant with a bug, for the mutants of PROJECT.json: the tail is not moved.
InsertNodeKeepsTail(c, v, old, after) ==
    /\ Alloc(c, v)
    /\ LET p == IF after THEN old ELSE prev[old]
           n == IF after THEN next[old] ELSE old IN
       /\ prev' = Relink([prev EXCEPT ![c] = p], n, c)
       /\ next' = Relink([next EXCEPT ![c] = n], p, c)
    /\ tail' = tail
    /\ head' = IF ~after /\ head = old THEN c ELSE head
    /\ order' = InsertAt(order, Position(old) + IF after THEN 1 ELSE 0, c)

InsertNode(c, v, old, after) ==
    /\ Alloc(c, v)
    /\ LET p == IF after THEN old ELSE prev[old]
           n == IF after THEN next[old] ELSE old IN
       /\ prev' = Relink([prev EXCEPT ![c] = p], n, c)
       /\ next' = Relink([next EXCEPT ![c] = n], p, c)
    /\ tail' = IF after /\ tail = old THEN c ELSE tail
    /\ head' = IF ~after /\ head = old THEN c ELSE head
    /\ order' = InsertAt(order, Position(old) + IF after THEN 1 ELSE 0, c)

\* listDelNode; the list has a free method.  With an iterator out, only the
\* cell it returned last may go.
DelNode(c) ==
    /\ c \in live
    /\ iter.on => c = current
    /\ head' = IF prev[c] = Null THEN next[c] ELSE head
    /\ tail' = IF next[c] = Null THEN prev[c] ELSE tail
    /\ next' = [Relink(next, prev[c], next[c]) EXCEPT ![c] = Null]
    /\ prev' = [Relink(prev, next[c], prev[c]) EXCEPT ![c] = Null]
    /\ value' = [value EXCEPT ![c] = Null]
    /\ live' = live \ {c} /\ len' = len - 1
    /\ current' = Null /\ due' = due \ {c}
    /\ visited' = IF iter.on THEN Front(visited) ELSE visited
    /\ order' = RemoveAt(order, Position(c))
    /\ UNCHANGED iter

Rotate ==
    /\ ~iter.on
    /\ len > 1
    /\ LET p == prev[tail] IN
       /\ tail' = p
       /\ next' = [[next EXCEPT ![p] = Null] EXCEPT ![tail] = head]
       /\ prev' = [[prev EXCEPT ![head] = tail] EXCEPT ![tail] = Null]
       /\ head' = tail
    /\ order' = <<Last(order)>> \o Front(order)
    /\ UNCHANGED <<len, value, live, iteration>>

\* listGetIterator, and listRewind of an iterator that is out.
GetIterator(dir) ==
    /\ iter' = [on |-> TRUE, next |-> IF dir = "head" THEN head ELSE tail, dir |-> dir]
    /\ current' = Null /\ due' = live /\ visited' = <<>>
    /\ UNCHANGED <<struct, order>>

\* Variant with a bug: the iterator keeps the cell it returns, and moves on
\* from it at the next call.
ListNextLate ==
    /\ iter.on /\ iter.next # Null
    /\ LET c == IF current = iter.next
                THEN IF iter.dir = "head" THEN next[iter.next] ELSE prev[iter.next]
                ELSE iter.next IN
       /\ c # Null
       /\ current' = c
       /\ visited' = Append(visited, c)
       /\ iter' = [iter EXCEPT !.next = c]
    /\ UNCHANGED <<struct, order, due>>

\* Variant with a bug: the direction is not looked at.
ListNextForward ==
    /\ iter.on /\ iter.next # Null
    /\ current' = iter.next
    /\ visited' = Append(visited, iter.next)
    /\ iter' = [iter EXCEPT !.next = next[iter.next]]
    /\ UNCHANGED <<struct, order, due>>

\* listNext when it returns a cell.
ListNext ==
    /\ iter.on /\ iter.next # Null
    /\ LET c == iter.next IN
       /\ current' = c
       /\ visited' = Append(visited, c)
       /\ iter' = [iter EXCEPT !.next = IF iter.dir = "head" THEN next[c] ELSE prev[c]]
    /\ UNCHANGED <<struct, order, due>>

\* listNext returns NULL, or the caller has found what it looked for.
ReleaseIterator ==
    /\ iter.on
    /\ iter' = NoIter /\ current' = Null /\ due' = {} /\ visited' = <<>>
    /\ UNCHANGED <<struct, order>>

\* The cells a pointer field leads to, n steps from c.
Follow(field, c, n) ==
    LET at[i \in 0..n] ==
            IF i = 0 THEN c ELSE IF at[i - 1] = Null THEN Null ELSE field[at[i - 1]]
    IN at[n]

\* listRelease frees len cells, from head along next.
Release ==
    /\ ~iter.on
    /\ LET gone == {Follow(next, head, i) : i \in 0..(len - 1)} IN
       /\ live' = live \ gone
       /\ prev' = [c \in Cell |-> IF c \in gone THEN Null ELSE prev[c]]
       /\ next' = [c \in Cell |-> IF c \in gone THEN Null ELSE next[c]]
       /\ value' = [c \in Cell |-> IF c \in gone THEN Null ELSE value[c]]
    /\ head' = Null /\ tail' = Null /\ len' = 0
    /\ order' = <<>>
    /\ UNCHANGED iteration

\* Variant with a bug: -1 is not taken off the negated index.
ListIndexFromZero(index) ==
    IF index < 0 THEN Follow(prev, tail, -index) ELSE Follow(next, head, index)

\* listIndex: from the head for index >= 0, from the tail for a negative one.
ListIndex(index) ==
    IF index < 0 THEN Follow(prev, tail, (-index) - 1) ELSE Follow(next, head, index)

\* listSearchKey: what an iteration from the head meets first.
SearchKey(key) ==
    LET found == {i \in 0..(len - 1) : value[Follow(next, head, i)] = key} IN
    IF found = {} THEN Null
    ELSE Follow(next, head, CHOOSE i \in found : \A j \in found : i <= j)

ListStep ==
    \/ \E c \in Cell, v \in Value : AddNodeHead(c, v) \/ AddNodeTail(c, v)
    \/ \E c \in Cell, v \in Value, old \in live, after \in BOOLEAN :
          InsertNode(c, v, old, after)
    \/ \E c \in Cell : DelNode(c)
    \/ \E dir \in {"head", "tail"} : GetIterator(dir)
    \/ Rotate \/ ListNext \/ ReleaseIterator \/ Release

ListSpec == ListInit /\ [][ListStep]_listVars

----------------------------------------------------------------------------
(* Properties.                                                             *)

\* After any sequence of calls the pointers are the sequence: its cells are
\* the ones allocated, each is linked to its neighbours in both directions,
\* and the ends are head and tail and lead nowhere.
Represents ==
    /\ len = Len(order) /\ IsInjective(order) /\ ToSet(order) = live
    /\ IF len = 0 THEN head = Null /\ tail = Null
       ELSE head = order[1] /\ tail = order[len]
    /\ \A i \in 1..len :
          /\ next[order[i]] = IF i = len THEN Null ELSE order[i + 1]
          /\ prev[order[i]] = IF i = 1 THEN Null ELSE order[i - 1]

\* The iterator never holds a cell that was freed, although the cell it
\* returned last may have been deleted since.
IteratorLive == iter.next \in live \cup {Null}

\* An iteration that has come to its end returned each cell that was in the
\* list all the while, and none twice, whatever was added and whichever of
\* the returned cells were deleted on the way.
VisitsAll ==
    iter.on /\ iter.next = Null =>
        /\ due \subseteq ToSet(visited)
        /\ \A i, j \in DOMAIN visited :
              visited[i] = visited[j] /\ visited[i] \in due => i = j

\* listIndex counts from 0 at the head and from -1 at the tail and is NULL
\* outside; listSearchKey returns the first cell with the value.
LooksUp ==
    /\ \A i \in -(len + 1)..len :
          ListIndex(i) = IF i \in 0..(len - 1) THEN order[i + 1]
                         ELSE IF i \in -len..-1 THEN order[len + 1 + i] ELSE Null
    /\ \A key \in Value :
          SearchKey(key) =
             LET i == SelectInSeq(order, LAMBDA c : value[c] = key)
             IN IF i = 0 THEN Null ELSE order[i]
=============================================================================
