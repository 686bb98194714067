--------------------------- MODULE RegistryProofs ---------------------------
(* The lists of redd against their files and the link, for any sets of       *)
(* addresses and nodes and any number of failures and kills.                 *)
EXTENDS Registry, SequenceTheorems, TLAPS

NoRepeats(s) == \A i, j \in 1..Len(s) : s[i] = s[j] => i = j

----------------------------------------------------------------------------
(* The inductive invariants.                                               *)

\* The handler has changed the list and has not yet returned.
Changed == pc \in {"reply", "open", "write"}
Removing == req.op \in {"ip.remove", "node.remove"}

\* What is loaded is of the right kind, and so is what a request carries.
Shape ==
    /\ pc = "load ips" => todo \in Seq(Ip)
    /\ pc = "load nodes" => todo \in Seq(Node)
    /\ (pc \in {"apply", "error"} \/ Changed) => req \in Requests
    /\ Changed => req.arg \in Ip \cup Node

Unrepeated ==
    /\ NoRepeats(ips) /\ NoRepeats(nodes)
    /\ NoRepeats(saved["ips"]) /\ NoRepeats(saved["nodes"])

RemovalDone == Changed /\ Removing => ~Contains(ListOf(KindOf(req)), req.arg)

\* Whatever fails and whatever grep matches.
IInv == TypeOK /\ Shape /\ Unrepeated /\ RemovalDone

\* grep finds the text of an address in the line of that address only,
TellsApart == \A a, b \in Ip : <<a, b>> \in Matches => a = b

\* and does find it there: the text is the one that the kernel prints.
FindsOwn == \A a \in Ip : <<a, a>> \in Matches

\* With routing_enabled = no every `ip addr add` fails, for want of the link.
Unrouted ==
    ~routing => ips = <<>> /\ saved["ips"] = <<>> /\ (pc = "load ips" => todo = <<>>)

\* Without failures: where the lists stand to the files at each point.
Loading ==
    /\ Up /\ routing => linkUp
    /\ pc \notin {"down", "open ips"} => dir
    /\ pc \in {"down", "open ips"} => ips = <<>>
    /\ pc \in {"down", "open ips", "load ips", "open nodes"} => nodes = <<>>
    /\ pc = "load ips" => ips \o todo = saved["ips"]
    /\ pc \in {"open nodes", "load nodes"} => ips = saved["ips"]
    /\ pc = "load nodes" => nodes \o todo = saved["nodes"]

Saving ==
    /\ pc \in {"idle", "apply", "error"} =>
          ips = saved["ips"] /\ nodes = saved["nodes"]
    /\ Changed /\ KindOf(req) = "ips" => nodes = saved["nodes"]
    /\ Changed /\ KindOf(req) = "nodes" => ips = saved["ips"]

OnDisk == ToSet(saved["ips"]) \cup ToSet(saved["nodes"])
InMemory == ToSet(ips) \cup ToSet(nodes)

\* Where the confirmed entries are.
Confirmed ==
    /\ (pc \in {"apply", "error"} \/ Changed) /\ Removing => req.arg \notin acked
    /\ Changed /\ ~Removing => req.arg \in InMemory
    /\ pc \notin {"open", "write"} => acked \subseteq OnDisk
    /\ Changed => acked \subseteq InMemory
    /\ pc = "open" => acked \ {req.arg} \subseteq OnDisk
    /\ pc = "write" => acked \ (IF KindOf(req) = "ips" THEN Ip ELSE Node) \subseteq OnDisk

\* A file is only ever there when its directory is.
Directory ==
    /\ ~dir => file = [k \in Kinds |-> "none"]
    /\ pc = "write" => dir

Unfailing == Loading /\ Saving /\ Confirmed

FInv == Directory /\ Unrouted /\ (faults = 0 => Unfailing)

----------------------------------------------------------------------------
(* Sequences.                                                              *)

LEMMA ContainsIsMembership ==
    ASSUME NEW S, NEW s \in Seq(S), NEW e
    PROVE  Contains(s, e) <=> e \in ToSet(s)
  BY LenProperties DEF Contains, ToSet

LEMMA EmptyFacts ==
    /\ ToSet(<<>>) = {}
    /\ NoRepeats(<<>>)
    /\ \A S : <<>> \in Seq(S)
  BY EmptySeq DEF ToSet, NoRepeats

\* Appending what is not yet there.
LEMMA AppendFresh ==
    ASSUME NEW S, NEW s \in Seq(S), NEW e \in S
    PROVE  /\ Append(s, e) \in Seq(S)
           /\ ToSet(Append(s, e)) = ToSet(s) \cup {e}
           /\ NoRepeats(s) /\ ~Contains(s, e) => NoRepeats(Append(s, e))
  <1> DEFINE n == Len(s)
             t == Append(s, e)
  <1>1. n \in Nat /\ t \in Seq(S) /\ Len(t) = n + 1
    BY LenProperties, AppendProperties
  <1>2. \A i \in 1..n : t[i] = s[i]
    BY AppendProperties
  <1>3. t[n + 1] = e
    BY AppendProperties
  <1>4. DOMAIN s = 1..n /\ DOMAIN t = 1..(n + 1)
    BY <1>1, LenProperties
  <1>5. ToSet(t) = ToSet(s) \cup {e}
    <2> HIDE DEF t, n
    <2>. QED  BY <1>1, <1>2, <1>3, <1>4 DEF ToSet
  <1>6. ASSUME NoRepeats(s), ~Contains(s, e)
        PROVE  NoRepeats(t)
    <2>1. \A i \in 1..n : s[i] # e
      BY <1>6 DEF Contains
    <2>2. \A i, j \in 1..n : s[i] = s[j] => i = j
      BY <1>6 DEF NoRepeats
    <2>3. \A i, j \in 1..(n + 1) : t[i] = t[j] => i = j
      <3> HIDE DEF t, n
      <3>. QED  BY <1>1, <1>2, <1>3, <2>1, <2>2
    <2>. QED  BY <2>3, <1>1 DEF NoRepeats
  <1>. QED  BY <1>1, <1>5, <1>6

\* Where no value comes twice, removing the first occurrence removes the value.
LEMMA RemoveFirstFacts ==
    ASSUME NEW S, NEW s \in Seq(S), NEW e, NoRepeats(s)
    PROVE  /\ RemoveFirst(s, e) \in Seq(S)
           /\ ToSet(RemoveFirst(s, e)) = ToSet(s) \ {e}
           /\ NoRepeats(RemoveFirst(s, e))
  <1> DEFINE n == Len(s)
             r == RemoveFirst(s, e)
  <1>1. n \in Nat /\ DOMAIN s = 1..n /\ \A i \in 1..n : s[i] \in S
    BY LenProperties, ElementOfSeq
  <1>2. CASE ~ \E i \in 1..n : s[i] = e
    <2>1. r = s
      BY <1>2 DEF RemoveFirst
    <2>. QED  BY <1>1, <1>2, <2>1 DEF ToSet
  <1>3. CASE \E i \in 1..n : s[i] = e
    <2> DEFINE I == {i \in 1..n : s[i] = e}
               k == Min(I)
               a == SubSeq(s, 1, k - 1)
               b == SubSeq(s, k + 1, n)
    <2>1. \A i, j \in 1..n : s[i] = s[j] => i = j
      BY DEF NoRepeats
    <2>2. PICK m \in 1..n : s[m] = e
      BY <1>3
    <2>3. I = {m}
      BY <2>1, <2>2
    <2>4. k = m
      <3>1. \E x \in I : \A y \in I : x <= y
        BY <2>3, <2>2, <1>1
      <3>. QED  BY <3>1, <2>3 DEF Min
    <2>5. r = a \o b
      BY <1>3 DEF RemoveFirst, RemoveAt, SelectInSeq
    <2>6. /\ a \in Seq(S) /\ Len(a) = m - 1
          /\ \A i \in 1..(m - 1) : a[i] = s[i]
      <3>1. m - 1 \in Int /\ \A i \in 1..(m - 1) : s[i] \in S
        BY <1>1, <2>2
      <3>2. /\ SubSeq(s, 1, m - 1) \in Seq(S)
            /\ Len(SubSeq(s, 1, m - 1)) = IF 1 <= m - 1 THEN (m - 1) - 1 + 1 ELSE 0
            /\ \A i \in 1..((m - 1) - 1 + 1) : SubSeq(s, 1, m - 1)[i] = s[1 + i - 1]
        BY <3>1, SubSeqProperties
      <3>3. a = SubSeq(s, 1, m - 1)
        BY <2>4
      <3> HIDE DEF n, a
      <3>4. Len(a) = m - 1
        BY <3>2, <3>3, <2>2, <1>1
      <3>5. ASSUME NEW i \in 1..(m - 1)
            PROVE  a[i] = s[i]
        BY <3>2, <3>3, <2>2, <1>1
      <3>. QED  BY <3>2, <3>3, <3>4, <3>5
    <2>7. /\ b \in Seq(S) /\ Len(b) = n - m
          /\ \A i \in 1..(n - m) : b[i] = s[m + i]
      <3>1. m + 1 \in Int /\ \A i \in (m + 1)..n : s[i] \in S
        BY <1>1, <2>2
      <3>2. /\ SubSeq(s, m + 1, n) \in Seq(S)
            /\ Len(SubSeq(s, m + 1, n)) = IF m + 1 <= n THEN n - (m + 1) + 1 ELSE 0
            /\ \A i \in 1..(n - (m + 1) + 1) : SubSeq(s, m + 1, n)[i] = s[(m + 1) + i - 1]
        BY <1>1, <3>1, SubSeqProperties
      <3>3. b = SubSeq(s, m + 1, n)
        BY <2>4
      <3> HIDE DEF n, b
      <3>4. Len(b) = n - m
        BY <3>2, <3>3, <2>2, <1>1
      <3>5. ASSUME NEW i \in 1..(n - m)
            PROVE  b[i] = s[m + i]
        BY <3>2, <3>3, <2>2, <1>1
      <3>. QED  BY <3>2, <3>3, <3>4, <3>5
    <2>8. /\ r \in Seq(S) /\ Len(r) = n - 1
          /\ \A i \in 1..(n - 1) : r[i] = IF i < m THEN s[i] ELSE s[i + 1]
      <3> HIDE DEF a, b, r
      <3>0. /\ a \o b \in Seq(S)
            /\ Len(a \o b) = Len(a) + Len(b)
            /\ \A i \in 1..(Len(a) + Len(b)) :
                  (a \o b)[i] = IF i <= Len(a) THEN a[i] ELSE b[i - Len(a)]
        BY <2>6, <2>7, ConcatProperties
      <3>1. /\ a \o b \in Seq(S)
            /\ Len(a \o b) = (m - 1) + (n - m)
            /\ \A i \in 1..((m - 1) + (n - m)) :
                  (a \o b)[i] = IF i <= m - 1 THEN a[i] ELSE b[i - (m - 1)]
        <4> HIDE DEF n
        <4>. QED  BY <3>0, <2>6, <2>7
      <3>2. (m - 1) + (n - m) = n - 1
        BY <1>1, <2>2
      <3>3. ASSUME NEW i \in 1..(n - 1)
            PROVE  r[i] = IF i < m THEN s[i] ELSE s[i + 1]
        <4>1. CASE i < m
          BY <4>1, <1>1, <2>2, <2>5, <2>6, <3>1, <3>2
        <4>2. CASE ~(i < m)
          <5>1. i - (m - 1) \in 1..(n - m) /\ m + (i - (m - 1)) = i + 1
            BY <4>2, <1>1, <2>2
          <5>. QED  BY <4>2, <5>1, <1>1, <2>2, <2>5, <2>7, <3>1, <3>2
        <4>. QED  BY <4>1, <4>2
      <3>. QED  BY <3>1, <3>2, <3>3, <2>5
    <2>9. DOMAIN r = 1..(n - 1)
      BY <2>8, LenProperties
    <2> HIDE DEF r, n, a, b, k, I
    <2>10. ToSet(r) = ToSet(s) \ {e}
      <3>1. ASSUME NEW i \in 1..(n - 1)
            PROVE  r[i] \in ToSet(s) \ {e}
        <4> DEFINE j == IF i < m THEN i ELSE i + 1
        <4>1. j \in 1..n /\ j # m /\ r[i] = s[j]
          BY <1>1, <2>2, <2>8
        <4>2. s[j] # e
          BY <2>1, <2>2, <4>1
        <4>. QED  BY <1>1, <4>1, <4>2 DEF ToSet
      <3>2. ASSUME NEW j \in 1..n, s[j] # e
            PROVE  \E i \in 1..(n - 1) : r[i] = s[j]
        <4>1. CASE j < m
          <5>1. j \in 1..(n - 1)
            BY <4>1, <1>1, <2>2
          <5>2. r[j] = s[j]
            BY <4>1, <5>1, <2>8
          <5>. QED  BY <5>1, <5>2
        <4>2. CASE ~(j < m)
          <5>1. j - 1 \in 1..(n - 1) /\ ~(j - 1 < m)
            BY <4>2, <3>2, <1>1, <2>2
          <5>2. (j - 1) + 1 = j
            BY <1>1
          <5>3. r[j - 1] = s[j]
            BY <5>1, <5>2, <2>8
          <5>. QED  BY <5>1, <5>3
        <4>. QED  BY <4>1, <4>2
      <3>3. ToSet(r) \subseteq ToSet(s) \ {e}
        BY <2>9, <3>1 DEF ToSet
      <3>4. ToSet(s) \ {e} \subseteq ToSet(r)
        BY <1>1, <2>9, <3>2 DEF ToSet
      <3>. QED  BY <3>3, <3>4
    <2>11. NoRepeats(r)
      <3>1. \A i, j \in 1..(n - 1) : r[i] = r[j] => i = j
        BY <1>1, <2>1, <2>2, <2>8
      <3>. QED  BY <3>1, <2>8 DEF NoRepeats
    <2>. QED  BY <2>8, <2>10, <2>11 DEF r
  <1>. QED  BY <1>2, <1>3

----------------------------------------------------------------------------
(* What the operations on the lists keep.                                  *)

LEMMA AddRedIpFacts ==
    ASSUME TypeOK, Unrepeated, NEW a \in Ip, NEW ok \in BOOLEAN, AddRedIp(a, ok)
    PROVE  /\ ips' \in Seq(Ip) /\ NoRepeats(ips')
           /\ link' \subseteq Ip /\ (~linkUp => link' = {})
           /\ faults' \in 0..MaxFaults /\ faults <= faults'
  <1>1. ips \in Seq(Ip) /\ NoRepeats(ips)
    BY DEF TypeOK, Unrepeated
  <1>2. ips' = ips \/ (ips' = Append(ips, a) /\ ~Contains(ips, a))
    BY DEF AddRedIp
  <1>3. ips' \in Seq(Ip) /\ NoRepeats(ips')
    <2>1. CASE ips' = ips
      BY <1>1, <2>1
    <2>2. CASE ips' = Append(ips, a) /\ ~Contains(ips, a)
      BY <1>1, <2>2, AppendFresh
    <2>. QED  BY <1>2, <2>1, <2>2
  <1>4. link' = link \/ (link' = link \cup {a} /\ linkUp)
    BY DEF AddRedIp, Exits
  <1>5. link' \subseteq Ip /\ (~linkUp => link' = {})
    BY <1>4 DEF TypeOK
  <1>6. faults' \in 0..MaxFaults /\ faults <= faults'
    BY BoundsAssumption DEF AddRedIp, Exits, VxlanHasIp, TypeOK
  <1>. QED  BY <1>3, <1>5, <1>6

LEMMA RemoveRedIpFacts ==
    ASSUME TypeOK, Unrepeated, NEW a \in Ip, NEW ok \in BOOLEAN, RemoveRedIp(a, ok)
    PROVE  /\ ips' \in Seq(Ip) /\ NoRepeats(ips')
           /\ ToSet(ips') = ToSet(ips) \ {a}
           /\ link' \in {link, link \ {a}}
           /\ faults' \in 0..MaxFaults /\ faults <= faults'
  <1>1. ips \in Seq(Ip) /\ NoRepeats(ips)
    BY DEF TypeOK, Unrepeated
  <1>2. (ips' = ips /\ ~Contains(ips, a)) \/ ips' = RemoveFirst(ips, a)
    BY DEF RemoveRedIp
  <1>3. ips' \in Seq(Ip) /\ NoRepeats(ips') /\ ToSet(ips') = ToSet(ips) \ {a}
    BY <1>1, <1>2, RemoveFirstFacts, ContainsIsMembership
  <1>4. link' \in {link, link \ {a}}
    BY DEF RemoveRedIp
  <1>5. faults' \in 0..MaxFaults /\ faults <= faults'
    BY BoundsAssumption DEF RemoveRedIp, Exits, VxlanHasIp, TypeOK
  <1>. QED  BY <1>3, <1>4, <1>5

LEMMA AddRedNodeFacts ==
    ASSUME TypeOK, Unrepeated, NEW n \in Node, AddRedNode(n)
    PROVE  nodes' \in Seq(Node) /\ NoRepeats(nodes') /\ ToSet(nodes') = ToSet(nodes) \cup {n}
  <1>1. nodes \in Seq(Node) /\ NoRepeats(nodes)
    BY DEF TypeOK, Unrepeated
  <1>2. CASE Contains(nodes, n)
    BY <1>1, <1>2, ContainsIsMembership DEF AddRedNode
  <1>3. CASE ~Contains(nodes, n)
    BY <1>1, <1>3, AppendFresh DEF AddRedNode
  <1>. QED  BY <1>2, <1>3

LEMMA RemoveRedNodeFacts ==
    ASSUME TypeOK, Unrepeated, NEW n \in Node, RemoveRedNode(n)
    PROVE  nodes' \in Seq(Node) /\ NoRepeats(nodes') /\ ToSet(nodes') = ToSet(nodes) \ {n}
  BY RemoveFirstFacts DEF TypeOK, Unrepeated, RemoveRedNode

\* One failure more, or none.
LEMMA FaultFacts ==
    ASSUME TypeOK, Fault \/ UNCHANGED faults
    PROVE  faults' \in 0..MaxFaults /\ faults <= faults'
  BY BoundsAssumption DEF TypeOK, Fault

LEMMA FaultMeans ==
    ASSUME TypeOK, Fault
    PROVE  faults' # 0
  BY BoundsAssumption DEF TypeOK, Fault

\* A request that has passed validation names a member of one of the kinds.
LEMMA RequestFacts ==
    ASSUME NEW r \in Requests
    PROVE  /\ r.arg \in Ip => KindOf(r) = "ips"
           /\ r.arg \in Node => KindOf(r) = "nodes"
           /\ KindOf(r) \in Kinds
           /\ KindOf(r) = "ips" => r.op \in {"ip.add", "ip.remove"}
           /\ KindOf(r) = "nodes" => r.op \in {"node.add", "node.remove"}
  BY KindsAssumption DEF Requests, KindOf, Kinds

----------------------------------------------------------------------------
(* IInv is inductive.                                                      *)

LEMMA InitIInv == Init => IInv
  <1> SUFFICES ASSUME Init PROVE IInv
    OBVIOUS
  <1>1. TypeOK
    <2>1. file \in [Kinds -> FileStates] /\ DOMAIN saved = Kinds
      BY DEF Init, FileStates
    <2>2. saved["ips"] = <<>> /\ saved["nodes"] = <<>>
      BY DEF Init, Kinds
    <2>3. \A k \in Kinds : saved[k] = <<>>
      BY DEF Init
    <2>4. faults \in 0..MaxFaults /\ crashes \in 0..MaxCrashes
      BY BoundsAssumption DEF Init
    <2>5. routing \in BOOLEAN /\ linkUp \in BOOLEAN /\ dir \in BOOLEAN
      BY Zenon DEF Init
    <2>6. pc \in Points /\ req \in Requests \cup {NoRequest}
      BY DEF Init, Points
    <2>. QED  BY <2>1, <2>2, <2>3, <2>4, <2>5, <2>6, EmptyFacts DEF Init, TypeOK
  <1>. QED
    BY <1>1, EmptyFacts
       DEF Init, IInv, Shape, Unrepeated, RemovalDone, Changed, Kinds

LEMMA NextIInv ==
    ASSUME IInv, Next
    PROVE  IInv'
  <1> USE DEF IInv, Changed, Removing, Kinds, Points, FileStates, store
  <1>d. ASSUME Dies, UNCHANGED <<faults, crashes, acked>>
        PROVE  IInv'
    <2>1. routing' = routing /\ linkUp' = linkUp
      BY <1>d, Zenon DEF Dies
    <2>2. /\ routing' \in BOOLEAN /\ linkUp' \in BOOLEAN /\ (linkUp' => routing')
          /\ (~linkUp' => ~linkUp)
      BY <2>1, Zenon DEF TypeOK
    <2>3. dir' \in BOOLEAN
      BY <1>d, Zenon DEF Dies, TypeOK
    <2>. QED
      BY <1>d, <2>2, <2>3, EmptyFacts DEF Dies, TypeOK, Shape, Unrepeated, RemovalDone
  <1>1. CASE Start
    <2>1. faults' \in 0..MaxFaults
      BY <1>1, FaultFacts DEF Start
    <2>2. linkUp' \in BOOLEAN /\ (linkUp' => routing) /\ (~linkUp' => link = {})
      <3>1. CASE linkUp' = routing
        <4>1. routing \in BOOLEAN /\ (~routing => ~linkUp) /\ (~linkUp => link = {})
          BY Zenon DEF TypeOK
        <4>2. CASE routing = TRUE
          BY <3>1, <4>1, <4>2, Zenon
        <4>3. CASE routing = FALSE
          BY <3>1, <4>1, <4>3, Zenon
        <4>. QED  BY <4>1, <4>2, <4>3, Zenon
      <3>2. CASE linkUp' = FALSE /\ ~linkUp
        BY <3>2, Zenon DEF TypeOK
      <3>. QED  BY <1>1, <3>1, <3>2, Zenon DEF Start
    <2>. QED  BY <1>1, <2>1, <2>2 DEF Start, TypeOK, Shape, Unrepeated, RemovalDone
  <1>2. CASE OpenIps
    <2>1. CASE Dies /\ UNCHANGED faults /\ UNCHANGED <<routing, crashes, acked>>
      BY <1>d, <2>1
    <2>2. CASE /\ Unpack("ips", saved["ips"])
               /\ pc' = "load ips"
               /\ UNCHANGED <<req, ips, nodes, linkUp, link, file, saved>>
               /\ UNCHANGED <<routing, crashes, acked>>
      <3>1. todo' \in Seq(Ip) /\ dir' \in BOOLEAN /\ faults' \in 0..MaxFaults
        <4>1. todo' \in Seq(Ip)
          BY <2>2, EmptyFacts DEF Unpack, TypeOK
        <4>2. dir' \in BOOLEAN
          BY <2>2, Zenon DEF Unpack, MakeSavePath, TypeOK
        <4>3. faults' \in 0..MaxFaults
          BY <2>2, FaultFacts DEF Unpack, MakeSavePath
        <4>. QED  BY <4>1, <4>2, <4>3
      <3>2. /\ pc' = "load ips"
            /\ UNCHANGED <<routing, req, ips, nodes, linkUp, link, file, saved, crashes, acked>>
        BY <2>2
      <3>3. todo' \in Seq(Ip \cup Node)
        BY <3>1, SeqMonotonic
      <3>4. TypeOK'
        BY <3>1, <3>2, <3>3 DEF TypeOK
      <3>5. Shape' /\ Unrepeated' /\ RemovalDone'
        BY <3>1, <3>2 DEF Shape, Unrepeated, RemovalDone
      <3>. QED  BY <3>4, <3>5
    <2>. QED  BY <1>2, <2>1, <2>2 DEF OpenIps, OpenFile
  <1>3. CASE OpenNodes
    <2>1. CASE Dies /\ UNCHANGED faults /\ UNCHANGED <<routing, crashes, acked>>
      BY <1>d, <2>1
    <2>2. CASE /\ Unpack("nodes", saved["nodes"])
               /\ pc' = "load nodes"
               /\ UNCHANGED <<req, ips, nodes, linkUp, link, file, saved>>
               /\ UNCHANGED <<routing, crashes, acked>>
      <3>1. todo' \in Seq(Node) /\ dir' \in BOOLEAN /\ faults' \in 0..MaxFaults
        <4>1. todo' \in Seq(Node)
          BY <2>2, EmptyFacts DEF Unpack, TypeOK
        <4>2. dir' \in BOOLEAN
          BY <2>2, Zenon DEF Unpack, MakeSavePath, TypeOK
        <4>3. faults' \in 0..MaxFaults
          BY <2>2, FaultFacts DEF Unpack, MakeSavePath
        <4>. QED  BY <4>1, <4>2, <4>3
      <3>2. /\ pc' = "load nodes"
            /\ UNCHANGED <<routing, req, ips, nodes, linkUp, link, file, saved, crashes, acked>>
        BY <2>2
      <3>3. todo' \in Seq(Ip \cup Node)
        BY <3>1, SeqMonotonic
      <3>4. TypeOK'
        BY <3>1, <3>2, <3>3 DEF TypeOK
      <3>5. Shape' /\ Unrepeated' /\ RemovalDone'
        BY <3>1, <3>2 DEF Shape, Unrepeated, RemovalDone
      <3>. QED  BY <3>4, <3>5
    <2>. QED  BY <1>3, <2>1, <2>2 DEF OpenNodes, OpenFile
  <1>4. CASE LoadIp
    <2>1. todo \in Seq(Ip) /\ todo # <<>>
      BY <1>4 DEF LoadIp, Shape
    <2>2. Head(todo) \in Ip /\ Tail(todo) \in Seq(Ip) /\ Tail(todo) \in Seq(Ip \cup Node)
      BY <2>1, HeadTailProperties, SeqMonotonic
    <2>3. PICK ok \in BOOLEAN : AddRedIp(Head(todo), ok)
      BY <1>4 DEF LoadIp
    <2>4. /\ ips' \in Seq(Ip) /\ NoRepeats(ips')
          /\ link' \subseteq Ip /\ (~linkUp => link' = {})
          /\ faults' \in 0..MaxFaults
      BY <2>2, <2>3, AddRedIpFacts
    <2>. QED  BY <1>4, <2>2, <2>4 DEF LoadIp, TypeOK, Shape, Unrepeated, RemovalDone
  <1>5. CASE LoadNode
    <2>1. todo \in Seq(Node) /\ todo # <<>>
      BY <1>5 DEF LoadNode, Shape
    <2>2. Head(todo) \in Node /\ Tail(todo) \in Seq(Node) /\ Tail(todo) \in Seq(Ip \cup Node)
      BY <2>1, HeadTailProperties, SeqMonotonic
    <2>3. nodes' \in Seq(Node) /\ NoRepeats(nodes')
      BY <1>5, <2>2, AddRedNodeFacts DEF LoadNode
    <2>. QED  BY <1>5, <2>2, <2>3 DEF LoadNode, TypeOK, Shape, Unrepeated, RemovalDone
  <1>6. CASE Loaded
    BY <1>6 DEF Loaded, TypeOK, Shape, Unrepeated, RemovalDone
  <1>7. CASE \E r \in Requests : Receive(r)
    BY <1>7 DEF Receive, TypeOK, Shape, Unrepeated, RemovalDone
  <1>8. CASE Invalid
    BY <1>8 DEF Invalid, TypeOK, Shape, Unrepeated, RemovalDone
  <1>9. CASE InvalidNull
    BY <1>d, <1>9 DEF InvalidNull
  <1>10. CASE ApplyIp
    BY <1>10, AddRedIpFacts, RemoveRedIpFacts, RequestFacts, ContainsIsMembership
       DEF ApplyIp, ListOf, TypeOK, Shape, Unrepeated, RemovalDone
  <1>11. CASE ApplyNode
    BY <1>11, AddRedNodeFacts, RemoveRedNodeFacts, RequestFacts, ContainsIsMembership
       DEF ApplyNode, ListOf, TypeOK, Shape, Unrepeated, RemovalDone
  <1>12. CASE ReplyError
    BY <1>12 DEF ReplyError, Finish, TypeOK, Shape, Unrepeated, RemovalDone
  <1>13. CASE ReplySuccess
    BY <1>13 DEF ReplySuccess, ListOf, TypeOK, Shape, Unrepeated, RemovalDone
  <1>14. CASE SaveOpen
    <2>1. dir' \in BOOLEAN
      BY <1>14, Zenon DEF SaveOpen, MakeSavePath, TypeOK
    <2>2. faults' \in 0..MaxFaults
      BY <1>14, FaultFacts DEF SaveOpen, MakeSavePath
    <2>3. KindOf(req) \in Kinds
      BY <1>14, RequestFacts DEF SaveOpen, Shape
    <2>4. /\ file' \in [Kinds -> FileStates] /\ DOMAIN saved' = Kinds
          /\ \A k \in Kinds : file'[k] # "whole" => saved'[k] = <<>>
          /\ \A k \in Kinds : saved'[k] \in {saved[k], <<>>}
      BY <1>14, <2>3 DEF SaveOpen, TypeOK
    <2>5. TypeOK'
      <3>1. saved'["ips"] \in Seq(Ip) /\ saved'["nodes"] \in Seq(Node)
        BY <2>4, EmptyFacts DEF TypeOK
      <3>2. pc' \in Points /\ req' \in Requests \cup {NoRequest}
        BY <1>14 DEF SaveOpen, Finish, TypeOK
      <3>. QED  BY <1>14, <2>1, <2>2, <2>4, <3>1, <3>2 DEF SaveOpen, TypeOK
    <2>6. Shape' /\ Unrepeated' /\ RemovalDone'
      BY <1>14, <2>4, EmptyFacts
         DEF SaveOpen, Finish, Shape, Unrepeated, RemovalDone, ListOf
    <2>. QED  BY <2>5, <2>6
  <1>15. CASE SaveWrite
    BY <1>15, RequestFacts, BoundsAssumption
       DEF SaveWrite, ListOf, Fault, Finish, TypeOK, Shape, Unrepeated, RemovalDone
  <1>16. CASE Crash
    <2>1. crashes' \in 0..MaxCrashes
      <3>1. crashes \in 0..MaxCrashes /\ crashes < MaxCrashes /\ crashes' = crashes + 1
        BY <1>16 DEF Crash, TypeOK
      <3>. QED  BY <3>1, BoundsAssumption
    <2>2. acked' \subseteq Ip \cup Node
      BY <1>16 DEF Crash, TypeOK
    <2>. QED
      BY <1>16, <2>1, <2>2, EmptyFacts DEF Crash, Dies, TypeOK, Shape, Unrepeated, RemovalDone
  <1>17. CASE Stop
    <2>1. faults' \in 0..MaxFaults
      BY <1>17, FaultFacts DEF Stop
    <2>2. linkUp' \in BOOLEAN /\ (linkUp' => routing) /\ (~linkUp' => link' = {})
      BY <1>17, Zenon DEF Stop, TypeOK
    <2>3. link' \subseteq Ip
      BY <1>17 DEF Stop, TypeOK
    <2>. QED
      BY <1>17, <2>1, <2>2, <2>3, EmptyFacts
         DEF Stop, TypeOK, Shape, Unrepeated, RemovalDone
  <1>. QED
    BY <1>1, <1>2, <1>3, <1>4, <1>5, <1>6, <1>7, <1>8, <1>9, <1>10, <1>11,
       <1>12, <1>13, <1>14, <1>15, <1>16, <1>17 DEF Next

\* The strengthening holds in every reachable state.
LEMMA IInvHolds == Spec => []IInv
  <1>1. ASSUME IInv, UNCHANGED vars
        PROVE  IInv'
    <2> USE <1>1 DEF vars, store, IInv, Changed, Removing
    <2>1. TypeOK'
      BY DEF TypeOK
    <2>2. Shape'
      BY DEF Shape
    <2>3. Unrepeated'
      BY DEF Unrepeated
    <2>4. RemovalDone'
      BY DEF RemovalDone, ListOf
    <2>. QED  BY <2>1, <2>2, <2>3, <2>4
  <1>. QED  BY <1>1, InitIInv, NextIInv, PTL DEF Spec

\* The variables keep their types: no bound on lists, failures or kills.
THEOREM TypeCorrect == Spec => []TypeOK
  <1>1. IInv => TypeOK
    BY DEF IInv
  <1>. QED  BY <1>1, IInvHolds, PTL

\* A confirmed removal left no entry with that text behind (remove_red_ip,
\* remove_red_node), because the list never holds a text twice: the additions
\* and the loads look before they append, and the files hold what was a list.
THEOREM RemovalIsFinal == Spec => []RemovedIsGone
  <1>1. IInv => RemovedIsGone
    BY DEF IInv, RemovalDone, Removing, Changed, RemovedIsGone
  <1>. QED  BY <1>1, IInvHolds, PTL

----------------------------------------------------------------------------
(* The list and the link.                                                  *)

LEMMA NextAttached ==
    ASSUME TellsApart, IInv, ListedIsAttached, Next
    PROVE  ListedIsAttached'
  <1> USE DEF ListedIsAttached
  <1>0. TypeOK /\ Unrepeated
    BY DEF IInv
  <1>1. ASSUME NEW a \in Ip, NEW ok \in BOOLEAN, AddRedIp(a, ok)
        PROVE  ToSet(ips') \subseteq link'
    <2>1. ips \in Seq(Ip)
      BY <1>0 DEF TypeOK
    <2>2. CASE ips' = ips /\ link \subseteq link'
      BY <2>2
    <2>3. CASE ips' = Append(ips, a) /\ link' = link \cup {a}
      BY <2>1, <2>3, AppendFresh
    <2>4. CASE ips' = Append(ips, a) /\ HasIp(a) /\ link' = link
      <3>1. a \in link
        BY <2>4, <1>0 DEF HasIp, TellsApart, TypeOK
      <3>. QED  BY <2>1, <2>4, <3>1, AppendFresh
    <2>5. \/ ips' = ips /\ link \subseteq link'
          \/ ips' = Append(ips, a) /\ link' = link \cup {a}
          \/ ips' = Append(ips, a) /\ HasIp(a) /\ link' = link
      BY <1>1 DEF AddRedIp, VxlanHasIp
    <2>. QED  BY <2>2, <2>3, <2>4, <2>5
  <1>2. ASSUME NEW a \in Ip, NEW ok \in BOOLEAN, RemoveRedIp(a, ok)
        PROVE  ToSet(ips') \subseteq link'
    BY <1>0, <1>2, RemoveRedIpFacts
  <1>3. CASE LoadIp
    <2>1. Head(todo) \in Ip
      BY <1>3, HeadTailProperties DEF LoadIp, IInv, Shape
    <2>. QED  BY <1>1, <1>3, <2>1 DEF LoadIp
  <1>4. CASE ApplyIp
    BY <1>1, <1>2, <1>4 DEF ApplyIp
  <1>5. CASE ips' = <<>>
    BY <1>5, EmptyFacts
  <1>6. CASE UNCHANGED <<ips, link>>
    BY <1>6
  <1>7. \/ LoadIp \/ ApplyIp \/ ips' = <<>> \/ UNCHANGED <<ips, link>>
    BY DEF Next, Start, OpenIps, OpenNodes, OpenFile, LoadNode, Loaded, Receive,
           Invalid, InvalidNull, ApplyNode, ReplyError, ReplySuccess, SaveOpen,
           SaveWrite, Crash, Stop, Dies, store
  <1>. QED  BY <1>3, <1>4, <1>5, <1>6, <1>7

\* Where grep tells the addresses apart, every address of server.ips is on
\* the link, whatever command fails and wherever the process is killed.
THEOREM AttachedHolds ==
    ASSUME TellsApart
    PROVE  Spec => []ListedIsAttached
  <1>1. Init => ListedIsAttached
    BY EmptyFacts DEF Init, ListedIsAttached
  <1>2. IInv /\ ListedIsAttached /\ [Next]_vars => ListedIsAttached'
    BY NextAttached DEF vars, store, ListedIsAttached
  <1>. QED  BY <1>1, <1>2, IInvHolds, PTL DEF Spec

----------------------------------------------------------------------------
(* The lists and their files, while nothing fails.                         *)

\* One entry moves from what is left to load to what has been loaded.
LEMMA MoveHead ==
    ASSUME NEW S, NEW s \in Seq(S), NEW t \in Seq(S), t # <<>>, NoRepeats(s \o t)
    PROVE  /\ ~Contains(s, Head(t))
           /\ Append(s, Head(t)) \o Tail(t) = s \o t
  <1> DEFINE m == Len(s)
             n == Len(t)
             u == s \o t
             v == Append(s, Head(t)) \o Tail(t)
  <1>1. m \in Nat /\ n \in Nat /\ n # 0
    BY LenProperties, EmptySeq
  <1>2. /\ u \in Seq(S) /\ Len(u) = m + n
        /\ \A i \in 1..(m + n) : u[i] = IF i <= m THEN s[i] ELSE t[i - m]
    BY ConcatProperties
  <1>3. Head(t) = t[1] /\ Head(t) \in S
    BY HeadTailProperties
  <1>4. /\ Tail(t) \in Seq(S) /\ Len(Tail(t)) = n - 1
        /\ \A i \in 1..(n - 1) : Tail(t)[i] = t[i + 1]
    BY HeadTailProperties
  <1>5. /\ Append(s, Head(t)) \in Seq(S) /\ Len(Append(s, Head(t))) = m + 1
        /\ \A i \in 1..m : Append(s, Head(t))[i] = s[i]
        /\ Append(s, Head(t))[m + 1] = t[1]
    BY <1>3, AppendProperties
  <1>6. ~Contains(s, Head(t))
    <2>1. u[m + 1] = t[1]
      <3> HIDE DEF m, n, u
      <3>1. m + 1 \in 1..(m + n) /\ ~(m + 1 <= m) /\ (m + 1) - m = 1
        BY <1>1
      <3>. QED  BY <1>2, <3>1
    <2>2. ASSUME NEW i \in 1..m, s[i] = t[1]
          PROVE  FALSE
      <3>1. \A j, k \in 1..(m + n) : u[j] = u[k] => j = k
        BY <1>2 DEF NoRepeats
      <3> HIDE DEF m, n, u
      <3>2. i \in 1..(m + n) /\ i <= m /\ m + 1 \in 1..(m + n) /\ i # m + 1
        BY <1>1
      <3>3. u[i] = s[i]
        BY <1>2, <3>2
      <3>. QED  BY <2>1, <2>2, <3>1, <3>2, <3>3
    <2>. QED  BY <1>3, <2>2 DEF Contains
  <1>7. /\ v \in Seq(S) /\ Len(v) = Len(Append(s, Head(t))) + Len(Tail(t))
        /\ \A i \in 1..(Len(Append(s, Head(t))) + Len(Tail(t))) :
              v[i] = IF i <= Len(Append(s, Head(t))) THEN Append(s, Head(t))[i]
                     ELSE Tail(t)[i - Len(Append(s, Head(t)))]
    BY <1>4, <1>5, ConcatProperties
  <1>8. (m + 1) + (n - 1) = m + n
    <2> HIDE DEF m, n
    <2>. QED  BY <1>1
  <1>9. /\ Len(v) = m + n
        /\ \A i \in 1..(m + n) :
              v[i] = IF i <= m + 1 THEN Append(s, Head(t))[i] ELSE Tail(t)[i - (m + 1)]
    <2> HIDE DEF m, n, u, v
    <2>. QED  BY <1>4, <1>5, <1>7, <1>8
  <1>10. ASSUME NEW i \in 1..(m + n)
         PROVE  v[i] = u[i]
    <2> HIDE DEF m, n, u, v
    <2>1. CASE i <= m
      <3>1. i \in 1..m /\ i <= m + 1
        BY <1>1, <2>1
      <3>. QED  BY <1>2, <1>5, <1>9, <2>1, <3>1
    <2>2. CASE i = m + 1
      <3>1. ~(i <= m) /\ i <= m + 1 /\ i - m = 1
        BY <1>1, <2>2
      <3>. QED  BY <1>2, <1>5, <1>9, <2>2, <3>1
    <2>3. CASE i > m + 1
      <3>1. ~(i <= m) /\ ~(i <= m + 1)
        BY <1>1, <2>3
      <3>2. i - (m + 1) \in 1..(n - 1) /\ (i - (m + 1)) + 1 = i - m
        BY <1>1, <2>3
      <3>3. v[i] = Tail(t)[i - (m + 1)]
        BY <1>9, <3>1
      <3>4. u[i] = t[i - m]
        BY <1>2, <3>1
      <3>. QED  BY <1>4, <3>2, <3>3, <3>4
    <2>. QED  BY <1>1, <2>1, <2>2, <2>3
  <1>11. v = u
    BY <1>2, <1>7, <1>9, <1>10, SeqEqual
  <1>. QED  BY <1>6, <1>11

\* No step takes a failure back.
LEMMA FaultsGrow ==
    ASSUME IInv, Next, faults' = 0
    PROVE  faults = 0
  <1>1. TypeOK /\ Unrepeated /\ faults \in Nat
    BY BoundsAssumption DEF IInv, TypeOK
  <1>2. CASE LoadIp
    <2>1. Head(todo) \in Ip
      BY <1>2, HeadTailProperties DEF LoadIp, IInv, Shape
    <2>2. PICK ok \in BOOLEAN : AddRedIp(Head(todo), ok)
      BY <1>2 DEF LoadIp
    <2>3. faults <= faults' /\ faults' \in 0..MaxFaults
      BY <1>1, <2>1, <2>2, AddRedIpFacts
    <2>. QED  BY <1>1, <2>3
  <1>3. CASE ApplyIp
    BY <1>1, <1>3, AddRedIpFacts, RemoveRedIpFacts DEF ApplyIp
  <1>4. CASE Fault \/ UNCHANGED faults
    BY <1>1, <1>4 DEF Fault
  <1>5. LoadIp \/ ApplyIp \/ Fault \/ UNCHANGED faults
    BY DEF Next, Start, OpenIps, OpenNodes, OpenFile, Unpack, MakeSavePath,
           LoadNode, Loaded, Receive, Invalid, InvalidNull, ApplyNode,
           ReplyError, ReplySuccess, SaveOpen, SaveWrite, Crash, Stop
  <1>. QED  BY <1>2, <1>3, <1>4, <1>5

\* Without a failure an addition succeeds,
LEMMA AddWorks ==
    ASSUME FindsOwn, TypeOK, linkUp, faults' = 0, NEW a \in Ip, NEW ok \in BOOLEAN,
           AddRedIp(a, ok)
    PROVE  ok /\ ips' = IF Contains(ips, a) THEN ips ELSE Append(ips, a)
  <1>1. faults \in Nat
    BY BoundsAssumption DEF TypeOK
  <1>2. CASE Contains(ips, a)
    BY <1>2 DEF AddRedIp
  <1>3. CASE ~Contains(ips, a)
    <2>1. PICK has \in BOOLEAN, f \in 0..MaxFaults :
              /\ VxlanHasIp(a, has, f)
              /\ IF has THEN ok /\ link' = link /\ faults' = f
                 ELSE /\ Exits(linkUp /\ a \notin link, ok, f)
                      /\ link' = IF ok THEN link \cup {a} ELSE link
              /\ ips' = IF ok THEN Append(ips, a) ELSE ips
      BY <1>3 DEF AddRedIp
    <2>2. ok
      <3>1. CASE has
        BY <2>1, <3>1
      <3>2. CASE ~has
        <4>1. f = 0 /\ (ok = (linkUp /\ a \notin link))
          BY <1>1, <2>1, <3>2, BoundsAssumption DEF Exits
        <4>2. ~HasIp(a)
          BY <1>1, <2>1, <3>2, <4>1 DEF VxlanHasIp
        <4>3. a \notin link
          BY <4>2 DEF HasIp, FindsOwn
        <4>. QED  BY <4>1, <4>3
      <3>. QED  BY <3>1, <3>2
    <2>. QED  BY <1>3, <2>1, <2>2
  <1>. QED  BY <1>2, <1>3

\* and so does a removal, where grep tells the addresses apart.
LEMMA RemoveWorks ==
    ASSUME TellsApart, TypeOK, faults' = 0, NEW a \in Ip, NEW ok \in BOOLEAN,
           RemoveRedIp(a, ok)
    PROVE  ok
  <1>1. faults \in Nat
    BY BoundsAssumption DEF TypeOK
  <1>2. CASE ~Contains(ips, a)
    BY <1>2 DEF RemoveRedIp
  <1>3. CASE Contains(ips, a)
    <2>1. PICK has \in BOOLEAN, f \in 0..MaxFaults :
              /\ VxlanHasIp(a, has, f)
              /\ IF ~has THEN ok /\ link' = link /\ faults' = f
                 ELSE /\ Exits(a \in link, ok, f)
                      /\ link' = IF ok THEN link \ {a} ELSE link
      BY <1>3 DEF RemoveRedIp
    <2>2. CASE ~has
      BY <2>1, <2>2
    <2>3. CASE has
      <3>1. f = 0 /\ (ok = (a \in link))
        BY <1>1, <2>1, <2>3, BoundsAssumption DEF Exits
      <3>2. HasIp(a)
        BY <2>1, <2>3 DEF VxlanHasIp
      <3>3. a \in link
        BY <3>2 DEF HasIp, TellsApart, TypeOK
      <3>. QED  BY <3>1, <3>3
    <2>. QED  BY <2>2, <2>3
  <1>. QED  BY <1>2, <1>3

LEMMA NextDirectory ==
    ASSUME IInv, Directory, Next
    PROVE  Directory'
  <1> USE DEF Directory, IInv, TypeOK
  <1>1. CASE SaveOpen
    BY <1>1 DEF SaveOpen, MakeSavePath, Finish
  <1>2. CASE SaveWrite
    BY <1>2 DEF SaveWrite, Finish
  <1>3. CASE pc' # "write" /\ file' = file /\ (dir' = dir \/ dir' = TRUE)
    BY <1>3
  <1>4. \/ SaveOpen \/ SaveWrite
        \/ pc' # "write" /\ file' = file /\ (dir' = dir \/ dir' = TRUE)
    BY DEF Next, Start, OpenIps, OpenNodes, OpenFile, Unpack, MakeSavePath,
           LoadIp, LoadNode, Loaded, Receive, Invalid, InvalidNull, ApplyIp,
           ApplyNode, ReplyError, ReplySuccess, Finish, Crash, Stop, Dies, store
  <1>. QED  BY <1>1, <1>2, <1>3, <1>4

\* Without the link no address gets into the list.
LEMMA AddFails ==
    ASSUME TypeOK, ~linkUp, NEW a \in Ip, NEW ok \in BOOLEAN, AddRedIp(a, ok)
    PROVE  ips' = ips /\ (~Contains(ips, a) => ~ok)
  <1>1. CASE Contains(ips, a)
    BY <1>1 DEF AddRedIp
  <1>2. CASE ~Contains(ips, a)
    <2>1. PICK has \in BOOLEAN, f \in 0..MaxFaults :
              /\ VxlanHasIp(a, has, f)
              /\ IF has THEN ok /\ link' = link /\ faults' = f
                 ELSE /\ Exits(linkUp /\ a \notin link, ok, f)
                      /\ link' = IF ok THEN link \cup {a} ELSE link
              /\ ips' = IF ok THEN Append(ips, a) ELSE ips
      BY <1>2 DEF AddRedIp
    <2>2. ~HasIp(a)
      BY DEF HasIp, TypeOK
    <2>3. ~has
      BY <2>1, <2>2 DEF VxlanHasIp
    <2>4. ~ok
      BY <2>1, <2>3 DEF Exits
    <2>. QED  BY <1>2, <2>1, <2>4
  <1>. QED  BY <1>1, <1>2

LEMMA NextUnrouted ==
    ASSUME IInv, Unrouted, Next
    PROVE  Unrouted'
  <1> SUFFICES ASSUME ~routing
               PROVE  ips' = <<>> /\ saved'["ips"] = <<>> /\ (pc' = "load ips" => todo' = <<>>)
    <2>1. routing' = routing
      BY DEF Next, Start, OpenIps, OpenNodes, OpenFile, LoadIp, LoadNode, Loaded, Receive,
             Invalid, InvalidNull, ApplyIp, ApplyNode, ReplyError, ReplySuccess, SaveOpen,
             SaveWrite, Crash, Stop, Dies, store
    <2>. QED  BY <2>1 DEF Unrouted
  <1>0. /\ TypeOK /\ Shape /\ Unrepeated /\ ~linkUp /\ ips = <<>> /\ saved["ips"] = <<>>
        /\ pc = "load ips" => todo = <<>>
    BY DEF IInv, TypeOK, Unrouted
  <1>1. CASE OpenIps
    BY <1>0, <1>1 DEF OpenIps, OpenFile, Unpack, Dies, store
  <1>2. CASE OpenNodes
    BY <1>0, <1>2 DEF OpenNodes, OpenFile, Dies, store
  <1>3. CASE LoadIp
    BY <1>0, <1>3 DEF LoadIp
  <1>4. CASE ApplyIp
    <2>1. PICK ok \in BOOLEAN :
              IF req.op = "ip.add" THEN AddRedIp(req.arg, ok) ELSE RemoveRedIp(req.arg, ok)
      BY <1>4 DEF ApplyIp
    <2>2. req.arg \in Ip /\ pc' # "load ips" /\ saved' = saved
      BY <1>4 DEF ApplyIp
    <2>3. ~Contains(ips, req.arg)
      BY <1>0, EmptyFacts, ContainsIsMembership
    <2>4. ips' = ips
      <3>1. CASE AddRedIp(req.arg, ok)
        BY <1>0, <2>2, <3>1, AddFails
      <3>2. CASE RemoveRedIp(req.arg, ok)
        BY <2>3, <3>2 DEF RemoveRedIp
      <3>. QED  BY <2>1, <3>1, <3>2
    <2>. QED  BY <1>0, <2>2, <2>4
  <1>5. CASE SaveOpen
    <2>1. saved'["ips"] \in {saved["ips"], <<>>}
      BY <1>0, <1>5 DEF SaveOpen, TypeOK, Kinds
    <2>. QED  BY <1>0, <1>5, <2>1 DEF SaveOpen, Finish
  <1>6. CASE SaveWrite
    <2>1. saved'["ips"] \in {saved["ips"], ips}
      BY <1>0, <1>6 DEF SaveWrite, ListOf, TypeOK, Kinds
    <2>. QED  BY <1>0, <1>6, <2>1 DEF SaveWrite, Finish
  <1>7. CASE saved' = saved /\ ips' \in {ips, <<>>} /\ pc' # "load ips"
    BY <1>0, <1>7
  <1>8. \/ OpenIps \/ OpenNodes \/ LoadIp \/ ApplyIp \/ SaveOpen \/ SaveWrite
        \/ saved' = saved /\ ips' \in {ips, <<>>} /\ pc' # "load ips"
    BY <1>0 DEF Next, Start, LoadNode, Loaded, Receive, Invalid, InvalidNull, ApplyNode,
           ReplyError, ReplySuccess, Finish, Crash, Stop, Dies, store
  <1>. QED  BY <1>1, <1>2, <1>3, <1>4, <1>5, <1>6, <1>7, <1>8

\* What is unpacked is what the file holds.
LEMMA UnpackWhole ==
    ASSUME IInv, Directory, faults' = 0, NEW k \in Kinds, Unpack(k, saved[k])
    PROVE  todo' = saved[k] /\ dir'
  <1>1. ~Fault
    BY FaultMeans DEF IInv
  <1>2. CASE dir
    BY <1>1, <1>2 DEF Unpack, MakeSavePath
  <1>3. CASE ~dir
    <2>1. saved[k] = <<>>
      BY <1>3 DEF Directory, IInv, TypeOK
    <2>. QED  BY <1>1, <1>3, <2>1 DEF Unpack, MakeSavePath
  <1>. QED  BY <1>2, <1>3

LEMMA NextUnfailing ==
    ASSUME TellsApart, FindsOwn, IInv, Directory, Unrouted, Unfailing, faults' = 0, Next
    PROVE  Unfailing'
  <1> USE DEF Unfailing, Changed, Removing, OnDisk, InMemory, Up
  <1>0. TypeOK /\ Shape /\ Unrepeated /\ ~Fault
    BY FaultMeans DEF IInv
  <1>d. ASSUME Dies, acked' \subseteq OnDisk
        PROVE  Unfailing'
    BY <1>d DEF Dies, Loading, Saving, Confirmed, store
  <1>1. CASE Start
    <2>1. /\ pc = "down" /\ pc' = "open ips"
          /\ UNCHANGED <<req, ips, nodes, todo, link, dir, file, saved, crashes, acked>>
      BY <1>1, Zenon DEF Start
    <2>2. routing' => linkUp'
      <3>1. routing' = routing
        BY <1>1, Zenon DEF Start
      <3>2. linkUp' = routing
        BY <1>0, <1>1, Zenon DEF Start
      <3>. QED  BY <3>1, <3>2, Zenon
    <2>. QED  BY <2>1, <2>2 DEF Loading, Saving, Confirmed
  <1>2. CASE OpenIps
    <2>1. CASE Dies /\ UNCHANGED acked
      BY <1>d, <1>2, <2>1 DEF Confirmed, OpenIps, OpenFile
    <2>2. CASE /\ Unpack("ips", saved["ips"])
               /\ pc' = "load ips"
               /\ UNCHANGED <<req, ips, nodes, linkUp, link, file, saved>>
               /\ UNCHANGED <<routing, crashes, acked>>
      <3>1. todo' = saved["ips"] /\ dir'
        BY <2>2, UnpackWhole DEF Kinds
      <3>2. ips' = <<>> /\ nodes' = <<>> /\ pc = "open ips"
        BY <1>2, <2>2 DEF Loading, OpenIps, OpenFile
      <3>3. <<>> \o saved["ips"] = saved["ips"]
        BY <1>0, ConcatEmptySeq DEF TypeOK
      <3>. QED  BY <2>2, <3>1, <3>2, <3>3 DEF Loading, Saving, Confirmed
    <2>. QED  BY <1>2, <2>1, <2>2 DEF OpenIps, OpenFile
  <1>3. CASE OpenNodes
    <2>1. CASE Dies /\ UNCHANGED acked
      BY <1>d, <1>3, <2>1 DEF Confirmed, OpenNodes, OpenFile
    <2>2. CASE /\ Unpack("nodes", saved["nodes"])
               /\ pc' = "load nodes"
               /\ UNCHANGED <<req, ips, nodes, linkUp, link, file, saved>>
               /\ UNCHANGED <<routing, crashes, acked>>
      <3>1. todo' = saved["nodes"] /\ dir'
        BY <2>2, UnpackWhole DEF Kinds
      <3>2. nodes' = <<>> /\ pc = "open nodes"
        BY <1>3, <2>2 DEF Loading, OpenNodes, OpenFile
      <3>3. <<>> \o saved["nodes"] = saved["nodes"]
        BY <1>0, ConcatEmptySeq DEF TypeOK
      <3>. QED  BY <2>2, <3>1, <3>2, <3>3 DEF Loading, Saving, Confirmed
    <2>. QED  BY <1>3, <2>1, <2>2 DEF OpenNodes, OpenFile
  <1>4. CASE LoadIp
    <2>1. ips \in Seq(Ip) /\ todo \in Seq(Ip) /\ todo # <<>> /\ ips \o todo = saved["ips"]
      BY <1>0, <1>4 DEF LoadIp, TypeOK, Shape, Loading
    <2>2. ~Contains(ips, Head(todo)) /\ Append(ips, Head(todo)) \o Tail(todo) = saved["ips"]
      BY <1>0, <2>1, MoveHead DEF Unrepeated
    <2>3. Head(todo) \in Ip
      BY <2>1, HeadTailProperties
    <2>4. ips' = Append(ips, Head(todo))
      <3>1. pc = "load ips" /\ linkUp
        BY <1>4, <2>1 DEF LoadIp, Loading, Unrouted
      <3>. QED  BY <1>0, <1>4, <2>2, <2>3, <3>1, AddWorks DEF LoadIp
    <2>. QED  BY <1>4, <2>2, <2>4 DEF LoadIp, Loading, Saving, Confirmed
  <1>5. CASE LoadNode
    <2>1. nodes \in Seq(Node) /\ todo \in Seq(Node) /\ todo # <<>>
          /\ nodes \o todo = saved["nodes"]
      BY <1>0, <1>5 DEF LoadNode, TypeOK, Shape, Loading
    <2>2. ~Contains(nodes, Head(todo))
          /\ Append(nodes, Head(todo)) \o Tail(todo) = saved["nodes"]
      BY <1>0, <2>1, MoveHead DEF Unrepeated
    <2>3. nodes' = Append(nodes, Head(todo))
      BY <1>5, <2>2 DEF LoadNode, AddRedNode
    <2>. QED  BY <1>5, <2>2, <2>3 DEF LoadNode, Loading, Saving, Confirmed, store
  <1>6. CASE Loaded
    <2>1. ips \o <<>> = ips /\ nodes \o <<>> = nodes
      BY <1>0, ConcatEmptySeq DEF TypeOK
    <2>. QED  BY <1>6, <2>1 DEF Loaded, Loading, Saving, Confirmed, store
  <1>7. CASE \E r \in Requests : Receive(r)
    BY <1>7 DEF Receive, Loading, Saving, Confirmed, store
  <1>8. CASE Invalid
    BY <1>8 DEF Invalid, Loading, Saving, Confirmed, store
  <1>9. CASE InvalidNull
    BY <1>d, <1>9 DEF InvalidNull, Confirmed
  <1>10. CASE ApplyIp
    <2>1. PICK ok \in BOOLEAN :
              /\ IF req.op = "ip.add" THEN AddRedIp(req.arg, ok)
                 ELSE RemoveRedIp(req.arg, ok)
              /\ pc' = IF ok THEN "reply" ELSE "error"
      BY <1>10 DEF ApplyIp
    <2>2. req \in Requests /\ KindOf(req) = "ips" /\ req.op \in {"ip.add", "ip.remove"}
      BY <1>0, <1>10, RequestFacts DEF ApplyIp, Shape
    <2>3. ips \in Seq(Ip) /\ ips = saved["ips"] /\ nodes = saved["nodes"]
          /\ (routing => linkUp) /\ pc = "apply" /\ req.arg \in Ip
      BY <1>0, <1>10 DEF ApplyIp, TypeOK, Loading, Saving
    <2>4. CASE ~linkUp /\ req.op = "ip.add"
      <3>1. ips' = ips /\ ~Contains(ips, req.arg)
        BY <1>0, <2>1, <2>3, <2>4, AddFails DEF Unrouted, Contains
      <3>2. pc' = "error"
        BY <1>0, <2>1, <2>3, <2>4, <3>1, AddFails
      <3>. QED
        BY <1>10, <2>2, <2>3, <2>4, <3>1, <3>2 DEF ApplyIp, Loading, Saving, Confirmed
    <2>5. CASE linkUp /\ req.op = "ip.add"
      <3>1. ok /\ ips' = IF Contains(ips, req.arg) THEN ips ELSE Append(ips, req.arg)
        BY <1>0, <2>1, <2>3, <2>5, AddWorks
      <3>2. ToSet(ips') = ToSet(ips) \cup {req.arg}
        BY <2>3, <3>1, AppendFresh, ContainsIsMembership
      <3>. QED
        BY <1>10, <2>1, <2>2, <2>3, <2>5, <3>1, <3>2
           DEF ApplyIp, Loading, Saving, Confirmed
    <2>6. CASE req.op = "ip.remove"
      <3>1. ok /\ ToSet(ips') = ToSet(ips) \ {req.arg}
        BY <1>0, <2>1, <2>3, <2>6, RemoveWorks, RemoveRedIpFacts
      <3>. QED
        BY <1>10, <2>1, <2>2, <2>3, <2>6, <3>1 DEF ApplyIp, Loading, Saving, Confirmed
    <2>. QED  BY <2>2, <2>4, <2>5, <2>6
  <1>11. CASE ApplyNode
    <2>2. req \in Requests /\ KindOf(req) = "nodes" /\ req.op \in {"node.add", "node.remove"}
      BY <1>0, <1>11, RequestFacts DEF ApplyNode, Shape
    <2>3. ips = saved["ips"] /\ nodes = saved["nodes"] /\ pc' = "reply"
      BY <1>11 DEF ApplyNode, Saving
    <2>5. CASE req.op = "node.add"
      <3>1. ToSet(nodes') = ToSet(nodes) \cup {req.arg}
        BY <1>0, <1>11, <2>5, AddRedNodeFacts DEF ApplyNode
      <3>. QED
        BY <1>11, <2>2, <2>3, <2>5, <3>1 DEF ApplyNode, Loading, Saving, Confirmed, store
    <2>6. CASE req.op = "node.remove"
      <3>1. ToSet(nodes') = ToSet(nodes) \ {req.arg}
        BY <1>0, <1>11, <2>6, RemoveRedNodeFacts DEF ApplyNode
      <3>. QED
        BY <1>11, <2>2, <2>3, <2>6, <3>1 DEF ApplyNode, Loading, Saving, Confirmed, store
    <2>. QED  BY <2>2, <2>5, <2>6
  <1>12. CASE ReplyError
    BY <1>12 DEF ReplyError, Finish, Loading, Saving, Confirmed, store
  <1>13. CASE ReplySuccess
    BY <1>13 DEF ReplySuccess, Loading, Saving, Confirmed, store, KindOf
  <1>14. CASE SaveOpen
    <2>1. dir /\ saved' = [saved EXCEPT ![KindOf(req)] = <<>>] /\ pc' = "write"
          /\ UNCHANGED <<req, dir>>
      BY <1>0, <1>14 DEF SaveOpen, MakeSavePath, Loading
    <2>2. UNCHANGED <<routing, ips, nodes, todo, linkUp, link, crashes, acked>> /\ pc = "open"
      BY <1>14 DEF SaveOpen
    <2>3. req \in Requests /\ KindOf(req) \in Kinds /\ req.arg \in Ip \cup Node
      BY <1>0, <2>2, RequestFacts DEF Shape
    <2>4. Loading'
      BY <2>1, <2>2 DEF Loading
    <2>5. Saving'
      BY <2>1, <2>2 DEF Saving, KindOf
    <2>6. Confirmed'
      <3>1. CASE KindOf(req) = "ips"
        <4>1. req.arg \in Ip
          BY <2>3, <3>1, KindsAssumption DEF Requests, KindOf
        <4>2. saved'["nodes"] = saved["nodes"] /\ ToSet(saved["ips"]) \subseteq Ip
          BY <1>0, <2>1, <3>1 DEF TypeOK, ToSet
        <4>. QED  BY <2>1, <2>2, <3>1, <4>1, <4>2 DEF Confirmed, KindOf
      <3>2. CASE KindOf(req) = "nodes"
        <4>1. req.arg \in Node
          BY <2>3, <3>2, KindsAssumption DEF Requests, KindOf
        <4>2. saved'["ips"] = saved["ips"] /\ ToSet(saved["nodes"]) \subseteq Node
          BY <1>0, <2>1, <3>2 DEF TypeOK, ToSet
        <4>. QED  BY <2>1, <2>2, <3>2, <4>1, <4>2 DEF Confirmed, KindOf
      <3>. QED  BY <2>3, <3>1, <3>2 DEF Kinds
    <2>. QED  BY <2>4, <2>5, <2>6
  <1>15. CASE SaveWrite
    <2>1. saved' = [saved EXCEPT ![KindOf(req)] = ListOf(KindOf(req))]
      BY <1>0, <1>15 DEF SaveWrite
    <2>2. /\ UNCHANGED <<routing, ips, nodes, todo, linkUp, link, dir, crashes, acked>>
          /\ pc = "write" /\ pc' = "idle" /\ req' = NoRequest
      BY <1>15 DEF SaveWrite, Finish
    <2>3. KindOf(req) \in Kinds
      BY <1>0, <2>2, RequestFacts DEF Shape
    <2>4. saved'["ips"] = ips /\ saved'["nodes"] = nodes
      BY <1>0, <2>1, <2>2, <2>3 DEF Saving, ListOf, Kinds, TypeOK
    <2>. QED  BY <2>2, <2>4 DEF Loading, Saving, Confirmed
  <1>16. CASE Crash
    <2>1. acked' \subseteq OnDisk
      BY <1>16 DEF Crash, AtRisk, Confirmed
    <2>. QED  BY <1>d, <1>16, <2>1 DEF Crash
  <1>17. CASE Stop
    BY <1>0, <1>17 DEF Stop, Loading, Saving, Confirmed
  <1>. QED
    BY <1>1, <1>2, <1>3, <1>4, <1>5, <1>6, <1>7, <1>8, <1>9, <1>10, <1>11,
       <1>12, <1>13, <1>14, <1>15, <1>16, <1>17 DEF Next

LEMMA FInvHolds ==
    ASSUME TellsApart, FindsOwn
    PROVE  Spec => []FInv
  <1>1. Init => FInv
    BY EmptyFacts
       DEF Init, FInv, Directory, Unrouted, Unfailing, Loading, Saving, Confirmed, Changed,
           Removing, OnDisk, InMemory, Up, NoRequest, Kinds
  <1>2. IInv /\ FInv /\ Next => FInv'
    BY NextDirectory, NextUnrouted, NextUnfailing, FaultsGrow DEF FInv
  <1>3. ASSUME FInv, UNCHANGED vars
        PROVE  FInv'
    <2> USE <1>3 DEF vars, store, FInv, Unfailing, Changed, Removing, OnDisk, InMemory, Up
    <2>1. Directory' /\ Unrouted'
      BY DEF Directory, Unrouted
    <2>2. faults' = 0 => Loading'
      BY DEF Loading
    <2>3. faults' = 0 => Saving'
      BY DEF Saving
    <2>4. faults' = 0 => Confirmed'
      BY DEF Confirmed
    <2>. QED  BY <2>1, <2>2, <2>3, <2>4
  <1>. QED  BY <1>1, <1>2, <1>3, IInvHolds, PTL DEF Spec

\* Where grep tells the addresses apart and no command or file operation has
\* failed, what redd waits with is what its files hold, however often it was
\* killed, at any point of save_data and load_data.
THEOREM SavedHolds ==
    ASSUME TellsApart, FindsOwn
    PROVE  Spec => []SavedAgrees
  <1>1. FInv => SavedAgrees
    BY DEF FInv, Unfailing, Saving, SavedAgrees, Kinds, ListOf
  <1>. QED  BY <1>1, FInvHolds, PTL

\* Under the same conditions an addition that was confirmed is there after
\* every kill, but for those a kill meets between the reply and fclose.
THEOREM AckedHolds ==
    ASSUME TellsApart, FindsOwn
    PROVE  Spec => []AckedSurvives
  <1>1. FInv => AckedSurvives
    BY DEF FInv, Unfailing, Saving, Confirmed, OnDisk, AckedSurvives
  <1>. QED  BY <1>1, FInvHolds, PTL

----------------------------------------------------------------------------
(* What else is on the link, while nothing fails and nothing is killed.    *)

\* Until the addresses are loaded only the file tells what belongs there.
OnlyListed ==
    /\ pc \in {"down", "open ips", "load ips"} => link \subseteq ToSet(saved["ips"])
    /\ pc \notin {"down", "open ips", "load ips"} => link \subseteq ToSet(ips)

LEMMA HeadIsListed ==
    ASSUME NEW S, NEW s \in Seq(S), NEW t \in Seq(S), t # <<>>
    PROVE  Head(t) \in ToSet(s \o t)
  <1>1. /\ s \o t \in Seq(S) /\ Len(s \o t) = Len(s) + Len(t)
        /\ Len(t) > 0 /\ Len(s) \in Nat /\ Len(t) \in Nat
    BY ConcatProperties, LenProperties
  <1>2. Len(s) + 1 \in DOMAIN (s \o t) /\ (s \o t)[Len(s) + 1] = t[1]
    BY <1>1, ConcatProperties
  <1>3. Head(t) = t[1]
    OBVIOUS
  <1>. QED  BY <1>2, <1>3 DEF ToSet

\* Without a failure a removal takes the address off the link.
LEMMA RemoveCleans ==
    ASSUME TellsApart, FindsOwn, TypeOK, Unrepeated, link \subseteq ToSet(ips), faults' = 0,
           NEW a \in Ip, NEW ok \in BOOLEAN, RemoveRedIp(a, ok)
    PROVE  link' \subseteq ToSet(ips')
  <1>1. ToSet(ips') = ToSet(ips) \ {a} /\ link' \in {link, link \ {a}}
    BY RemoveRedIpFacts
  <1>2. CASE a \notin link
    BY <1>1, <1>2
  <1>3. CASE a \in link
    <2>1. Contains(ips, a) /\ HasIp(a)
      BY <1>3, ContainsIsMembership, Zenon DEF HasIp, FindsOwn, TypeOK
    <2>2. PICK has \in BOOLEAN, f \in 0..MaxFaults :
              /\ VxlanHasIp(a, has, f)
              /\ IF ~has THEN ok /\ link' = link /\ faults' = f
                 ELSE /\ Exits(a \in link, ok, f)
                      /\ link' = IF ok THEN link \ {a} ELSE link
      BY <2>1 DEF RemoveRedIp
    <2>3. faults \in Nat
      BY BoundsAssumption DEF TypeOK
    <2>4. has
      <3>1. SUFFICES ASSUME ~has PROVE FALSE
        BY <2>2
      <3>2. f = 0
        BY <2>2, <3>1
      <3>3. ~HasIp(a)
        BY <2>2, <2>3, <3>1, <3>2 DEF VxlanHasIp
      <3>. QED  BY <2>1, <3>3
    <2>5. link' = link \ {a}
      BY <2>2, <2>4, RemoveWorks
    <2>. QED  BY <1>1, <2>5
  <1>. QED  BY <1>2, <1>3

LEMMA NextOnlyListed ==
    ASSUME TellsApart, FindsOwn, IInv, Unrouted, Loading, Saving, OnlyListed,
           faults' = 0, crashes' = 0, Next
    PROVE  OnlyListed'
  <1>0. TypeOK /\ Shape /\ Unrepeated /\ ~Fault /\ ips \in Seq(Ip)
    BY FaultMeans DEF IInv, TypeOK
  <1>d. ASSUME Dies, link \subseteq ToSet(saved["ips"])
        PROVE  OnlyListed'
    BY <1>d DEF Dies, store, OnlyListed
  <1>1. CASE Start
    BY <1>1 DEF Start, OnlyListed
  <1>2. CASE OpenIps
    <2>1. CASE Dies
      BY <1>d, <1>2, <2>1 DEF OpenIps, OpenFile, OnlyListed
    <2>2. CASE pc' = "load ips" /\ UNCHANGED <<link, saved>>
      BY <1>2, <2>2 DEF OpenIps, OpenFile, OnlyListed
    <2>. QED  BY <1>2, <2>1, <2>2 DEF OpenIps, OpenFile
  <1>3. CASE OpenNodes
    <2>1. pc = "open nodes" /\ link \subseteq ToSet(saved["ips"])
      BY <1>3 DEF OpenNodes, OpenFile, Loading, OnlyListed
    <2>2. CASE Dies
      BY <1>d, <2>1, <2>2
    <2>3. CASE pc' = "load nodes" /\ UNCHANGED <<link, ips>>
      BY <2>1, <2>3 DEF OnlyListed
    <2>. QED  BY <1>3, <2>2, <2>3 DEF OpenNodes, OpenFile
  <1>4. CASE LoadIp
    <2>1. pc = "load ips" /\ todo \in Seq(Ip) /\ todo # <<>> /\ ips \o todo = saved["ips"]
      BY <1>0, <1>4 DEF LoadIp, Shape, Loading
    <2>2. Head(todo) \in ToSet(saved["ips"])
      BY <1>0, <2>1, HeadIsListed
    <2>3. link' \subseteq link \cup {Head(todo)}
      BY <1>4 DEF LoadIp, AddRedIp
    <2>. QED  BY <1>4, <2>1, <2>2, <2>3 DEF LoadIp, OnlyListed
  <1>5. CASE Loaded
    <2>1. CASE pc = "load ips"
      <3>1. ips \o <<>> = saved["ips"] /\ ips \o <<>> = ips
        BY <1>0, <1>5, <2>1, ConcatEmptySeq DEF Loaded, Loading
      <3>. QED  BY <1>5, <2>1, <3>1 DEF Loaded, store, OnlyListed
    <2>2. CASE pc = "load nodes"
      BY <1>5, <2>2 DEF Loaded, store, OnlyListed
    <2>. QED  BY <1>5, <2>1, <2>2 DEF Loaded
  <1>6. CASE InvalidNull
    BY <1>d, <1>6 DEF InvalidNull, Saving, OnlyListed
  <1>7. CASE ApplyIp
    <2>1. pc = "apply" /\ pc' \in {"reply", "error"} /\ link \subseteq ToSet(ips)
      BY <1>7 DEF ApplyIp, OnlyListed
    <2>2. PICK ok \in BOOLEAN :
              IF req.op = "ip.add" THEN AddRedIp(req.arg, ok) ELSE RemoveRedIp(req.arg, ok)
      BY <1>7 DEF ApplyIp
    <2>3. req.arg \in Ip
      BY <1>7 DEF ApplyIp
    <2>4. ASSUME AddRedIp(req.arg, ok)
          PROVE  link' \subseteq ToSet(ips')
      <3>0. CASE ~linkUp
        BY <1>0, <2>3, <2>4, <3>0, AddRedIpFacts
      <3>1. ASSUME linkUp
            PROVE  ips' = IF Contains(ips, req.arg) THEN ips ELSE Append(ips, req.arg)
        BY <1>0, <2>3, <2>4, <3>1, AddWorks
      <3>2. CASE Contains(ips, req.arg)
        BY <2>1, <2>4, <3>2 DEF AddRedIp
      <3>3. CASE linkUp /\ ~Contains(ips, req.arg)
        <4>1. ToSet(ips') = ToSet(ips) \cup {req.arg}
          <5>1. ips' = Append(ips, req.arg)
            BY <3>1, <3>3
          <5>. QED  BY <1>0, <2>3, <5>1, AppendFresh
        <4>2. link' \subseteq link \cup {req.arg}
          BY <2>4 DEF AddRedIp
        <4>. QED  BY <2>1, <4>1, <4>2
      <3>. QED  BY <3>0, <3>2, <3>3
    <2>5. ASSUME RemoveRedIp(req.arg, ok)
          PROVE  link' \subseteq ToSet(ips')
      BY <1>0, <2>1, <2>3, <2>5, RemoveCleans
    <2>6. link' \subseteq ToSet(ips')
      BY <2>2, <2>4, <2>5
    <2>. QED  BY <2>1, <2>6 DEF OnlyListed
  <1>8. CASE Stop
    BY <1>0, <1>8 DEF Stop, OnlyListed
  <1>9. CASE Crash
    <2>1. crashes' = crashes + 1
      BY <1>9 DEF Crash
    <2>2. crashes \in 0..MaxCrashes
      BY <1>0 DEF TypeOK
    <2>3. crashes + 1 # 0
      BY <2>2, BoundsAssumption
    <2>. QED  BY <2>1, <2>3
  <1>10. CASE /\ UNCHANGED <<ips, link>>
              /\ {pc, pc'} \cap {"down", "open ips", "load ips"} = {}
    BY <1>10 DEF OnlyListed
  <1>11. \/ Start \/ OpenIps \/ OpenNodes \/ LoadIp \/ Loaded \/ InvalidNull
         \/ ApplyIp \/ Stop \/ Crash
         \/ /\ UNCHANGED <<ips, link>>
            /\ {pc, pc'} \cap {"down", "open ips", "load ips"} = {}
    BY DEF Next, LoadNode, Receive, Invalid, ApplyNode, ReplyError, ReplySuccess,
           SaveOpen, SaveWrite, Finish, store
  <1>. QED  BY <1>1, <1>2, <1>3, <1>4, <1>5, <1>6, <1>7, <1>8, <1>9, <1>10, <1>11

\* No step takes a kill back.
LEMMA CrashesGrow ==
    ASSUME IInv, Next, crashes' = 0
    PROVE  crashes = 0
  <1>1. crashes \in Nat
    BY BoundsAssumption DEF IInv, TypeOK
  <1>2. crashes' = crashes \/ crashes' = crashes + 1
    BY DEF Next, Start, OpenIps, OpenNodes, OpenFile, LoadIp, LoadNode, Loaded, Receive,
           Invalid, InvalidNull, ApplyIp, ApplyNode, ReplyError, ReplySuccess,
           SaveOpen, SaveWrite, Crash, Stop
  <1>. QED  BY <1>1, <1>2

\* Where grep tells the addresses apart, the link of an unfailing, unkilled
\* server has the addresses of server.ips and no other (ip.c:171-247), also
\* after a request without a map ended the process.
THEOREM LinkHolds ==
    ASSUME TellsApart, FindsOwn
    PROVE  Spec => []LinkIsList
  <1> DEFINE Inv == faults = 0 /\ crashes = 0 => OnlyListed
  <1>1. Init => Inv
    BY DEF Init, OnlyListed
  <1>2. IInv /\ FInv /\ Inv /\ Next => Inv'
    BY NextOnlyListed, FaultsGrow, CrashesGrow DEF FInv, Unfailing
  <1>3. Inv /\ UNCHANGED vars => Inv'
    BY DEF OnlyListed, vars, store
  <1>4. Inv /\ ListedIsAttached => LinkIsList
    BY DEF OnlyListed, ListedIsAttached, LinkIsList
  <1> HIDE DEF Inv
  <1>. QED  BY <1>1, <1>2, <1>3, <1>4, IInvHolds, FInvHolds, AttachedHolds, PTL DEF Spec
=============================================================================
