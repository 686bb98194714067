-------------------------- MODULE ApiServerProofs --------------------------
(* The api server for any number of clients, any set of commands and frames  *)
(* of any length, however they are cut and joined on the way.                *)
EXTENDS ApiServer, SequenceTheorems, TLAPS

----------------------------------------------------------------------------
(* Lemmas on numbers and sequences.                                        *)

LEMMA DivMod ==
    ASSUME NEW n \in Nat, NEW d \in Nat \ {0}
    PROVE  /\ n \div d \in Nat /\ n % d \in Nat /\ n % d \in 0..(d - 1)
           /\ d * (n \div d) + (n % d) = n
  OBVIOUS

LEMMA Times ==
    ASSUME NEW d \in Nat, NEW a \in Nat, NEW b \in Nat
    PROVE  /\ d * (a + b) = d * a + d * b
           /\ d * a \in Nat
           /\ d * (a + 1) = d * a + d
  OBVIOUS

LEMMA TimesOrder ==
    ASSUME NEW d \in Nat \ {0}, NEW a \in Nat, NEW b \in Nat, d * a <= d * b
    PROVE  a <= b
  <1>1. SUFFICES ASSUME a > b PROVE FALSE
    OBVIOUS
  <1>2. PICK k \in Nat : a = b + 1 + k
    <2>1. a = b + 1 + (a - b - 1) /\ a - b - 1 \in Nat
      BY <1>1
    <2>. QED  BY <2>1
  <1>3. d * a = d * (b + 1) + d * k /\ d * k \in Nat
    BY <1>2, Times, b + 1 \in Nat
  <1>4. d * (b + 1) = d * b + d /\ d * b \in Nat
    BY Times
  <1>. QED  BY <1>3, <1>4

\* What a read takes off the wire is in the buffer or in frames.
LEMMA ReadSum ==
    ASSUME NEW x \in Nat, NEW y \in Nat, NEW z \in Nat, NEW m \in Nat,
           NEW n \in Nat, NEW b \in Nat, NEW w \in Nat, NEW u \in Nat,
           z + m = b + n, x + b + w + u = y
    PROVE  (x + z) + m + (w - n) + u = y
  OBVIOUS

\* One read brings a positive number of pieces.
LEMMA ReadSize ==
    ASSUME NEW c \in Client, NEW n \in 1..(MaxRequests[c] * FrameUnits)
    PROVE  n \in Nat \ {0}
  <1>1. MaxRequests[c] \in Nat /\ FrameUnits \in Nat
    BY RequestsAssumption
  <1> DEFINE k == MaxRequests[c] * FrameUnits
  <1>2. k \in Nat
    BY <1>1
  <1> HIDE DEF k
  <1>3. n \in 1..k
    BY DEF k
  <1>. QED  BY <1>2, <1>3

LEMMA PrefixOfConcat ==
    ASSUME NEW S, NEW s \in Seq(S), NEW t \in Seq(S)
    PROVE  IsPrefix(s, s \o t)
  <1>1. Len(s \o t) = Len(s) + Len(t)
    BY ConcatProperties
  <1>2. SubSeq(s \o t, 1, Len(s)) = SubSeq(s, 1, Len(s))
    OBVIOUS
  <1>. QED  BY <1>1, <1>2 DEF IsPrefix

LEMMA PrefixOfAppend ==
    ASSUME NEW S, NEW s \in Seq(S), NEW t \in Seq(S), NEW e \in S, IsPrefix(s, t)
    PROVE  IsPrefix(s, Append(t, e))
  <1>1. Len(s) <= Len(t) /\ SubSeq(s, 1, Len(s)) = SubSeq(t, 1, Len(s))
    BY DEF IsPrefix
  <1>2. Len(Append(t, e)) = Len(t) + 1
    OBVIOUS
  <1>3. SubSeq(Append(t, e), 1, Len(s)) = SubSeq(t, 1, Len(s))
    BY <1>1
  <1>. QED  BY <1>1, <1>2, <1>3 DEF IsPrefix

LEMMA AppendOfConcat ==
    ASSUME NEW S, NEW s \in Seq(S), NEW t \in Seq(S), NEW e \in S
    PROVE  s \o Append(t, e) = Append(s \o t, e)
  <1>1. Append(t, e) = t \o <<e>> /\ <<e>> \in Seq(S)
    BY AppendIsConcat
  <1>2. s \o t \in Seq(S)
    BY ConcatProperties
  <1>3. Append(s \o t, e) = (s \o t) \o <<e>>
    BY <1>2, AppendIsConcat
  <1>4. (s \o t) \o <<e>> = s \o (t \o <<e>>)
    BY <1>1, ConcatAssociative
  <1>. QED  BY <1>1, <1>3, <1>4

LEMMA MoveHead ==
    ASSUME NEW S, NEW s \in Seq(S), NEW t \in Seq(S), t # <<>>
    PROVE  Append(s, Head(t)) \o Tail(t) = s \o t
  OBVIOUS

NoRepeats(s) == \A i, j \in 1..Len(s) : s[i] = s[j] => i = j

LEMMA AppendFresh ==
    ASSUME NEW S, NEW s \in Seq(S), NEW e \in S, NoRepeats(s), ~Contains(s, e)
    PROVE  NoRepeats(Append(s, e))
  <1>1. \A i \in 1..Len(s) : s[i] # e
    BY DEF Contains
  <1>. QED  BY <1>1 DEF NoRepeats

\* On a list that holds it once, the first occurrence is the only one.
LEMMA RemoveIsWithout ==
    ASSUME NEW S, NEW s \in Seq(S), NEW e \in S, NoRepeats(s), Contains(s, e)
    PROVE  /\ RemoveFirst(s, e) = Promise!Without(s, e)
           /\ RemoveFirst(s, e) \in Seq(S)
           /\ NoRepeats(RemoveFirst(s, e))
  <1> DEFINE n == Len(s)
             I == {i \in 1..n : s[i] = e}
  <1>1. PICK m \in 1..n : s[m] = e
    BY DEF Contains
  <1>2. \A i \in 1..n : s[i] = e <=> i = m
    BY <1>1 DEF NoRepeats
  <1>3. I = {m}
    BY <1>2
  <1>4. Min(I) = m
    <2>1. \E x \in I : \A y \in I : x <= y
      BY <1>3
    <2>. QED  BY <2>1, <1>3 DEF Min
  <1>5. RemoveFirst(s, e) = SubSeq(s, 1, m - 1) \o SubSeq(s, m + 1, n)
    BY <1>1, <1>3, <1>4 DEF RemoveFirst, RemoveAt, SelectInSeq
  <1>6. m = CHOOSE i \in DOMAIN s : \A j \in DOMAIN s : s[j] = e <=> j = i
    BY <1>2
  <1>7. Promise!Without(s, e) = SubSeq(s, 1, m - 1) \o SubSeq(s, m + 1, n)
    BY <1>6 DEF Promise!Without, Promise!RemoveAt
  <1>8. /\ RemoveFirst(s, e) \in Seq(S)
        /\ Len(RemoveFirst(s, e)) = n - 1
        /\ \A i \in 1..(n - 1) : RemoveFirst(s, e)[i] = IF i < m THEN s[i] ELSE s[i + 1]
    <2> DEFINE a == SubSeq(s, 1, m - 1)
               b == SubSeq(s, m + 1, n)
    <2>1. n \in Nat /\ m \in 1..n
      BY <1>1
    <2>2. a \in Seq(S) /\ Len(a) = m - 1 /\ \A i \in 1..(m - 1) : a[i] = s[i]
      BY <2>1
    <2>3. b \in Seq(S) /\ Len(b) = n - m /\ \A i \in 1..(n - m) : b[i] = s[m + i]
      BY <2>1
    <2>4. RemoveFirst(s, e) = a \o b
      BY <1>5
    <2> HIDE DEF a, b, n
    <2>5. a \o b \in Seq(S) /\ Len(a \o b) = n - 1
      <3>1. a \o b \in Seq(S) /\ Len(a \o b) = Len(a) + Len(b)
        BY <2>2, <2>3, ConcatProperties
      <3>2. Len(a) + Len(b) = n - 1
        BY <2>1, <2>2, <2>3
      <3>. QED  BY <3>1, <3>2
    <2>6. ASSUME NEW i \in 1..(n - 1)
          PROVE  (a \o b)[i] = IF i < m THEN s[i] ELSE s[i + 1]
      <3>1. CASE i < m
        BY <2>1, <2>2, <2>3, <3>1
      <3>2. CASE ~(i < m)
        <4>1. i - (m - 1) \in 1..(n - m) /\ m + (i - (m - 1)) = i + 1
          BY <2>1, <3>2
        <4>2. (a \o b)[i] = b[i - (m - 1)]
          BY <2>1, <2>2, <2>3, <4>1
        <4>. QED  BY <2>3, <3>2, <4>1, <4>2
      <3>. QED  BY <3>1, <3>2
    <2>. QED  BY <2>4, <2>5, <2>6
  <1>9. NoRepeats(RemoveFirst(s, e))
    <2> DEFINE r == RemoveFirst(s, e)
    <2>1. \A i, j \in 1..n : s[i] = s[j] => i = j
      BY DEF NoRepeats
    <2> HIDE DEF r, n
    <2>2. \A i, j \in 1..(n - 1) : r[i] = r[j] => i = j
      BY <1>1, <1>8, <2>1 DEF n, r
    <2>. QED  BY <2>2, <1>8 DEF NoRepeats, r
  <1>. QED  BY <1>5, <1>7, <1>8, <1>9

----------------------------------------------------------------------------
(* The inductive invariant.                                                *)

\* The loop of on_read runs for a client that has not been freed.
Reader ==
    /\ reading = "none" => framec = 0
    /\ reading # "none" => conn[reading] \in {"open", "closed"}

\* Until a client is gone every response to it is received or queued; then
\* the queue is dropped.
Replies ==
    \A c \in Client :
        /\ IsPrefix(got[c], said[c])
        /\ IF conn[c] = "gone" THEN writes[c] = <<>> ELSE got[c] \o writes[c] = said[c]

IInv == TypeOK /\ Reader /\ FramesInStep /\ Replies /\ NoRepeats(nodes)

LEMMA InitImpliesIInv == Init => IInv
  <1> SUFFICES ASSUME Init PROVE IInv
    OBVIOUS
  <1> USE ClientAssumption, RequestsAssumption
  <1>1. TypeOK
    BY DEF Init, Promise!Init, TypeOK, ConnStates
  <1>2. Reader
    BY DEF Init, Reader
  <1>3. FramesInStep
    BY DEF Init, Promise!Init, FramesInStep
  <1>4. Replies
    <2>1. IsPrefix(<<>>, <<>>)
      BY DEF IsPrefix
    <2>. QED  BY <2>1 DEF Init, Promise!Init, Replies
  <1>5. NoRepeats(nodes)
    BY DEF Init, Promise!Init, NoRepeats
  <1>. QED  BY <1>1, <1>2, <1>3, <1>4, <1>5 DEF IInv

LEMMA RequestKinds ==
    ASSUME NEW r \in Command
    PROVE  \/ r.cmd \in {"node.add", "node.remove"} /\ r.item \in Item
           \/ r.cmd \in {"node.add", "node.remove"} /\ r.item = NoItem
           \/ r.cmd \in {"node.list", "ping", "run"} /\ r.item = NoItem
  BY CommandAssumption DEF Promise!Commands

LEMMA AsksCommands ==
    ASSUME NEW c \in Client, NEW r \in Asks[c]
    PROVE  r \in Command
  BY CommandAssumption

\* The frame in hand is a request that was sent in full and not yet handled.
LEMMA NextRequest ==
    ASSUME TypeOK, Reader, FramesInStep, framec > 0
    PROVE  /\ reading \in Client
           /\ taken[reading] + 1 \in 1..Len(sent[reading])
           /\ sent[reading][taken[reading] + 1] \in Command
  <1>1. reading \in Client /\ conn[reading] # "gone" /\ reading # "none"
    BY ClientAssumption DEF TypeOK, Reader
  <1> DEFINE t == taken[reading]
             n == Len(sent[reading])
             rest == buf[reading] + wire[reading] + unsent[reading]
  <1>2. t \in Nat /\ n \in Nat /\ rest \in Nat /\ framec \in Nat
    BY <1>1, RequestsAssumption DEF TypeOK
  <1>3. FrameUnits * (t + framec) + buf[reading] + wire[reading] + unsent[reading]
        = FrameUnits * n
    BY <1>1 DEF FramesInStep
  <1>4. FrameUnits * (t + framec) \in Nat /\ FrameUnits * n \in Nat /\ t + framec \in Nat
    BY <1>2, Times, RequestsAssumption
  <1>5. FrameUnits * (t + framec) <= FrameUnits * n
    <2>1. buf[reading] \in Nat /\ wire[reading] \in Nat /\ unsent[reading] \in Nat
      BY <1>1, RequestsAssumption DEF TypeOK
    <2> HIDE DEF t, n
    <2>. QED  BY <1>3, <1>4, <2>1
  <1>6. t + framec <= n
    BY <1>2, <1>4, <1>5, TimesOrder, RequestsAssumption
  <1>7. t + 1 \in 1..n
    BY <1>2, <1>6
  <1>8. sent[reading] \in Seq(Command)
    BY <1>1 DEF TypeOK
  <1>. QED  BY <1>1, <1>7, <1>8, ElementOfSeq

\* What parse_request does is what the promise says of the request.
LEMMA ParseEffect ==
    ASSUME IInv, ParseRequest,
           NEW r, r = sent[reading][taken[reading] + 1]
    PROVE  /\ nodes' = Promise!Effect(nodes, r)
           /\ nodes' \in Seq(Item) /\ NoRepeats(nodes')
           /\ IF r.cmd = "run"
              THEN UNCHANGED <<writes, said>>
              ELSE Reply(reading, Promise!Response(nodes, r, taken[reading] + 1))
  <1> DEFINE c  == reading
             id == taken[reading] + 1
  <1>1. r \in Command /\ nodes \in Seq(Item) /\ NoRepeats(nodes)
    BY NextRequest DEF IInv, TypeOK, ParseRequest
  <1>2. \/ r.cmd \in {"node.add", "node.remove"} /\ r.item \in Item
        \/ r.cmd \in {"node.add", "node.remove"} /\ r.item = NoItem
        \/ r.cmd \in {"node.list", "ping", "run"} /\ r.item = NoItem
    BY <1>1, RequestKinds
  <1>3. CASE r.cmd = "node.add" /\ r.item \in Item
    <2>1. /\ nodes' = IF Contains(nodes, r.item) THEN nodes ELSE Append(nodes, r.item)
          /\ r.item # NoItem
          /\ ReplySuccess(c, id)
      BY <1>3, CommandAssumption DEF ParseRequest, HandleNodeAdd, Valid
    <2>2. nodes' = Promise!Effect(nodes, r)
      BY <2>1, <1>3 DEF Promise!Effect, Contains, Promise!Contains
    <2>3. nodes' \in Seq(Item) /\ NoRepeats(nodes')
      BY <2>1, <1>1, <1>3, AppendFresh
    <2>4. Reply(c, Promise!Response(nodes, r, id))
      BY <2>1, <1>3 DEF ReplySuccess, Respond, Promise!Response, Promise!Outcome
    <2>. QED  BY <2>2, <2>3, <2>4, <1>3
  <1>4. CASE r.cmd = "node.remove" /\ r.item \in Item
    <2>1. /\ nodes' = RemoveFirst(nodes, r.item) /\ r.item # NoItem
          /\ ReplySuccess(c, id)
      BY <1>4, CommandAssumption DEF ParseRequest, HandleNodeRemove, Valid
    <2>2. nodes' = Promise!Effect(nodes, r) /\ nodes' \in Seq(Item) /\ NoRepeats(nodes')
      <3>1. CASE Contains(nodes, r.item)
        <4>1. nodes' = Promise!Without(nodes, r.item) /\ nodes' \in Seq(Item) /\ NoRepeats(nodes')
          BY <2>1, <3>1, <1>1, <1>4, RemoveIsWithout
        <4>. QED  BY <4>1, <2>1, <3>1, <1>4 DEF Promise!Effect, Contains, Promise!Contains
      <3>2. CASE ~Contains(nodes, r.item)
        <4>1. nodes' = nodes
          BY <2>1, <3>2 DEF RemoveFirst, Contains
        <4>2. nodes' = Promise!Effect(nodes, r)
          BY <4>1, <2>1, <3>2, <1>4 DEF Promise!Effect, Contains, Promise!Contains
        <4>. QED  BY <4>1, <4>2, <1>1
      <3>. QED  BY <3>1, <3>2
    <2>3. Reply(c, Promise!Response(nodes, r, id))
      BY <2>1, <1>4 DEF ReplySuccess, Respond, Promise!Response, Promise!Outcome
    <2>. QED  BY <2>2, <2>3, <1>4
  <1>5. CASE r.cmd \in {"node.add", "node.remove"} /\ r.item = NoItem
    <2>1. nodes' = nodes /\ ReplyError(c, id)
      <3>1. ~Valid(r.item)
        BY <1>5 DEF Valid
      <3>2. CASE r.cmd = "node.add"
        BY <3>1, <3>2 DEF ParseRequest, HandleNodeAdd
      <3>3. CASE r.cmd = "node.remove"
        BY <3>1, <3>3 DEF ParseRequest, HandleNodeRemove
      <3>. QED  BY <1>5, <3>2, <3>3
    <2>2. nodes' = Promise!Effect(nodes, r)
      <3>1. ~Contains(nodes, r.item)
        BY <1>1, <1>5, CommandAssumption DEF Contains
      <3>. QED  BY <2>1, <3>1, <1>5 DEF Promise!Effect, Contains, Promise!Contains
    <2>3. Reply(c, Promise!Response(nodes, r, id))
      BY <2>1, <1>5 DEF ReplyError, Respond, Promise!Response, Promise!Outcome
    <2>. QED  BY <2>1, <2>2, <2>3, <1>1, <1>5
  <1>6. CASE r.cmd \in {"node.list", "ping", "run"} /\ r.item = NoItem
    <2>1. nodes' = nodes
      BY <1>6 DEF ParseRequest, HandleNodeList, HandlePing, HandleUnknownCommand
    <2>2. nodes' = Promise!Effect(nodes, r)
      BY <2>1, <1>6 DEF Promise!Effect
    <2>3. CASE r.cmd = "node.list"
      BY <2>1, <2>2, <2>3, <1>1 DEF ParseRequest, HandleNodeList, Respond, Promise!Response,
           Promise!Outcome
    <2>4. CASE r.cmd = "ping"
      BY <2>1, <2>2, <2>4, <1>1 DEF ParseRequest, HandlePing, Respond, Promise!Response,
           Promise!Outcome
    <2>5. CASE r.cmd = "run"
      BY <2>1, <2>2, <2>5, <1>1 DEF ParseRequest, HandleUnknownCommand
    <2>. QED  BY <2>3, <2>4, <2>5, <1>6
  <1>. QED  BY <1>2, <1>3, <1>4, <1>5, <1>6

\* So every reply is a response to its client's own request.
LEMMA ParseReplies ==
    ASSUME IInv, ParseRequest
    PROVE  \/ UNCHANGED <<writes, said>>
           \/ \E res \in Responses : Reply(reading, res)
  <1> DEFINE r  == sent[reading][taken[reading] + 1]
             id == taken[reading] + 1
  <1>1. \/ UNCHANGED <<writes, said>>
        \/ Reply(reading, Promise!Response(nodes, r, id))
    BY ParseEffect
  <1>2. id \in Nat /\ nodes \in Seq(Item)
    BY NextRequest DEF IInv, TypeOK, ParseRequest
  <1>3. Promise!Response(nodes, r, id) \in Responses
    BY <1>2 DEF Promise!Response, Promise!Outcome, Responses, Outcomes
  <1>. QED  BY <1>1, <1>3

----------------------------------------------------------------------------
(* Every step keeps it.                                                    *)

LEMMA TypeKept == IInv /\ [Next]_vars => TypeOK'
  <1> SUFFICES ASSUME IInv, [Next]_vars PROVE TypeOK'
    OBVIOUS
  <1> USE RequestsAssumption
  <1>0. TypeOK
    BY DEF IInv
  <1>1. ASSUME NEW c \in Client, NEW r \in Asks[c], Send(c, r)
        PROVE  TypeOK'
    BY <1>0, <1>1, AsksCommands DEF Send, TypeOK, ConnStates
  <1>2. ASSUME NEW c \in Client, SendUnit(c)
        PROVE  TypeOK'
    <2>1. unsent[c] \in Nat /\ unsent[c] > 0 /\ wire[c] \in Nat
      BY <1>0, <1>2 DEF SendUnit, TypeOK
    <2>2. unsent[c] - 1 \in Nat /\ wire[c] + 1 \in Nat
      BY <2>1
    <2>. QED  BY <1>0, <1>2, <2>2 DEF SendUnit, TypeOK
  <1>3. ASSUME NEW c \in Client, HangUp(c)
        PROVE  TypeOK'
    BY <1>0, <1>3 DEF HangUp, TypeOK, ConnStates
  <1>4. ASSUME NEW c \in Client, Flush(c)
        PROVE  TypeOK'
    <2>1. Head(writes[c]) \in Responses /\ Tail(writes[c]) \in Seq(Responses)
      BY <1>0, <1>4, HeadTailProperties DEF Flush, TypeOK, ConnStates
    <2>2. Append(got[c], Head(writes[c])) \in Seq(Responses)
      BY <1>0, <2>1 DEF TypeOK, ConnStates
    <2>. QED  BY <1>0, <1>4, <2>1, <2>2 DEF Flush, TypeOK, ConnStates
  <1>5. ASSUME NEW c \in Client, OnConnect(c)
        PROVE  TypeOK'
    BY <1>0, <1>5 DEF OnConnect, TypeOK, ConnStates
  <1>6. ASSUME NEW c \in Client, Read(c)
        PROVE  TypeOK'
    <2>1. PICK n \in 1..(MaxRequests[c] * FrameUnits) : OnRead(c, n)
      BY <1>6 DEF Read
    <2> DEFINE q == (buf[c] + n) \div FrameUnits
               m == (buf[c] + n) % FrameUnits
    <2>2. n \in Nat /\ n <= wire[c] /\ wire[c] \in Nat /\ buf[c] \in Nat
      BY <1>0, <2>1, ReadSize DEF OnRead, TypeOK
    <2>5. wire[c] - n \in Nat /\ buf[c] + n \in Nat
      BY <2>2
    <2>3. q \in Nat /\ m \in 0..(FrameUnits - 1)
      BY <2>5, DivMod, RequestsAssumption
    <2>4. /\ wire' = [wire EXCEPT ![c] = @ - n] /\ buf' = [buf EXCEPT ![c] = m]
          /\ reading' = c /\ framec' = q
          /\ UNCHANGED <<conn, sent, unsent, taken, nodes, writes, got, said>>
      BY <2>1 DEF OnRead
    <2> HIDE DEF q, m
    <2>. QED  BY <1>0, <2>5, <2>3, <2>4 DEF TypeOK
  <1>7. ASSUME NEW c \in Client, OnReadEof(c)
        PROVE  TypeOK'
    BY <1>0, <1>7 DEF OnReadEof, TypeOK, ConnStates
  <1>8. CASE ParseRequest
    <2>1. /\ UNCHANGED <<conn, sent, unsent, wire, buf, reading, got>>
          /\ framec > 0 /\ framec' = framec - 1
          /\ taken' = [taken EXCEPT ![reading] = taken[reading] + 1]
      BY <1>8 DEF ParseRequest
    <2>2. reading \in Client
      BY <2>1, NextRequest DEF IInv
    <2>3. nodes' \in Seq(Item)
      BY <1>8, ParseEffect
    <2>4. writes' \in [Client -> Seq(Responses)] /\ said' \in [Client -> Seq(Responses)]
      <3>1. CASE UNCHANGED <<writes, said>>
        BY <1>0, <3>1 DEF TypeOK, ConnStates
      <3>2. ASSUME NEW res \in Responses, Reply(reading, res)
            PROVE  writes' \in [Client -> Seq(Responses)] /\ said' \in [Client -> Seq(Responses)]
        BY <1>0, <2>2, <3>2 DEF Reply, TypeOK
      <3>. QED  BY <1>8, <3>1, <3>2, ParseReplies
    <2>5. framec' \in Nat /\ taken' \in [Client -> Nat]
      BY <1>0, <2>1, <2>2 DEF TypeOK, ConnStates
    <2>. QED  BY <1>0, <2>1, <2>3, <2>4, <2>5 DEF TypeOK, ConnStates
  <1>9. CASE OnReadEnd
    BY <1>0, <1>9 DEF OnReadEnd, TypeOK, ConnStates
  <1>10. CASE UNCHANGED vars
    BY <1>0, <1>10 DEF vars, TypeOK, ConnStates
  <1>. QED  BY <1>1, <1>2, <1>3, <1>4, <1>5, <1>6, <1>7, <1>8, <1>9, <1>10 DEF Next

LEMMA ReaderKept == IInv /\ [Next]_vars => Reader'
  <1> SUFFICES ASSUME IInv, [Next]_vars PROVE Reader'
    OBVIOUS
  <1> USE DEF Reader
  <1>0. Reader /\ TypeOK
    BY DEF IInv
  <1>1. CASE \E c \in Client : SendUnit(c) \/ Flush(c) \/ \E r \in Asks[c] : Send(c, r)
    BY <1>0, <1>1 DEF SendUnit, Flush, Send
  <1>2. ASSUME NEW c \in Client, HangUp(c)
        PROVE  Reader'
    BY <1>0, <1>2, ClientAssumption DEF HangUp, TypeOK
  <1>3. ASSUME NEW c \in Client, OnConnect(c)
        PROVE  Reader'
    BY <1>0, <1>3 DEF OnConnect, MainFree
  <1>4. ASSUME NEW c \in Client, Read(c)
        PROVE  Reader'
    BY <1>0, <1>4, ClientAssumption DEF Read, OnRead
  <1>5. ASSUME NEW c \in Client, OnReadEof(c)
        PROVE  Reader'
    BY <1>0, <1>5 DEF OnReadEof, MainFree
  <1>6. CASE ParseRequest
    BY <1>0, <1>6 DEF ParseRequest
  <1>7. CASE OnReadEnd \/ UNCHANGED vars
    BY <1>0, <1>7 DEF OnReadEnd, vars
  <1>. QED  BY <1>1, <1>2, <1>3, <1>4, <1>5, <1>6, <1>7 DEF Next

\* The number of pieces of c's requests between the client and the handlers.
InHand(c) == IF reading = c THEN framec ELSE 0

LEMMA FramesKept == IInv /\ [Next]_vars => FramesInStep'
  <1> SUFFICES ASSUME IInv, [Next]_vars,
                      NEW d \in Client, (conn[d] # "gone")'
               PROVE  (FrameUnits * (taken[d] + InHand(d))
                          + buf[d] + wire[d] + unsent[d]
                       = FrameUnits * Len(sent[d]))'
    BY DEF FramesInStep, InHand
  <1> DEFINE Goal == (FrameUnits * (taken[d] + InHand(d))
                          + buf[d] + wire[d] + unsent[d]
                       = FrameUnits * Len(sent[d]))'
  <1>0. /\ TypeOK /\ Reader /\ FrameUnits \in Nat \ {0}
        /\ taken[d] \in Nat /\ framec \in Nat /\ InHand(d) \in Nat
        /\ buf[d] \in Nat /\ wire[d] \in Nat /\ unsent[d] \in Nat
        /\ Len(sent[d]) \in Nat
    <2>1. TypeOK /\ Reader /\ FrameUnits \in Nat \ {0}
      BY RequestsAssumption DEF IInv
    <2>2. /\ taken[d] \in Nat /\ framec \in Nat
          /\ buf[d] \in Nat /\ wire[d] \in Nat /\ unsent[d] \in Nat
      BY <2>1 DEF TypeOK
    <2>3. sent[d] \in Seq(Command)
      BY <2>1 DEF TypeOK
    <2>4. Len(sent[d]) \in Nat
      BY <2>3, LenProperties
    <2>. QED  BY <2>1, <2>2, <2>4 DEF InHand
  <1>00. conn[d] # "gone" =>
            FrameUnits * (taken[d] + InHand(d)) + buf[d] + wire[d] + unsent[d]
            = FrameUnits * Len(sent[d])
    BY DEF IInv, FramesInStep, InHand
  <1>1. ASSUME NEW c \in Client, NEW r \in Asks[c], Send(c, r)
        PROVE  Goal
    <2>1. CASE d = c
      <3>1. Len(sent'[d]) = Len(sent[d]) + 1 /\ unsent[d] = 0 /\ unsent'[d] = FrameUnits
        BY <1>0, <1>1, <2>1 DEF Send, TypeOK
      <3>2. FrameUnits * (Len(sent[d]) + 1) = FrameUnits * Len(sent[d]) + FrameUnits
        BY <1>0, Times
      <3>3. UNCHANGED <<taken, buf, wire, framec, reading, conn>>
        BY <1>1 DEF Send
      <3>4. InHand(d)' = InHand(d)
        BY <3>3 DEF InHand
      <3> DEFINE x == FrameUnits * (taken[d] + InHand(d))
                 y == FrameUnits * Len(sent[d])
      <3>5. x \in Nat /\ y \in Nat /\ FrameUnits \in Nat
        BY <1>0, Times
      <3>6. x + buf[d] + wire[d] + unsent[d] = y
        BY <1>00, <3>3
      <3> HIDE DEF x, y
      <3>7. x + buf[d] + wire[d] + FrameUnits = y + FrameUnits
        BY <1>0, <3>1, <3>5, <3>6
      <3>. QED  BY <3>1, <3>2, <3>3, <3>4, <3>7 DEF x, y
    <2>2. CASE d # c
      BY <1>0, <1>00, <1>1, <2>2 DEF Send, InHand, TypeOK
    <2>. QED  BY <2>1, <2>2
  <1>2. ASSUME NEW c \in Client, SendUnit(c)
        PROVE  Goal
    <2> DEFINE x == FrameUnits * (taken[d] + InHand(d))
    <2>1. x \in Nat
      BY <1>0, Times
    <2>2. /\ UNCHANGED <<taken, sent, buf, framec, reading, conn>>
          /\ InHand(d)' = InHand(d)
      BY <1>2 DEF SendUnit, InHand
    <2>3. \/ wire'[d] = wire[d] /\ unsent'[d] = unsent[d]
          \/ wire'[d] = wire[d] + 1 /\ unsent'[d] = unsent[d] - 1
      BY <1>0, <1>2 DEF SendUnit, TypeOK
    <2> HIDE DEF x
    <2>4. x + buf[d] + wire'[d] + unsent'[d] = x + buf[d] + wire[d] + unsent[d]
      <3>1. /\ x \in Nat /\ buf[d] \in Nat /\ wire[d] \in Nat /\ unsent[d] \in Nat
        BY <1>0, <2>1
      <3>. QED  BY <2>3, <3>1
    <2>. QED  BY <1>00, <2>2, <2>4 DEF x
  <1>3. ASSUME NEW c \in Client, HangUp(c) \/ OnConnect(c)
        PROVE  Goal
    BY <1>0, <1>00, <1>3 DEF HangUp, OnConnect, InHand, TypeOK
  <1>4. ASSUME NEW c \in Client, Flush(c)
        PROVE  Goal
    BY <1>0, <1>00, <1>4 DEF Flush, InHand
  <1>5. ASSUME NEW c \in Client, Read(c)
        PROVE  Goal
    <2>1. PICK n \in 1..(MaxRequests[c] * FrameUnits) : OnRead(c, n)
      BY <1>5 DEF Read
    <2>2. MainFree /\ InHand(d) = 0
      BY <1>0, <2>1, ClientAssumption DEF OnRead, MainFree, InHand
    <2>3. CASE d = c
      <3> DEFINE q == (buf[d] + n) \div FrameUnits
                 m == (buf[d] + n) % FrameUnits
      <3>1. n \in Nat /\ n <= wire[d]
        BY <2>1, <2>3, ReadSize DEF OnRead
      <3>2. q \in Nat /\ m \in Nat /\ FrameUnits * q + m = buf[d] + n
        <4>1. buf[d] + n \in Nat
          BY <1>0, <3>1
        <4>. QED  BY <1>0, <4>1, DivMod
      <3>3. /\ InHand(d)' = q /\ buf'[d] = m /\ wire'[d] = wire[d] - n
            /\ UNCHANGED <<taken, sent, unsent>>
        BY <1>0, <2>1, <2>3 DEF OnRead, InHand, TypeOK
      <3> HIDE DEF q, m
      <3> DEFINE x == FrameUnits * taken[d]
                 y == FrameUnits * Len(sent[d])
                 z == FrameUnits * q
      <3>4. FrameUnits * (taken[d] + q) = FrameUnits * taken[d] + FrameUnits * q
        BY <1>0, <3>2, Times
      <3>5. x \in Nat /\ y \in Nat /\ z \in Nat /\ z + m = buf[d] + n
        BY <1>0, <3>2, Times
      <3>6. conn[d] # "gone"
        BY <2>1, <2>3 DEF OnRead
      <3>7. x + buf[d] + wire[d] + unsent[d] = y
        BY <1>0, <1>00, <2>2, <3>6
      <3> HIDE DEF x, y, z
      <3>8. (x + z) + m + (wire[d] - n) + unsent[d] = y
        <4>1. /\ x \in Nat /\ y \in Nat /\ z \in Nat /\ m \in Nat /\ n \in Nat
              /\ buf[d] \in Nat /\ wire[d] \in Nat /\ unsent[d] \in Nat
          BY <1>0, <3>1, <3>2, <3>5
        <4>. QED  BY <4>1, <3>5, <3>7, ReadSum
      <3>. QED  BY <3>3, <3>4, <3>8 DEF x, y, z
    <2>4. CASE d # c
      BY <1>0, <1>00, <2>1, <2>2, <2>4 DEF OnRead, InHand, TypeOK
    <2>. QED  BY <2>3, <2>4
  <1>6. ASSUME NEW c \in Client, OnReadEof(c)
        PROVE  Goal
    BY <1>0, <1>00, <1>6 DEF OnReadEof, InHand, TypeOK
  <1>7. CASE ParseRequest
    <2>1. /\ UNCHANGED <<conn, sent, unsent, wire, buf, reading>>
          /\ framec > 0 /\ framec' = framec - 1
          /\ taken' = [taken EXCEPT ![reading] = @ + 1]
      BY <1>7 DEF ParseRequest
    <2>2. taken'[d] + InHand(d)' = taken[d] + InHand(d)
      BY <1>0, <2>1 DEF InHand, TypeOK
    <2>. QED  BY <1>00, <2>1, <2>2
  <1>8. CASE OnReadEnd
    BY <1>0, <1>00, <1>8 DEF OnReadEnd, InHand
  <1>9. CASE UNCHANGED vars
    BY <1>00, <1>9 DEF vars, InHand
  <1>. QED  BY <1>1, <1>2, <1>3, <1>4, <1>5, <1>6, <1>7, <1>8, <1>9 DEF Next

LEMMA RepliesKept == IInv /\ [Next]_vars => Replies'
  <1> SUFFICES ASSUME IInv, [Next]_vars, NEW d \in Client
               PROVE  /\ IsPrefix(got'[d], said'[d])
                      /\ IF conn'[d] = "gone" THEN writes'[d] = <<>>
                         ELSE got'[d] \o writes'[d] = said'[d]
    BY DEF Replies
  <1> DEFINE Goal == /\ IsPrefix(got'[d], said'[d])
                     /\ IF conn'[d] = "gone" THEN writes'[d] = <<>>
                        ELSE got'[d] \o writes'[d] = said'[d]
  <1>0. /\ TypeOK /\ Reader
        /\ got[d] \in Seq(Responses) /\ writes[d] \in Seq(Responses)
        /\ said[d] \in Seq(Responses)
    BY DEF IInv, TypeOK
  <1>00. /\ IsPrefix(got[d], said[d])
         /\ IF conn[d] = "gone" THEN writes[d] = <<>> ELSE got[d] \o writes[d] = said[d]
    BY DEF IInv, Replies
  <1>1. ASSUME NEW c \in Client,
               SendUnit(c) \/ HangUp(c) \/ Read(c) \/ \E r \in Asks[c] : Send(c, r)
        PROVE  Goal
    <2>1. /\ UNCHANGED <<got, writes, said>>
          /\ conn'[d] = "gone" <=> conn[d] = "gone"
      BY <1>0, <1>1 DEF SendUnit, HangUp, Read, OnRead, Send, TypeOK
    <2>. QED  BY <1>00, <2>1
  <1>2. ASSUME NEW c \in Client, Flush(c)
        PROVE  Goal
    <2>1. CASE d = c
      <3>1. /\ conn[d] = "open" /\ conn' = conn /\ writes[d] # <<>> /\ said' = said
            /\ got'[d] = Append(got[d], Head(writes[d]))
            /\ writes'[d] = Tail(writes[d])
        BY <1>0, <1>2, <2>1 DEF Flush, TypeOK
      <3>2. got'[d] \o writes'[d] = said'[d]
        BY <1>0, <1>00, <3>1, MoveHead
      <3>3. got'[d] \in Seq(Responses) /\ writes'[d] \in Seq(Responses)
        <4>1. Head(writes[d]) \in Responses /\ Tail(writes[d]) \in Seq(Responses)
          BY <1>0, <3>1, HeadTailProperties
        <4>. QED  BY <1>0, <3>1, <4>1, AppendProperties
      <3>4. IsPrefix(got'[d], got'[d] \o writes'[d])
        BY <3>3, PrefixOfConcat
      <3>. QED  BY <3>1, <3>2, <3>4
    <2>2. CASE d # c
      BY <1>0, <1>00, <1>2, <2>2 DEF Flush, TypeOK
    <2>. QED  BY <2>1, <2>2
  <1>3. ASSUME NEW c \in Client, OnConnect(c)
        PROVE  Goal
    <2>1. /\ UNCHANGED <<got, writes, said>>
          /\ conn'[d] = "gone" <=> conn[d] = "gone"
      BY <1>0, <1>3 DEF OnConnect, TypeOK
    <2>. QED  BY <1>00, <2>1
  <1>4. ASSUME NEW c \in Client, OnReadEof(c)
        PROVE  Goal
    <2>1. /\ UNCHANGED <<got, said>>
          /\ d # c => conn'[d] = conn[d] /\ writes'[d] = writes[d]
          /\ d = c => conn'[d] = "gone" /\ writes'[d] = <<>>
      BY <1>0, <1>4 DEF OnReadEof, TypeOK
    <2>. QED  BY <1>00, <2>1
  <1>5. CASE ParseRequest
    <2>1. UNCHANGED <<conn, got>> /\ reading \in Client /\ conn[reading] # "gone"
      BY <1>5, NextRequest DEF ParseRequest, IInv, Reader
    <2>2. CASE UNCHANGED <<writes, said>>
      BY <1>00, <2>1, <2>2
    <2>3. ASSUME NEW res \in Responses, Reply(reading, res)
          PROVE  Goal
      <3>1. CASE d = reading
        <4>1. writes'[d] = Append(writes[d], res) /\ said'[d] = Append(said[d], res)
          BY <1>0, <2>3, <3>1 DEF Reply, TypeOK
        <4>2. got[d] \o Append(writes[d], res) = Append(got[d] \o writes[d], res)
          <5>1. \A a, b \in Seq(Responses) : a \o Append(b, res) = Append(a \o b, res)
            BY AppendOfConcat
          <5>2. got[d] \in Seq(Responses) /\ writes[d] \in Seq(Responses)
            BY <1>0
          <5>. QED  BY <5>1, <5>2, Zenon
        <4>3. IsPrefix(got[d], Append(said[d], res))
          BY <1>0, <1>00, PrefixOfAppend
        <4>. QED  BY <1>00, <2>1, <3>1, <4>1, <4>2, <4>3
      <3>2. CASE d # reading
        BY <1>0, <1>00, <2>1, <2>3, <3>2 DEF Reply, TypeOK
      <3>. QED  BY <3>1, <3>2
    <2>. QED  BY <1>5, <2>2, <2>3, ParseReplies
  <1>6. CASE OnReadEnd \/ UNCHANGED vars
    BY <1>00, <1>6 DEF OnReadEnd, vars
  <1>. QED  BY <1>1, <1>2, <1>3, <1>4, <1>5, <1>6 DEF Next

LEMMA NodesKept == IInv /\ [Next]_vars => NoRepeats(nodes')
  <1> SUFFICES ASSUME IInv, [Next]_vars PROVE NoRepeats(nodes')
    OBVIOUS
  <1>1. CASE ParseRequest
    BY <1>1, ParseEffect
  <1>2. CASE nodes' = nodes
    BY <1>2 DEF IInv
  <1>3. ParseRequest \/ nodes' = nodes
    BY DEF Next, Send, SendUnit, HangUp, Flush, OnConnect, Read, OnRead,
           OnReadEof, OnReadEnd, vars
  <1>. QED  BY <1>1, <1>2, <1>3

LEMMA Inductive == Spec => []IInv
  <1>1. IInv /\ [Next]_vars => IInv'
    BY TypeKept, ReaderKept, FramesKept, RepliesKept, NodesKept DEF IInv
  <1>. QED  BY InitImpliesIInv, <1>1, PTL DEF Spec

----------------------------------------------------------------------------
(* The theorems.                                                           *)

\* Type correctness, for any number of clients and requests.
THEOREM TypeCorrect == Spec => []TypeOK
  <1>1. IInv => TypeOK
    BY DEF IInv
  <1>. QED  BY Inductive, <1>1, PTL

\* on_read and client->buf (api.c:219) never lose or double a piece of a
\* request, whatever the length of a frame and wherever a read cuts it.
THEOREM StaysInStep == Spec => []FramesInStep
  <1>1. IInv => FramesInStep
    BY DEF IInv
  <1>. QED  BY Inductive, <1>1, PTL

----------------------------------------------------------------------------
(* The responses and the requests they answer.                             *)

\* Every response to c answers one of its requests, and none that was handled
\* is left over.
Told(c) ==
    /\ taken[c] \in 0..Len(sent[c])
    /\ Answers(c, said[c])
    /\ \A i \in 1..taken[c] : sent[c][i] \in Silent \/ \E k \in DOMAIN said[c] : said[c][k].id = i

\* The unknown command is the one that gets no response.
SilentUnknown == Silent = {r \in Command : r.cmd = "run"}

\* A client that sends one more request has the same answers.
LEMMA SendKeepsTold ==
    ASSUME IInv, NEW c \in Client, Told(c),
           NEW r \in Command, sent'[c] = Append(sent[c], r), UNCHANGED <<taken, said>>
    PROVE  Told(c)'
  <1> DEFINE n == Len(sent[c])
  <1>1. sent[c] \in Seq(Command) /\ n \in Nat /\ taken[c] \in 0..n
    BY DEF IInv, TypeOK, Told
  <1>2. Len(sent'[c]) = n + 1 /\ \A i \in 1..n : sent'[c][i] = sent[c][i]
    BY <1>1
  <1> HIDE DEF n
  <1>3. \A i \in 1..taken[c] : sent'[c][i] = sent[c][i]
    BY <1>1, <1>2
  <1>4. taken'[c] \in 0..Len(sent'[c])
    BY <1>1, <1>2
  <1>5. \A k \in DOMAIN said[c] : \A i \in 1..said[c][k].id : i \in 1..taken[c]
    BY <1>1 DEF Told, Answers
  <1>6. Answers(c, said[c])'
    BY <1>3, <1>5 DEF Told, Answers
  <1>. QED  BY <1>3, <1>4, <1>6 DEF Told

\* parse_request adds the answer to the next request, if it has one.
LEMMA ParseKeepsTold ==
    ASSUME IInv, SilentUnknown, ParseRequest,
           NEW c \in Client, c = reading, Told(c)
    PROVE  Told(c)'
  <1> DEFINE t  == taken[c]
             r  == sent[c][t + 1]
             log == said[c]
             n  == Len(log)
             res == Promise!Response(nodes, r, t + 1)
  <1>1. t \in Nat /\ t + 1 \in 1..Len(sent[c]) /\ r \in Command
    BY NextRequest DEF IInv, TypeOK, ParseRequest
  <1>2. taken'[c] = t + 1 /\ sent' = sent
    BY <1>1 DEF ParseRequest, IInv, TypeOK
  <1>3. taken'[c] \in 0..Len(sent'[c])
    BY <1>1, <1>2
  <1>4. /\ \A k \in DOMAIN log : /\ log[k].id \in 1..t
                                /\ sent[c][log[k].id] \notin Silent
                                /\ log[k].outcome = Promise!Outcome(sent[c][log[k].id])
        /\ \A j, k \in DOMAIN log : j < k => log[j].id < log[k].id
        /\ \A k \in DOMAIN log : \A i \in 1..log[k].id :
              sent[c][i] \in Silent \/ \E j \in DOMAIN log : log[j].id = i
        /\ \A i \in 1..t : sent[c][i] \in Silent \/ \E k \in DOMAIN log : log[k].id = i
    BY DEF Told, Answers
  <1>5. r \in Silent <=> r.cmd = "run"
    BY <1>1 DEF SilentUnknown
  <1>6. CASE r.cmd = "run"
    <2>1. said' = said /\ r \in Silent
      BY <1>5, <1>6, ParseEffect
    <2>2. Answers(c, said[c])'
      BY <1>1, <1>2, <1>4, <2>1 DEF Answers
    <2>3. \A i \in 1..(t + 1) : sent[c][i] \in Silent \/ \E k \in DOMAIN log : log[k].id = i
      BY <1>1, <1>4, <2>1
    <2>. QED  BY <1>2, <1>3, <2>1, <2>2, <2>3 DEF Told, ParseRequest
  <1>7. CASE r.cmd # "run"
    <2>1. Reply(c, res) /\ res \in Responses /\ r \notin Silent
      <3>1. Reply(c, res)
        BY <1>7, ParseEffect
      <3>2. nodes \in Seq(Item)
        BY DEF IInv, TypeOK
      <3>3. res \in Responses
        BY <1>1, <3>2 DEF Promise!Response, Promise!Outcome, Responses, Outcomes
      <3>. QED  BY <1>5, <1>7, <3>1, <3>3
    <2>2. log \in Seq(Responses) /\ said'[c] = Append(log, res)
      BY <1>1, <2>1 DEF Reply, IInv, TypeOK
    <2>3. /\ DOMAIN log = 1..n /\ n \in Nat /\ DOMAIN said'[c] = 1..(n + 1)
          /\ \A k \in 1..n : said'[c][k] = log[k]
          /\ said'[c][n + 1] = res
      BY <2>2
    <2>4. res.id = t + 1 /\ res.outcome = Promise!Outcome(r)
      BY DEF Promise!Response
    <2> DEFINE new == said'[c]
    <2> HIDE DEF n, res, new
    <2>5. \A k \in 1..n : new[k] = log[k] /\ log[k].id \in 1..t
      BY <1>4, <2>3 DEF new
    <2>6. new[n + 1].id = t + 1 /\ new[n + 1].outcome = Promise!Outcome(r)
      BY <2>3, <2>4 DEF new
    <2>7. ASSUME NEW k \in 1..(n + 1)
          PROVE  /\ new[k].id \in 1..(t + 1)
                 /\ sent[c][new[k].id] \notin Silent
                 /\ new[k].outcome = Promise!Outcome(sent[c][new[k].id])
      <3>1. CASE k = n + 1
        <4>1. new[k].id = t + 1 /\ new[k].outcome = Promise!Outcome(r)
          BY <2>6, <3>1
        <4>2. sent[c][new[k].id] = r
          BY <4>1
        <4>. QED  BY <1>1, <2>1, <4>1, <4>2
      <3>2. CASE k \in 1..n
        <4>1. new[k] = log[k] /\ k \in DOMAIN log
          BY <2>3, <2>5, <3>2
        <4>2. /\ log[k].id \in 1..t
              /\ sent[c][log[k].id] \notin Silent
              /\ log[k].outcome = Promise!Outcome(sent[c][log[k].id])
          BY <1>4, <4>1
        <4>3. log[k].id \in 1..(t + 1)
          BY <1>1, <4>2
        <4>. QED  BY <4>1, <4>2, <4>3
      <3>. QED  BY <2>3, <3>1, <3>2
    <2>8. ASSUME NEW j \in 1..(n + 1), NEW k \in 1..(n + 1), j < k
          PROVE  new[j].id < new[k].id
      <3>1. j \in 1..n
        BY <2>3, <2>8
      <3>2. CASE k = n + 1
        BY <1>1, <2>5, <2>6, <3>1, <3>2
      <3>3. CASE k \in 1..n
        BY <1>4, <2>3, <2>5, <2>8, <3>1, <3>3
      <3>. QED  BY <2>3, <3>2, <3>3
    <2>9. ASSUME NEW i \in 1..(t + 1)
          PROVE  sent[c][i] \in Silent \/ \E k \in 1..(n + 1) : new[k].id = i
      <3>1. CASE i = t + 1
        BY <2>3, <2>6, <3>1
      <3>2. CASE i \in 1..t
        BY <1>4, <2>3, <2>5, <3>2
      <3>. QED  BY <1>1, <3>1, <3>2
    <2>10. \A k \in 1..(n + 1) : \A i \in 1..new[k].id : i \in 1..(t + 1)
      BY <1>1, <2>7
    <2>11. Answers(c, said[c])'
      BY <1>2, <2>3, <2>7, <2>8, <2>9, <2>10 DEF Answers, new, ParseRequest
    <2>. QED  BY <1>2, <1>3, <2>3, <2>9, <2>11 DEF Told, new, ParseRequest
  <1>. QED  BY <1>6, <1>7

LEMMA NextTold ==
    ASSUME IInv, SilentUnknown, [Next]_vars, NEW d \in Client, Told(d)
    PROVE  Told(d)'
  <1>0. sent \in [Client -> Seq(Command)] /\ taken \in [Client -> Nat]
        /\ said \in [Client -> Seq(Responses)]
    BY DEF IInv, TypeOK
  <1>1. ASSUME NEW c \in Client, NEW r \in Asks[c], Send(c, r)
        PROVE  Told(d)'
    <2>1. r \in Command /\ UNCHANGED <<taken, said>>
          /\ sent' = [sent EXCEPT ![c] = Append(@, r)]
      BY <1>1, AsksCommands DEF Send
    <2>2. CASE c = d
      BY <1>0, <2>1, <2>2, SendKeepsTold
    <2>3. CASE c # d
      <3>1. sent'[d] = sent[d]
        BY <1>0, <2>1, <2>3
      <3>. QED  BY <2>1, <3>1 DEF Told, Answers
    <2>. QED  BY <2>2, <2>3
  <1>2. CASE ParseRequest
    <2>1. CASE d = reading
      BY <1>2, <2>1, ParseKeepsTold
    <2>2. CASE d # reading
      <3>1. reading \in Client
        BY <1>2, NextRequest DEF IInv, ParseRequest
      <3>2. sent' = sent /\ taken'[d] = taken[d]
        BY <1>0, <1>2, <2>2, <3>1 DEF ParseRequest
      <3>3. said'[d] = said[d]
        BY <1>0, <1>2, <2>2, <3>1, ParseReplies DEF Reply
      <3>. QED  BY <3>2, <3>3 DEF Told, Answers
    <2>. QED  BY <2>1, <2>2
  <1>3. CASE UNCHANGED <<sent, taken, said>>
    BY <1>3 DEF Told, Answers
  <1>4. \/ ParseRequest \/ UNCHANGED <<sent, taken, said>>
        \/ \E c \in Client : \E r \in Asks[c] : Send(c, r)
    BY DEF Next, SendUnit, HangUp, Flush, OnConnect, Read, OnRead, OnReadEof, OnReadEnd, vars
  <1>. QED  BY <1>1, <1>2, <1>3, <1>4

\* What is received and queued is the beginning of what was said, and all of
\* it until the client is gone.
LEMMA HeardOfSaid ==
    ASSUME IInv, NEW c \in Client, NEW log, log = got[c] \o writes[c]
    PROVE  /\ log \in Seq(Responses) /\ Len(log) <= Len(said[c])
           /\ \A k \in DOMAIN log : k \in DOMAIN said[c] /\ log[k] = said[c][k]
           /\ conn[c] # "gone" => log = said[c]
  <1>1. /\ got[c] \in Seq(Responses) /\ writes[c] \in Seq(Responses)
        /\ said[c] \in Seq(Responses)
    BY DEF IInv, TypeOK
  <1>2. CASE conn[c] # "gone"
    <2>1. log = said[c]
      BY <1>2 DEF IInv, Replies
    <2>2. Len(log) <= Len(said[c])
      BY <1>1, <2>1
    <2>. QED  BY <1>1, <2>1, <2>2
  <1>3. CASE conn[c] = "gone"
    <2>1. log = got[c]
      <3>1. writes[c] = <<>>
        BY <1>3 DEF IInv, Replies
      <3>. QED  BY <1>1, <3>1, ConcatEmptySeq
    <2> DEFINE n == Len(got[c])
    <2>2. n <= Len(said[c]) /\ SubSeq(got[c], 1, n) = SubSeq(said[c], 1, n)
      BY DEF IInv, Replies, IsPrefix
    <2>3. ASSUME NEW k \in 1..n
          PROVE  k \in 1..Len(said[c]) /\ got[c][k] = said[c][k]
      <3>1. SubSeq(got[c], 1, n)[k] = got[c][k] /\ SubSeq(said[c], 1, n)[k] = said[c][k]
        BY <1>1, <2>2
      <3>. QED  BY <1>1, <2>2, <3>1
    <2>. QED  BY <1>1, <1>3, <2>1, <2>2, <2>3
  <1>. QED  BY <1>2, <1>3

\* The beginning of a log of answers is one as well: what answers a request
\* before one that is in it comes earlier.
LEMMA ToldIsHeard ==
    ASSUME IInv, NEW c \in Client, Told(c)
    PROVE  Answers(c, got[c] \o writes[c])
  <1> DEFINE log == got[c] \o writes[c]
             all == said[c]
  <1>1. /\ log \in Seq(Responses) /\ all \in Seq(Responses) /\ Len(log) <= Len(all)
        /\ \A k \in DOMAIN log : k \in DOMAIN all /\ log[k] = all[k]
    <2>1. all \in Seq(Responses)
      BY DEF IInv, TypeOK
    <2>. QED  BY <2>1, HeardOfSaid
  <1> HIDE DEF log, all
  <1>2. /\ DOMAIN log = 1..Len(log) /\ Len(log) \in Nat
        /\ DOMAIN all = 1..Len(all) /\ Len(all) \in Nat
    BY <1>1, LenProperties
  <1>3. /\ \A k \in DOMAIN all : /\ all[k].id \in 1..taken[c]
                                /\ sent[c][all[k].id] \notin Silent
                                /\ all[k].outcome = Promise!Outcome(sent[c][all[k].id])
        /\ \A j, k \in DOMAIN all : j < k => all[j].id < all[k].id
        /\ \A k \in DOMAIN all : \A i \in 1..all[k].id :
              sent[c][i] \in Silent \/ \E j \in DOMAIN all : all[j].id = i
    BY DEF Told, Answers, all
  <1>4. taken[c] \in Nat
    BY DEF IInv, TypeOK
  <1>5. ASSUME NEW k \in DOMAIN log, NEW i \in 1..log[k].id, sent[c][i] \notin Silent
        PROVE  \E j \in DOMAIN log : log[j].id = i
    <2>1. PICK j \in DOMAIN all : all[j].id = i
      BY <1>1, <1>3, <1>5
    <2>2. all[k].id \in Nat /\ k \in DOMAIN all /\ i <= all[k].id
      BY <1>1, <1>3, <1>4
    <2>3. ~(k < j)
      <3>1. k < j => all[k].id < all[j].id
        BY <1>3, <2>2
      <3>. QED  BY <2>1, <2>2, <3>1
    <2>4. j \in DOMAIN log
      BY <1>2, <2>3
    <2>. QED  BY <1>1, <2>1, <2>4
  <1>6. Answers(c, log)
    BY <1>1, <1>3, <1>5 DEF Answers
  <1>. QED  BY <1>6 DEF log

\* parse_request, the handlers and reply (api.c:88-211): the responses a
\* client receives, and those queued for it, answer its own requests in their
\* order and each once, an error for exactly those that name no node, and
\* none that was handled is without one, for any number of clients and
\* requests.
THEOREM RepliesOrdered ==
    ASSUME SilentUnknown
    PROVE  Spec => []RepliesInOrder
  <1> DEFINE AllTold == \A c \in Client : Told(c)
  <1>1. Init => AllTold
    BY DEF Init, Promise!Init, Told, Answers
  <1>2. IInv /\ AllTold /\ [Next]_vars => AllTold'
    BY NextTold
  <1>3. IInv /\ AllTold => RepliesInOrder
    <2> SUFFICES ASSUME IInv, NEW c \in Client, Told(c)
                 PROVE  /\ Answers(c, got[c] \o writes[c])
                        /\ conn[c] # "gone" =>
                              \A i \in 1..taken[c] : sent[c][i] \in Silent
                                \/ \E k \in DOMAIN (got[c] \o writes[c]) :
                                      (got[c] \o writes[c])[k].id = i
      BY DEF RepliesInOrder
    <2>1. conn[c] # "gone" => got[c] \o writes[c] = said[c]
      BY DEF IInv, Replies
    <2>. QED  BY <2>1, ToldIsHeard DEF Told
  <1>. QED  BY <1>1, <1>2, <1>3, Inductive, PTL DEF Spec

----------------------------------------------------------------------------
(* The implementation.                                                     *)

\* parse_request takes the requests of any number of clients one at a time: the
\* server implements AtomicApi, where exactly the unknown command is silent.
THEOREM ServesAtomically ==
    ASSUME SilentUnknown
    PROVE  Spec => Atomic
  <1>1. Init => Promise!Init
    BY DEF Init
  <1>2. IInv /\ [Next]_vars => [Promise!Next]_(Promise!vars)
    <2> SUFFICES ASSUME IInv, [Next]_vars PROVE [Promise!Next]_(Promise!vars)
      OBVIOUS
    <2>1. ASSUME NEW c \in Client, NEW r \in Asks[c], Send(c, r)
          PROVE  Promise!Next
      BY <2>1, AsksCommands DEF Send, Promise!Send, Promise!Next
    <2>2. CASE ParseRequest
      <3> DEFINE c  == reading
                 id == taken[c] + 1
                 r  == sent[c][id]
      <3>1. c \in Client /\ id \in 1..Len(sent[c]) /\ r \in Command
        BY <2>2, NextRequest DEF IInv, ParseRequest
      <3>2. nodes' = Promise!Effect(nodes, r)
        BY <2>2, ParseEffect
      <3>3. sent' = sent /\ taken' = [taken EXCEPT ![c] = id]
        BY <2>2 DEF ParseRequest
      <3>4. said' = IF r \in Silent THEN said
                    ELSE [said EXCEPT ![c] = Append(@, Promise!Response(nodes, r, id))]
        <4>1. r \in Silent <=> r.cmd = "run"
          BY <3>1 DEF SilentUnknown
        <4>2. IF r.cmd = "run" THEN UNCHANGED <<writes, said>>
              ELSE Reply(c, Promise!Response(nodes, r, id))
          BY <2>2, ParseEffect
        <4>. QED  BY <4>1, <4>2 DEF Reply
      <3>5. id <= Len(sent[c])
        BY <3>1
      <3>6. Promise!Take(c)
        BY <3>2, <3>3, <3>4, <3>5 DEF Promise!Take
      <3>. QED  BY <3>1, <3>6 DEF Promise!Next
    <2>3. ASSUME NEW c \in Client,
                 SendUnit(c) \/ HangUp(c) \/ Flush(c) \/ OnConnect(c) \/ Read(c) \/ OnReadEof(c)
          PROVE  UNCHANGED Promise!vars
      BY <2>3 DEF SendUnit, HangUp, Flush, OnConnect, Read, OnRead, OnReadEof, Promise!vars
    <2>4. CASE OnReadEnd \/ UNCHANGED vars
      BY <2>4 DEF OnReadEnd, vars, Promise!vars
    <2>. QED  BY <2>1, <2>2, <2>3, <2>4 DEF Next
  <1>. QED  BY Inductive, <1>1, <1>2, PTL DEF Spec, Atomic, Promise!Spec
=============================================================================
