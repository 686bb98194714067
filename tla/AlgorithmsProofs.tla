--------------------------- MODULE AlgorithmsProofs ---------------------------
(***************************************************************************)
(* The three sequential components that MCAlgorithms runs: the loop of     *)
(* ngx_empty_into computes the closed form of NgxQueue, for queues of any  *)
(* length and any limit; the linked list of adlist.c stands for its        *)
(* sequence of cells, its iterator returns what it should and its lookups  *)
(* find it, for any number of cells and values; the text that main makes   *)
(* of its arguments gives them back, for arguments of any number and       *)
(* length and with any bytes.                                              *)
(***************************************************************************)
EXTENDS EmptyInto, AdList, Config, NgxQueueProofs, WellFoundedInduction, NaturalsInduction

-----------------------------------------------------------------------------
(* The loop of ngx_empty_into (LoopInvariant, Correct).                    *)

\* Any two arguments the loop can be given.
LEMMA InitTypeOK == Init => TypeOK
  <1>1. Queues \subseteq Seq(Elem)
    <2>1. \A n \in 0..MaxLen : n \in Nat
      BY MaxLenAssumption
    <2>2. Seq(Elem) = UNION {[1..n -> Elem] : n \in Nat}
      BY SeqDef
    <2>. QED  BY <2>1, <2>2 DEF Queues
  <1>. QED  BY <1>1, LimitsAssumption DEF Init, TypeOK

\* One iteration moves one element fewer than the call it is part of.
LEMMA IterateMoves ==
    ASSUME TypeOK, Iterate
    PROVE  /\ from' \in Seq(Elem) /\ to' \in Seq(Elem) /\ limit' \in Int
           /\ Len(from) \in Nat \ {0}
           /\ Len(from') = Len(from) - 1
           /\ Moved(from', limit') = Moved(from, limit) - 1
           /\ Moved(from, limit) \in 1..Len(from)
           /\ \A i \in 1..Len(from) - 1 : from'[i] = from[i]
  <1>1. /\ Len(from) \in Nat \ {0}
        /\ \A i \in 1..Len(from) : from[i] \in Elem
    BY LenProperties, EmptySeq DEF TypeOK, Iterate
  <1>2. /\ SubSeq(from, 1, Len(from) - 1) \in Seq(Elem)
        /\ Len(SubSeq(from, 1, Len(from) - 1)) = Len(from) - 1
        /\ \A i \in 1..Len(from) - 1 : SubSeq(from, 1, Len(from) - 1)[i] = from[i]
    <2>1. \A i \in 1..(Len(from) - 1) : from[i] \in Elem
      BY <1>1
    <2>2. Len(from) - 1 \in Int
      BY <1>1
    <2>3. /\ SubSeq(from, 1, Len(from) - 1) \in Seq(Elem)
          /\ Len(SubSeq(from, 1, Len(from) - 1))
               = IF 1 <= Len(from) - 1 THEN (Len(from) - 1) - 1 + 1 ELSE 0
          /\ \A i \in 1..(Len(from) - 1) - 1 + 1 :
               SubSeq(from, 1, Len(from) - 1)[i] = from[1 + i - 1]
      BY <2>1, <2>2, SubSeqProperties
    <2>4. \A i \in 1..Len(from) - 1 :
            i \in 1..(Len(from) - 1) - 1 + 1 /\ 1 + i - 1 = i
      BY <1>1
    <2>5. (IF 1 <= Len(from) - 1 THEN (Len(from) - 1) - 1 + 1 ELSE 0)
            = Len(from) - 1
      <3>1. \A n \in Nat : (IF 1 <= n THEN n - 1 + 1 ELSE 0) = n
        OBVIOUS
      <3>2. Len(from) - 1 \in Nat
        BY <1>1
      <3>. QED  BY <3>1, <3>2
    <2>. QED  BY <2>3, <2>4, <2>5
  <1>3. to' \in Seq(Elem)
    <2>1. <<from[Len(from)]>> \in Seq(Elem)
      BY <1>1
    <2>. QED  BY <2>1, ConcatProperties DEF Iterate, TypeOK
  <1>4. limit' \in Int /\ limit' = limit - 1 /\ limit # 0 /\ limit \in Int
    BY DEF Iterate, TypeOK
  <1>5. Moved(from, limit) \in 1..Len(from)
    BY <1>1, <1>4 DEF Moved
  <1>6. Moved(from', limit') = Moved(from, limit) - 1
    BY <1>1, <1>2, <1>4 DEF Moved, Iterate
  <1>. QED  BY <1>1, <1>2, <1>3, <1>4, <1>5, <1>6 DEF Iterate

\* What stays in from is not changed by an iteration.
LEMMA IterateKeepsFrom ==
    ASSUME TypeOK, Iterate
    PROVE  EmptyFrom(from', limit') = EmptyFrom(from, limit)
  <1> DEFINE k == Moved(from, limit)
             n == Len(from)
  <1>1. /\ n \in Nat \ {0} /\ k \in 1..n
        /\ Len(from') = n - 1
        /\ Moved(from', limit') = k - 1
        /\ \A i \in 1..n - 1 : from'[i] = from[i]
        /\ \A i \in 1..n : from[i] \in Elem
    BY IterateMoves, LenProperties DEF TypeOK
  <1>2. /\ EmptyFrom(from, limit) = SubSeq(from, 1, n - k)
        /\ EmptyFrom(from', limit') = SubSeq(from', 1, n - k)
    BY <1>1 DEF EmptyFrom
  <1> HIDE DEF k, n
  <1>3. \A i \in 1..(n - k) : from[i] \in Elem /\ from'[i] = from[i]
    BY <1>1
  <1>4. n - k \in Int
    BY <1>1
  <1>5. /\ SubSeq(from, 1, n - k) \in Seq(Elem)
        /\ Len(SubSeq(from, 1, n - k)) = IF 1 <= n - k THEN n - k - 1 + 1 ELSE 0
        /\ \A i \in 1..(n - k) - 1 + 1 : SubSeq(from, 1, n - k)[i] = from[1 + i - 1]
    BY <1>3, <1>4, SubSeqProperties
  <1>6. /\ SubSeq(from', 1, n - k) \in Seq(Elem)
        /\ Len(SubSeq(from', 1, n - k)) = IF 1 <= n - k THEN n - k - 1 + 1 ELSE 0
        /\ \A i \in 1..(n - k) - 1 + 1 : SubSeq(from', 1, n - k)[i] = from'[1 + i - 1]
    BY <1>3, <1>4, SubSeqProperties
  <1>7. \A i \in 1..Len(SubSeq(from', 1, n - k)) :
          SubSeq(from', 1, n - k)[i] = SubSeq(from, 1, n - k)[i]
    BY <1>1, <1>3, <1>5, <1>6
  <1>. QED  BY <1>2, <1>5, <1>6, <1>7, SeqEqual

\* What to will hold is not changed by an iteration either: the element that
\* moved is the last of the ones that were to move.
LEMMA IterateKeepsTo ==
    ASSUME TypeOK, Iterate
    PROVE  EmptyTo(from', to', limit') = EmptyTo(from, to, limit)
  <1> DEFINE k == Moved(from, limit)
             n == Len(from)
  <1>1. /\ n \in Nat \ {0} /\ k \in 1..n
        /\ Len(from') = n - 1
        /\ Moved(from', limit') = k - 1
        /\ \A i \in 1..n - 1 : from'[i] = from[i]
        /\ \A i \in 1..n : from[i] \in Elem
        /\ to \in Seq(Elem) /\ to' = <<from[n]>> \o to
    BY IterateMoves, LenProperties DEF TypeOK, Iterate
  <1>2. /\ EmptyTo(from, to, limit) = SubSeq(from, n - k + 1, n) \o to
        /\ EmptyTo(from', to', limit')
             = SubSeq(from', n - k + 1, n - 1) \o to'
    <2>1. (n - 1) - (k - 1) + 1 = n - k + 1
      BY <1>1
    <2>2. EmptyTo(from', to', limit')
            = SubSeq(from', (n - 1) - (k - 1) + 1, n - 1) \o to'
      BY <1>1, Zenon DEF EmptyTo
    <2>. QED  BY <2>1, <2>2 DEF EmptyTo
  <1> HIDE DEF k, n
  <1>3. /\ n - k + 1 \in Int /\ n \in Int /\ n - 1 \in Int
        /\ \A i \in (n - k + 1)..n : from[i] \in Elem
        /\ \A i \in (n - k + 1)..(n - 1) : from'[i] = from[i] /\ from'[i] \in Elem
    BY <1>1
  <1>4. /\ SubSeq(from, n - k + 1, n) \in Seq(Elem)
        /\ Len(SubSeq(from, n - k + 1, n)) = k
        /\ \A i \in 1..k : SubSeq(from, n - k + 1, n)[i] = from[n - k + i]
    <2>1. /\ SubSeq(from, n - k + 1, n) \in Seq(Elem)
          /\ Len(SubSeq(from, n - k + 1, n))
               = IF n - k + 1 <= n THEN n - (n - k + 1) + 1 ELSE 0
          /\ \A i \in 1..n - (n - k + 1) + 1 :
               SubSeq(from, n - k + 1, n)[i] = from[(n - k + 1) + i - 1]
      BY <1>3, SubSeqProperties
    <2>2. n - (n - k + 1) + 1 = k /\ n - k + 1 <= n
      BY <1>1
    <2>3. \A i \in 1..k : (n - k + 1) + i - 1 = n - k + i
      BY <1>1
    <2>. QED  BY <2>1, <2>2, <2>3
  <1>5. /\ SubSeq(from', n - k + 1, n - 1) \in Seq(Elem)
        /\ Len(SubSeq(from', n - k + 1, n - 1)) = k - 1
        /\ \A i \in 1..k - 1 : SubSeq(from', n - k + 1, n - 1)[i] = from[n - k + i]
    <2>1. /\ SubSeq(from', n - k + 1, n - 1) \in Seq(Elem)
          /\ Len(SubSeq(from', n - k + 1, n - 1))
               = IF n - k + 1 <= n - 1 THEN (n - 1) - (n - k + 1) + 1 ELSE 0
          /\ \A i \in 1..(n - 1) - (n - k + 1) + 1 :
               SubSeq(from', n - k + 1, n - 1)[i] = from'[(n - k + 1) + i - 1]
      BY <1>3, SubSeqProperties
    <2>2. /\ (n - 1) - (n - k + 1) + 1 = k - 1
          /\ n - k + 1 <= n - 1 <=> k - 1 > 0
          /\ k - 1 >= 0
      BY <1>1
    <2>3. \A i \in 1..k - 1 : /\ (n - k + 1) + i - 1 = n - k + i
                              /\ n - k + i \in 1..n - 1
      BY <1>1
    <2>4. Len(SubSeq(from', n - k + 1, n - 1)) = k - 1
      BY <2>1, <2>2, <1>1
    <2>5. \A i \in 1..k - 1 : SubSeq(from', n - k + 1, n - 1)[i] = from[n - k + i]
      BY <1>1, <2>1, <2>2, <2>3
    <2>. QED  BY <2>1, <2>4, <2>5
  <1>6. <<from[n]>> \in Seq(Elem) /\ Len(<<from[n]>>) = 1 /\ <<from[n]>>[1] = from[n]
    BY <1>1
  <1> DEFINE a == SubSeq(from', n - k + 1, n - 1)
             b == SubSeq(from, n - k + 1, n)
  <1>7. a \o <<from[n]>> = b
    <2>2. /\ Len(a) = k - 1 /\ a \in Seq(Elem)
          /\ Len(b) = k /\ b \in Seq(Elem)
      BY <1>4, <1>5
    <2>0. k \in Int /\ k >= 1
      BY <1>1
    <2> HIDE DEF a, b
    <2>1. /\ a \o <<from[n]>> \in Seq(Elem)
          /\ Len(a \o <<from[n]>>) = Len(a) + 1
          /\ \A i \in 1..Len(a) + 1 : (a \o <<from[n]>>)[i] =
               IF i <= Len(a) THEN a[i] ELSE <<from[n]>>[i - Len(a)]
      <3>1. /\ a \o <<from[n]>> \in Seq(Elem)
            /\ Len(a \o <<from[n]>>) = Len(a) + Len(<<from[n]>>)
            /\ \A i \in 1..Len(a) + Len(<<from[n]>>) : (a \o <<from[n]>>)[i] =
                 IF i <= Len(a) THEN a[i] ELSE <<from[n]>>[i - Len(a)]
        BY <1>6, <2>2, ConcatProperties
      <3>. QED  BY <1>6, <3>1
    <2>3. \A i \in 1..k : (a \o <<from[n]>>)[i] = b[i]
      <3> SUFFICES ASSUME NEW i \in 1..k PROVE (a \o <<from[n]>>)[i] = b[i]
        OBVIOUS
      <3>1. b[i] = from[n - k + i]
        BY <1>4 DEF b
      <3>2. CASE i <= k - 1
        <4>1. (a \o <<from[n]>>)[i] = a[i]
          BY <1>1, <2>1, <2>2, <3>2
        <4>2. i \in 1..k - 1
          BY <1>1, <3>2
        <4>3. a[i] = from[n - k + i]
          BY <1>5, <4>2 DEF a
        <4>. QED  BY <3>1, <4>1, <4>3
      <3>3. CASE i = k
        <4>1. (a \o <<from[n]>>)[i] = <<from[n]>>[1]
          BY <1>1, <2>1, <2>2, <3>3
        <4>2. n - k + i = n
          BY <1>1, <3>3
        <4>. QED  BY <1>6, <3>1, <4>1, <4>2
      <3>4. i <= k - 1 \/ i = k
        BY <2>0
      <3>. QED  BY <3>2, <3>3, <3>4
    <2>4. Len(a \o <<from[n]>>) = Len(b)
      BY <2>0, <2>1, <2>2
    <2>. QED  BY <2>1, <2>2, <2>3, <2>4, SeqEqual
  <1>8. a \in Seq(Elem)
    BY <1>5
  <1>9. EmptyTo(from, to, limit) = b \o to /\ EmptyTo(from', to', limit') = a \o to'
    BY <1>2
  <1> HIDE DEF a, b
  <1>10. (a \o <<from[n]>>) \o to = a \o (<<from[n]>> \o to)
    BY <1>1, <1>6, <1>8, ConcatAssociative, SMTT(30)
  <1>. QED  BY <1>1, <1>7, <1>9, <1>10

IInv == TypeOK /\ LoopInvariant /\ ReturnMeansEnded

\* The closed form of what is left of the call stays that of the call.
LEMMA IInvHolds == Spec => []IInv
  <1>1. Init => IInv
    BY InitTypeOK DEF Init, IInv, LoopInvariant, ReturnMeansEnded
  <1>2. IInv /\ [Next]_vars => IInv'
    <2> SUFFICES ASSUME IInv, [Next]_vars
                 PROVE  IInv'
      OBVIOUS
    <2> USE DEF IInv
    <2>1. CASE Iterate
      <3>1. TypeOK'
        BY <2>1, IterateMoves DEF TypeOK, Iterate
      <3>2. LoopInvariant'
        <4>1. UNCHANGED <<from0, to0, limit0>>
          BY <2>1 DEF Iterate
        <4>. QED  BY <2>1, <4>1, IterateKeepsFrom, IterateKeepsTo DEF LoopInvariant
      <3>3. ReturnMeansEnded'
        BY <2>1 DEF Iterate, ReturnMeansEnded
      <3>. QED  BY <3>1, <3>2, <3>3
    <2>2. CASE Return
      BY <2>2 DEF Return, TypeOK, LoopInvariant, ReturnMeansEnded
    <2>3. CASE UNCHANGED vars
      BY <2>3 DEF vars, TypeOK, LoopInvariant, ReturnMeansEnded
    <2>. QED  BY <2>1, <2>2, <2>3 DEF Next
  <1>. QED  BY <1>1, <1>2, PTL DEF Spec

\* A call that has nothing left to move leaves both queues alone.
LEMMA NothingToMove ==
    ASSUME TypeOK, from = <<>> \/ limit = 0
    PROVE  EmptyFrom(from, limit) = from /\ EmptyTo(from, to, limit) = to
  <1>1. Len(from) \in Nat /\ (from = <<>> => Len(from) = 0)
    BY LenProperties DEF TypeOK
  <1>2. Moved(from, limit) = 0
    BY <1>1 DEF Moved, TypeOK
  <1>3. SubSeq(from, 1, Len(from) - 0) = from
    BY <1>1, SubSeqFull DEF TypeOK
  <1>4. SubSeq(from, Len(from) - 0 + 1, Len(from)) = <<>>
    BY <1>1, SubSeqEmpty
  <1>. QED  BY <1>2, <1>3, <1>4, ConcatEmptySeq DEF EmptyFrom, EmptyTo, TypeOK

\* In every state of the loop, finishing it gives what the call gives.
THEOREM LoopInvariantHolds == Spec => []LoopInvariant
  <1>1. IInv => LoopInvariant
    BY DEF IInv
  <1>. QED  BY <1>1, IInvHolds, PTL

\* ngx_empty_into (helper.c:96) returns the closed form of its arguments.
THEOREM EmptyIntoCorrect == Spec => []Correct
  <1>1. IInv => Correct
    BY NothingToMove DEF IInv, ReturnMeansEnded, LoopInvariant, Correct
  <1>. QED  BY <1>1, IInvHolds, PTL

-----------------------------------------------------------------------------
(* Sequences: a cell put in, taken out, the last one brought to the front. *)
\* Insertion and removal, element by element.
LEMMA InsertAtIs ==
    ASSUME NEW S, NEW s \in Seq(S), NEW k \in 1..(Len(s) + 1), NEW c \in S
    PROVE  /\ InsertAt(s, k, c) \in Seq(S)
           /\ Len(InsertAt(s, k, c)) = Len(s) + 1
           /\ \A i \in 1..(Len(s) + 1) :
                 InsertAt(s, k, c)[i] = IF i < k THEN s[i] ELSE IF i = k THEN c ELSE s[i - 1]
  <1> DEFINE n == Len(s)
             a == SubSeq(s, 1, k - 1)
             b == SubSeq(s, (k - 1) + 1, Len(s))
             u == a \o <<c>>
             w == u \o b
  <1>1. n \in Nat /\ k \in Nat \ {0} /\ k - 1 \in 0..n /\ (k - 1) + 1 = k
    <2>1. n \in Nat
      BY LenProperties
    <2>. QED  BY <2>1
  <1>2. /\ a \in Seq(S) /\ Len(a) = k - 1
        /\ \A i \in 1..(k - 1) : a[i] = s[i]
        /\ b \in Seq(S) /\ Len(b) = n - (k - 1)
        /\ \A i \in 1..(n - (k - 1)) : b[i] = s[(k - 1) + i]
    BY <1>1, SplitElements
  <1>3. InsertAt(s, k, c) = w
    BY <1>1 DEF InsertAt
  <1> HIDE DEF n, a, b
  <1>4. <<c>> \in Seq(S) /\ Len(<<c>>) = 1 /\ <<c>>[1] = c
    OBVIOUS
  <1>5. /\ u \in Seq(S) /\ Len(u) = k
        /\ \A i \in 1..k : u[i] = IF i < k THEN s[i] ELSE c
    <2>1. /\ u \in Seq(S) /\ Len(u) = (k - 1) + 1
          /\ \A i \in 1..((k - 1) + 1) : u[i] = IF i <= k - 1 THEN a[i] ELSE <<c>>[i - (k - 1)]
      BY <1>2, <1>4, ConcatProperties
    <2>2. \A i \in 1..k : /\ i \in 1..((k - 1) + 1)
                          /\ i < k => i <= k - 1 /\ i \in 1..(k - 1)
                          /\ ~(i < k) => ~(i <= k - 1) /\ i - (k - 1) = 1
      BY <1>1
    <2> HIDE DEF u
    <2>3. ASSUME NEW i \in 1..k
          PROVE  u[i] = IF i < k THEN s[i] ELSE c
      <3>1. CASE i < k
        BY <1>2, <2>1, <2>2, <3>1
      <3>2. CASE ~(i < k)
        BY <1>4, <2>1, <2>2, <3>2
      <3>. QED  BY <3>1, <3>2
    <2>. QED  BY <1>1, <2>1, <2>3
  <1> HIDE DEF u
  <1>6. /\ w \in Seq(S) /\ Len(w) = k + (n - (k - 1))
        /\ \A i \in 1..(k + (n - (k - 1))) : w[i] = IF i <= k THEN u[i] ELSE b[i - k]
    <2>1. /\ w \in Seq(S) /\ Len(w) = Len(u) + Len(b)
          /\ \A i \in 1..(Len(u) + Len(b)) : w[i] = IF i <= Len(u) THEN u[i] ELSE b[i - Len(u)]
      <3>1. u \in Seq(S) /\ b \in Seq(S)
        BY <1>2, <1>5
      <3>2. w \in Seq(S) /\ Len(w) = Len(u) + Len(b)
        BY <3>1, ConcatProperties
      <3>3. \A i \in 1..(Len(u) + Len(b)) : w[i] = IF i <= Len(u) THEN u[i] ELSE b[i - Len(u)]
        BY <3>1, ConcatProperties
      <3>. QED  BY <3>2, <3>3
    <2> HIDE DEF w
    <2>. QED  BY <1>2, <1>5, <2>1
  <1>7. k + (n - (k - 1)) = n + 1
    BY <1>1
  <1> HIDE DEF w
  <1>8. ASSUME NEW i \in 1..(n + 1)
        PROVE  w[i] = IF i < k THEN s[i] ELSE IF i = k THEN c ELSE s[i - 1]
    <2>1. CASE i <= k
      <3>1. i \in 1..k /\ w[i] = u[i]
        BY <1>1, <1>6, <1>7, <2>1
      <3>. QED  BY <1>1, <1>5, <2>1, <3>1
    <2>2. CASE ~(i <= k)
      <3>1. i - k \in 1..(n - (k - 1)) /\ (k - 1) + (i - k) = i - 1
        BY <1>1, <2>2
      <3>2. w[i] = b[i - k]
        BY <1>6, <1>7, <2>2
      <3>. QED  BY <1>1, <1>2, <2>2, <3>1, <3>2
    <2>. QED  BY <2>1, <2>2
  <1>. QED  BY <1>3, <1>6, <1>7, <1>8 DEF n

LEMMA RemoveAtIs ==
    ASSUME NEW S, NEW s \in Seq(S), NEW k \in 1..Len(s)
    PROVE  /\ RemoveAt(s, k) \in Seq(S)
           /\ Len(RemoveAt(s, k)) = Len(s) - 1
           /\ \A i \in 1..(Len(s) - 1) :
                 RemoveAt(s, k)[i] = IF i < k THEN s[i] ELSE s[i + 1]
  <1> DEFINE n == Len(s)
             a == SubSeq(s, 1, k - 1)
             b == SubSeq(s, k + 1, Len(s))
             w == a \o b
  <1>1. n \in Nat /\ k \in 1..n /\ k - 1 \in 0..n /\ k \in 0..n /\ (k - 1) + 1 = k
    <2>1. n \in Nat
      BY LenProperties
    <2>. QED  BY <2>1
  <1>2. /\ a \in Seq(S) /\ Len(a) = k - 1
        /\ \A i \in 1..(k - 1) : a[i] = s[i]
    BY <1>1, SplitElements
  <1>3. /\ b \in Seq(S) /\ Len(b) = n - k
        /\ \A i \in 1..(n - k) : b[i] = s[k + i]
    BY <1>1, SplitElements
  <1>4. RemoveAt(s, k) = w
    BY DEF RemoveAt
  <1> HIDE DEF n, a, b
  <1>5. /\ w \in Seq(S) /\ Len(w) = (k - 1) + (n - k)
        /\ \A i \in 1..((k - 1) + (n - k)) :
              w[i] = IF i <= k - 1 THEN a[i] ELSE b[i - (k - 1)]
    <2>1. /\ w \in Seq(S) /\ Len(w) = Len(a) + Len(b)
          /\ \A i \in 1..(Len(a) + Len(b)) : w[i] = IF i <= Len(a) THEN a[i] ELSE b[i - Len(a)]
      BY <1>2, <1>3, ConcatProperties
    <2> HIDE DEF w
    <2>. QED  BY <1>2, <1>3, <2>1
  <1>6. (k - 1) + (n - k) = n - 1
    BY <1>1
  <1> HIDE DEF w
  <1>7. ASSUME NEW i \in 1..(n - 1)
        PROVE  w[i] = IF i < k THEN s[i] ELSE s[i + 1]
    <2>1. CASE i < k
      <3>1. i \in 1..(k - 1) /\ w[i] = a[i]
        BY <1>1, <1>5, <1>6, <2>1
      <3>. QED  BY <1>2, <2>1, <3>1
    <2>2. CASE ~(i < k)
      <3>1. i - (k - 1) \in 1..(n - k) /\ k + (i - (k - 1)) = i + 1 /\ ~(i <= k - 1)
        BY <1>1, <2>2
      <3>2. w[i] = b[i - (k - 1)]
        BY <1>5, <1>6, <3>1
      <3>. QED  BY <1>3, <2>2, <3>1, <3>2
    <2>. QED  BY <2>1, <2>2
  <1>. QED  BY <1>4, <1>5, <1>6, <1>7 DEF n

\* An element that is not in the sequence is put in.
LEMMA InsertAtElements ==
    ASSUME NEW S, NEW s \in Seq(S), NEW k \in 1..(Len(s) + 1), NEW c \in S
    PROVE  /\ ToSet(InsertAt(s, k, c)) = ToSet(s) \cup {c}
           /\ IsInjective(s) /\ c \notin ToSet(s) => IsInjective(InsertAt(s, k, c))
  <1> DEFINE n == Len(s)
             w == InsertAt(s, k, c)
  <1>1. /\ n \in Nat /\ k \in 1..(n + 1) /\ Len(w) = n + 1 /\ w \in Seq(S)
        /\ \A i \in 1..(n + 1) : w[i] = IF i < k THEN s[i] ELSE IF i = k THEN c ELSE s[i - 1]
    BY InsertAtIs, LenProperties
  <1>2. \A e : e \in ToSet(s) <=> \E i \in 1..n : s[i] = e
    BY ToSetFacts
  <1>3. \A e : e \in ToSet(w) <=> \E i \in 1..(n + 1) : w[i] = e
    BY <1>1, ToSetFacts
  <1>4. DOMAIN s = 1..n /\ DOMAIN w = 1..(n + 1)
    BY <1>1, LenProperties
  <1> HIDE DEF n, w
  <1>5. \A i \in 1..(n + 1) : \/ i < k /\ i \in 1..n /\ w[i] = s[i]
                              \/ i = k /\ w[i] = c
                              \/ i > k /\ i - 1 \in 1..n /\ w[i] = s[i - 1]
    BY <1>1
  <1>6. \A i \in 1..n : \/ i < k /\ i \in 1..(n + 1) /\ w[i] = s[i]
                        \/ i + 1 > k /\ i + 1 \in 1..(n + 1) /\ w[i + 1] = s[i]
    <2>1. \A i \in 1..n : i \in 1..(n + 1) /\ i + 1 \in 1..(n + 1) /\ (i + 1) - 1 = i
                          /\ (i < k \/ (i + 1 > k /\ i + 1 # k))
      BY <1>1
    <2>. QED  BY <1>1, <2>1
  <1>7. ToSet(w) = ToSet(s) \cup {c}
    <2>1. \A e \in ToSet(w) : e \in ToSet(s) \cup {c}
      BY <1>2, <1>3, <1>5
    <2>2. \A e \in ToSet(s) : e \in ToSet(w)
      BY <1>2, <1>3, <1>6
    <2>3. k \in 1..(n + 1) /\ w[k] = c
      BY <1>1
    <2>4. c \in ToSet(w)
      BY <1>3, <2>3
    <2>. QED  BY <2>1, <2>2, <2>4
  <1>8. ASSUME IsInjective(s), c \notin ToSet(s)
        PROVE  \A i, j \in 1..(n + 1) : w[i] = w[j] => i = j
    <2>1. \A i, j \in 1..n : s[i] = s[j] => i = j
      BY <1>4, <1>8 DEF IsInjective
    <2>2. \A i \in 1..n : s[i] # c
      BY <1>2, <1>8
    <2>3. SUFFICES ASSUME NEW i \in 1..(n + 1), NEW j \in 1..(n + 1), w[i] = w[j]
                   PROVE  i = j
      OBVIOUS
    <2>4. CASE i = k \/ j = k
      BY <1>5, <2>2, <2>3, <2>4
    <2>5. CASE i # k /\ j # k
      <3>1. \/ i < k /\ i \in 1..n /\ w[i] = s[i]
            \/ i > k /\ i - 1 \in 1..n /\ w[i] = s[i - 1]
        BY <1>5, <2>5
      <3>2. \/ j < k /\ j \in 1..n /\ w[j] = s[j]
            \/ j > k /\ j - 1 \in 1..n /\ w[j] = s[j - 1]
        BY <1>5, <2>5
      <3>. QED  BY <1>1, <2>1, <2>3, <3>1, <3>2
    <2>. QED  BY <2>4, <2>5
  <1>. QED  BY <1>4, <1>7, <1>8 DEF IsInjective, w

-----------------------------------------------------------------------------
\* Pointers h and t to the ends, p and n from cell to cell, form the list s.
Linked(s, h, t, p, n) ==
    /\ h = IF Len(s) = 0 THEN Null ELSE s[1]
    /\ t = IF Len(s) = 0 THEN Null ELSE s[Len(s)]
    /\ \A i \in 1..Len(s) : n[s[i]] = IF i = Len(s) THEN Null ELSE s[i + 1]
    /\ \A i \in 1..Len(s) : p[s[i]] = IF i = 1 THEN Null ELSE s[i - 1]

Pointers == [Cell -> Cell \cup {Null}]

\* Two assignments, the first if a is a cell.
Relinked(f, a, b, c, d) == [Relink(f, a, b) EXCEPT ![c] = d]

\* What they leave.
Relinks(g, f, a, b, c, d) ==
    /\ g \in Pointers /\ g[c] = d
    /\ \A x \in Cell : x # c => g[x] = IF x = a THEN b ELSE f[x]

LEMMA RelinkedIs ==
    ASSUME NEW f \in Pointers, NEW a \in Cell \cup {Null}, NEW b \in Cell \cup {Null},
           NEW c \in Cell, NEW d \in Cell \cup {Null}
    PROVE  Relinks(Relinked(f, a, b, c, d), f, a, b, c, d)
  <1>1. CASE a = Null
    <2>1. Relinked(f, a, b, c, d) = [f EXCEPT ![c] = d]
      BY <1>1 DEF Relinked, Relink
    <2>. QED  BY <1>1, <2>1, NullAssumption DEF Relinks, Pointers
  <1>2. CASE a # Null
    <2>1. Relinked(f, a, b, c, d) = [[f EXCEPT ![a] = b] EXCEPT ![c] = d]
      BY <1>2 DEF Relinked, Relink
    <2>. QED  BY <1>2, <2>1 DEF Relinks, Pointers
  <1>. QED  BY <1>1, <1>2

\* A cell is linked in at position k, between its neighbours.
LEMMA LinkIn ==
    ASSUME NEW s \in Seq(Cell), NEW h, NEW t, NEW p \in Pointers, NEW n \in Pointers,
           IsInjective(s), Linked(s, h, t, p, n),
           NEW k \in 1..(Len(s) + 1), NEW c \in Cell, c \notin ToSet(s),
           NEW l, l = (IF k = 1 THEN Null ELSE s[k - 1]),
           NEW r, r = (IF k = Len(s) + 1 THEN Null ELSE s[k]),
           NEW pp, pp = Relinked(p, r, c, c, l),
           NEW nn, nn = Relinked(n, l, c, c, r),
           NEW hh, hh = (IF k = 1 THEN c ELSE h),
           NEW tt, tt = (IF k = Len(s) + 1 THEN c ELSE t)
    PROVE  /\ pp \in Pointers /\ nn \in Pointers
           /\ Linked(InsertAt(s, k, c), hh, tt, pp, nn)
  <1> DEFINE m == Len(s)
             w == InsertAt(s, k, c)
  <1>1. /\ m \in Nat /\ k \in 1..(m + 1) /\ Len(w) = m + 1
        /\ \A i \in 1..(m + 1) : w[i] = IF i < k THEN s[i] ELSE IF i = k THEN c ELSE s[i - 1]
    BY InsertAtIs, LenProperties
  <1>2. /\ \A i \in 1..m : s[i] \in Cell /\ s[i] # c /\ s[i] # Null
        /\ \A i, j \in 1..m : s[i] = s[j] => i = j
    BY NullAssumption, ToSetFacts DEF IsInjective
  <1>3. /\ h = IF m = 0 THEN Null ELSE s[1]
        /\ t = IF m = 0 THEN Null ELSE s[m]
        /\ \A i \in 1..m : n[s[i]] = IF i = m THEN Null ELSE s[i + 1]
        /\ \A i \in 1..m : p[s[i]] = IF i = 1 THEN Null ELSE s[i - 1]
    BY DEF Linked
  <1>4. /\ l = IF k = 1 THEN Null ELSE s[k - 1]
        /\ r = IF k = m + 1 THEN Null ELSE s[k]
    OBVIOUS
  <1> HIDE DEF m, w
  <1>5. l \in Cell \cup {Null} /\ r \in Cell \cup {Null}
    BY <1>1, <1>2, <1>4
  <1>6. /\ k = 1 => l = Null
        /\ k # 1 => k - 1 \in 1..m /\ l = s[k - 1]
        /\ k = m + 1 => r = Null
        /\ k # m + 1 => k \in 1..m /\ r = s[k]
    BY <1>1, <1>4
  <1>7. /\ pp \in Pointers /\ pp[c] = l
        /\ \A x \in Cell : x # c => pp[x] = IF x = r THEN c ELSE p[x]
    <2>1. Relinks(pp, p, r, c, c, l)
      BY <1>5, RelinkedIs
    <2>. QED  BY <2>1 DEF Relinks
  <1>8. /\ nn \in Pointers /\ nn[c] = r
        /\ \A x \in Cell : x # c => nn[x] = IF x = l THEN c ELSE n[x]
    <2>1. Relinks(nn, n, l, c, c, r)
      BY <1>5, RelinkedIs
    <2>. QED  BY <2>1 DEF Relinks
  <1>9. \A i \in 1..m : /\ pp[s[i]] = IF s[i] = r THEN c ELSE p[s[i]]
                        /\ nn[s[i]] = IF s[i] = l THEN c ELSE n[s[i]]
    BY <1>2, <1>7, <1>8
  <1>10. \A i \in 1..m : (s[i] = l <=> i = k - 1) /\ (s[i] = r <=> i = k)
    BY <1>1, <1>2, <1>6
  <1>11. ASSUME NEW i \in 1..(m + 1)
         PROVE  nn[w[i]] = IF i = m + 1 THEN Null ELSE w[i + 1]
    <2>1. CASE i < k
      <3>1. i \in 1..m /\ w[i] = s[i] /\ i # m + 1 /\ i + 1 \in 1..(m + 1)
        BY <1>1, <2>1
      <3>2. CASE i = k - 1
        <4>1. w[i + 1] = c
          BY <1>1, <3>1, <3>2
        <4>. QED  BY <1>9, <1>10, <3>1, <3>2, <4>1
      <3>3. CASE i # k - 1
        <4>1. i # m /\ w[i + 1] = s[i + 1]
          BY <1>1, <2>1, <3>1, <3>3
        <4>. QED  BY <1>3, <1>9, <1>10, <3>1, <3>3, <4>1
      <3>. QED  BY <3>2, <3>3
    <2>2. CASE i = k
      <3>1. w[i] = c
        BY <1>1, <2>2
      <3>2. k # m + 1 => k + 1 \in 1..(m + 1) /\ w[k + 1] = s[k]
        BY <1>1
      <3>. QED  BY <1>6, <1>8, <2>2, <3>1, <3>2
    <2>3. CASE i > k
      <3>1. i - 1 \in 1..m /\ w[i] = s[i - 1] /\ i - 1 # k - 1 /\ (i - 1) + 1 = i
        BY <1>1, <2>3
      <3>2. i # m + 1 => i + 1 \in 1..(m + 1) /\ w[i + 1] = s[i] /\ i - 1 # m
        BY <1>1, <2>3
      <3>3. i = m + 1 => i - 1 = m
        BY <1>1
      <3>. QED  BY <1>3, <1>9, <1>10, <3>1, <3>2, <3>3
    <2>. QED  BY <1>1, <2>1, <2>2, <2>3
  <1>12. ASSUME NEW i \in 1..(m + 1)
         PROVE  pp[w[i]] = IF i = 1 THEN Null ELSE w[i - 1]
    <2>1. CASE i < k
      <3>1. i \in 1..m /\ w[i] = s[i] /\ i # k
        BY <1>1, <2>1
      <3>2. i # 1 => i - 1 \in 1..(m + 1) /\ w[i - 1] = s[i - 1]
        BY <1>1, <2>1
      <3>. QED  BY <1>3, <1>9, <1>10, <3>1, <3>2
    <2>2. CASE i = k
      <3>1. w[i] = c
        BY <1>1, <2>2
      <3>2. k # 1 => k - 1 \in 1..(m + 1) /\ w[k - 1] = s[k - 1]
        <4>1. k # 1 => k - 1 \in 1..(m + 1) /\ k - 1 < k
          BY <1>1
        <4>. QED  BY <1>1, <4>1
      <3>. QED  BY <1>6, <1>7, <2>2, <3>1, <3>2
    <2>3. CASE i > k
      <3>1. i - 1 \in 1..m /\ w[i] = s[i - 1] /\ i # 1 /\ i - 1 \in 1..(m + 1)
        BY <1>1, <2>3
      <3>2. CASE i - 1 = k
        <4>1. w[i - 1] = c
          BY <1>1, <3>1, <3>2
        <4>. QED  BY <1>9, <1>10, <3>1, <3>2, <4>1
      <3>3. CASE i - 1 # k
        <4>1. w[i - 1] = s[(i - 1) - 1] /\ i - 1 # 1
          BY <1>1, <2>3, <3>1, <3>3
        <4>. QED  BY <1>3, <1>9, <1>10, <3>1, <3>3, <4>1
      <3>. QED  BY <3>2, <3>3
    <2>. QED  BY <1>1, <2>1, <2>2, <2>3
  <1>13. hh = w[1] /\ tt = w[m + 1]
    BY <1>1, <1>3 DEF m
  <1>14. Len(w) # 0 /\ Len(w) = m + 1
    BY <1>1
  <1>15. Linked(w, hh, tt, pp, nn)
    BY <1>11, <1>12, <1>13, <1>14 DEF Linked
  <1>. QED  BY <1>7, <1>8, <1>15 DEF w, m

\* A cell is taken out of position k; its own fields no longer matter.
LEMMA LinkOut ==
    ASSUME NEW s \in Seq(Cell), NEW h, NEW t, NEW p \in Pointers, NEW n \in Pointers,
           IsInjective(s), Linked(s, h, t, p, n),
           NEW k \in 1..Len(s),
           NEW c, c = s[k],
           NEW l, l = p[c],
           NEW r, r = n[c],
           NEW pp, pp = Relinked(p, r, l, c, Null),
           NEW nn, nn = Relinked(n, l, r, c, Null),
           NEW hh, hh = (IF l = Null THEN r ELSE h),
           NEW tt, tt = (IF r = Null THEN l ELSE t)
    PROVE  /\ pp \in Pointers /\ nn \in Pointers
           /\ Linked(RemoveAt(s, k), hh, tt, pp, nn)
  <1> DEFINE m == Len(s)
             w == RemoveAt(s, k)
  <1>1. /\ m \in Nat /\ k \in 1..m /\ Len(w) = m - 1
        /\ \A i \in 1..(m - 1) : w[i] = IF i < k THEN s[i] ELSE s[i + 1]
    BY RemoveAtIs, LenProperties
  <1>2. /\ \A i \in 1..m : s[i] \in Cell /\ s[i] # Null
        /\ \A i, j \in 1..m : s[i] = s[j] => i = j
    BY NullAssumption, ToSetFacts DEF IsInjective
  <1>3. /\ h = IF m = 0 THEN Null ELSE s[1]
        /\ t = IF m = 0 THEN Null ELSE s[m]
        /\ \A i \in 1..m : n[s[i]] = IF i = m THEN Null ELSE s[i + 1]
        /\ \A i \in 1..m : p[s[i]] = IF i = 1 THEN Null ELSE s[i - 1]
    BY DEF Linked
  <1> HIDE DEF m, w
  <1>5. c \in Cell /\ l \in Cell \cup {Null} /\ r \in Cell \cup {Null}
    BY <1>1, <1>2 DEF Pointers
  <1>6. /\ k = 1 => l = Null
        /\ k # 1 => k - 1 \in 1..m /\ l = s[k - 1] /\ l # Null
        /\ k = m => r = Null
        /\ k # m => k + 1 \in 1..m /\ r = s[k + 1] /\ r # Null
    <2>1. /\ k # 1 => k - 1 \in 1..m
          /\ k # m => k + 1 \in 1..m
      BY <1>1
    <2>. QED  BY <1>1, <1>2, <1>3, <2>1
  <1>7. \A i \in 1..m : i # k => s[i] # c
    BY <1>1, <1>2
  <1>8. /\ pp \in Pointers
        /\ \A x \in Cell : x # c => pp[x] = IF x = r THEN l ELSE p[x]
    <2>1. Relinks(pp, p, r, l, c, Null)
      BY <1>5, RelinkedIs
    <2>. QED  BY <2>1 DEF Relinks
  <1>9. /\ nn \in Pointers
        /\ \A x \in Cell : x # c => nn[x] = IF x = l THEN r ELSE n[x]
    <2>1. Relinks(nn, n, l, r, c, Null)
      BY <1>5, RelinkedIs
    <2>. QED  BY <2>1 DEF Relinks
  <1>10. \A i \in 1..m : i # k => /\ pp[s[i]] = IF s[i] = r THEN l ELSE p[s[i]]
                                  /\ nn[s[i]] = IF s[i] = l THEN r ELSE n[s[i]]
    BY <1>2, <1>7, <1>8, <1>9
  <1>11. \A i \in 1..m : (s[i] = l <=> i = k - 1) /\ (s[i] = r <=> i = k + 1)
    BY <1>1, <1>2, <1>6
  <1>12. ASSUME NEW i \in 1..(m - 1)
         PROVE  nn[w[i]] = IF i = m - 1 THEN Null ELSE w[i + 1]
    <2>1. CASE i < k
      <3>1. i \in 1..m /\ w[i] = s[i] /\ i # k /\ i # m
        BY <1>1, <2>1
      <3>2. CASE i = k - 1
        <4>1. k # m => i + 1 \in 1..(m - 1) /\ w[i + 1] = s[k + 1] /\ i # m - 1
          BY <1>1, <3>2
        <4>2. k = m => i = m - 1
          BY <3>2
        <4>. QED  BY <1>6, <1>10, <1>11, <3>1, <3>2, <4>1, <4>2
      <3>3. CASE i # k - 1
        <4>1. i # m - 1 /\ w[i + 1] = s[i + 1]
          BY <1>1, <2>1, <3>1, <3>3
        <4>. QED  BY <1>3, <1>10, <1>11, <3>1, <3>3, <4>1
      <3>. QED  BY <3>2, <3>3
    <2>2. CASE ~(i < k)
      <3>1. i + 1 \in 1..m /\ w[i] = s[i + 1] /\ i + 1 # k /\ i + 1 # k - 1
        BY <1>1, <2>2
      <3>2. i # m - 1 => i + 1 \in 1..(m - 1) /\ w[i + 1] = s[(i + 1) + 1] /\ i + 1 # m
        BY <1>1, <2>2
      <3>3. i = m - 1 => i + 1 = m
        BY <1>1
      <3>. QED  BY <1>3, <1>10, <1>11, <3>1, <3>2, <3>3
    <2>. QED  BY <2>1, <2>2
  <1>13. ASSUME NEW i \in 1..(m - 1)
         PROVE  pp[w[i]] = IF i = 1 THEN Null ELSE w[i - 1]
    <2>1. CASE i < k
      <3>1. i \in 1..m /\ w[i] = s[i] /\ i # k /\ i # k + 1
        BY <1>1, <2>1
      <3>2. i # 1 => i - 1 \in 1..(m - 1) /\ w[i - 1] = s[i - 1]
        BY <1>1, <2>1
      <3>. QED  BY <1>3, <1>10, <1>11, <3>1, <3>2
    <2>2. CASE ~(i < k)
      <3>1. i + 1 \in 1..m /\ w[i] = s[i + 1] /\ i + 1 # k /\ i + 1 # 1 /\ (i + 1) - 1 = i
        BY <1>1, <2>2
      <3>2. CASE i = k
        <4>1. k # 1 => i - 1 \in 1..(m - 1) /\ w[i - 1] = s[k - 1]
          BY <1>1, <3>2
        <4>. QED  BY <1>6, <1>10, <1>11, <3>1, <3>2, <4>1
      <3>3. CASE i # k
        <4>1. i # 1 /\ w[i - 1] = s[i] /\ i + 1 # k + 1
          BY <1>1, <2>2, <3>3
        <4>. QED  BY <1>3, <1>10, <1>11, <3>1, <4>1
      <3>. QED  BY <3>2, <3>3
    <2>. QED  BY <2>1, <2>2
  <1>14. /\ hh = IF m - 1 = 0 THEN Null ELSE w[1]
         /\ tt = IF m - 1 = 0 THEN Null ELSE w[m - 1]
    <2>1. CASE m = 1
      BY <1>1, <1>6, <2>1
    <2>2. CASE m # 1
      <3>1. 1 \in 1..(m - 1) /\ m - 1 \in 1..(m - 1) /\ m # 0 /\ (m - 1) + 1 = m
        BY <1>1, <2>2
      <3>2. /\ k = 1 => w[1] = s[k + 1] /\ k # m
            /\ k # 1 => w[1] = s[1]
            /\ k = m => w[m - 1] = s[k - 1] /\ k # 1
            /\ k # m => w[m - 1] = s[m]
        BY <1>1, <2>2, <3>1
      <3>. QED  BY <1>3, <1>6, <3>1, <3>2
    <2>. QED  BY <2>1, <2>2
  <1>15. Linked(w, hh, tt, pp, nn)
    BY <1>1, <1>12, <1>13, <1>14 DEF Linked
  <1>. QED  BY <1>8, <1>9, <1>15 DEF w

\* The last cell becomes the first.
LEMMA RotatedIs ==
    ASSUME NEW S, NEW s \in Seq(S), Len(s) > 1
    PROVE  /\ <<Last(s)>> \o Front(s) \in Seq(S)
           /\ Len(<<Last(s)>> \o Front(s)) = Len(s)
           /\ \A i \in 1..Len(s) :
                 (<<Last(s)>> \o Front(s))[i] = IF i = 1 THEN s[Len(s)] ELSE s[i - 1]
  <1> DEFINE m == Len(s)
             a == <<Last(s)>>
             f == Front(s)
             w == a \o f
  <1>1. m \in Nat /\ m > 1 /\ m \in 1..m /\ m - 1 \in 0..m
    <2>1. m \in Nat
      BY LenProperties
    <2>. QED  BY <2>1
  <1>2. a \in Seq(S) /\ Len(a) = 1 /\ a[1] = s[m]
    <2>1. s[m] \in S
      BY <1>1, ElementOfSeq
    <2>. QED  BY <2>1 DEF Last
  <1>3. f \in Seq(S) /\ Len(f) = m - 1 /\ \A i \in 1..(m - 1) : f[i] = s[i]
    BY <1>1, SplitElements DEF Front
  <1> HIDE DEF m, a, f
  <1>4. /\ w \in Seq(S) /\ Len(w) = Len(a) + Len(f)
        /\ \A i \in 1..(Len(a) + Len(f)) : w[i] = IF i <= Len(a) THEN a[i] ELSE f[i - Len(a)]
    BY <1>2, <1>3, ConcatProperties
  <1> HIDE DEF w
  <1>5. Len(a) + Len(f) = m
    BY <1>1, <1>2, <1>3
  <1>6. ASSUME NEW i \in 1..m
        PROVE  w[i] = IF i = 1 THEN s[m] ELSE s[i - 1]
    <2>1. CASE i = 1
      BY <1>2, <1>4, <1>5, <2>1
    <2>2. CASE i # 1
      <3>1. i - 1 \in 1..(m - 1) /\ ~(i <= 1)
        BY <1>1, <2>2
      <3>. QED  BY <1>2, <1>3, <1>4, <1>5, <2>2, <3>1
    <2>. QED  BY <2>1, <2>2
  <1>. QED  BY <1>4, <1>5, <1>6 DEF w, a, f, m

\* listRotate relinks two cells: the pointers become the rotated list.
LEMMA LinkRound ==
    ASSUME NEW s \in Seq(Cell), NEW h, NEW t, NEW p \in Pointers, NEW n \in Pointers,
           IsInjective(s), Linked(s, h, t, p, n), Len(s) > 1,
           NEW l, l = p[t],
           NEW pp, pp = Relinked(p, h, t, t, Null),
           NEW nn, nn = Relinked(n, l, Null, t, h)
    PROVE  /\ l # Null
           /\ pp \in Pointers /\ nn \in Pointers
           /\ Linked(<<Last(s)>> \o Front(s), t, l, pp, nn)
           /\ IsInjective(<<Last(s)>> \o Front(s))
           /\ ToSet(<<Last(s)>> \o Front(s)) = ToSet(s)
  <1> DEFINE m == Len(s)
             w == <<Last(s)>> \o Front(s)
  <1>1. /\ m \in Nat /\ m > 1 /\ w \in Seq(Cell) /\ Len(w) = m
        /\ \A i \in 1..m : w[i] = IF i = 1 THEN s[m] ELSE s[i - 1]
    BY RotatedIs, LenProperties
  <1>2. /\ \A i \in 1..m : s[i] \in Cell /\ s[i] # Null
        /\ \A i, j \in 1..m : s[i] = s[j] => i = j
        /\ DOMAIN s = 1..m
    BY NullAssumption, ToSetFacts DEF IsInjective
  <1>3. /\ h = IF m = 0 THEN Null ELSE s[1]
        /\ t = IF m = 0 THEN Null ELSE s[m]
        /\ \A i \in 1..m : n[s[i]] = IF i = m THEN Null ELSE s[i + 1]
        /\ \A i \in 1..m : p[s[i]] = IF i = 1 THEN Null ELSE s[i - 1]
    BY DEF Linked
  <1>4. \A e : e \in ToSet(s) <=> \E i \in 1..m : s[i] = e
    BY ToSetFacts
  <1> HIDE DEF w
  <1>5. DOMAIN w = 1..m /\ \A e : e \in ToSet(w) <=> \E i \in 1..m : w[i] = e
    BY <1>1, ToSetFacts
  <1> HIDE DEF m
  <1>6. 1 \in 1..m /\ m \in 1..m /\ m - 1 \in 1..m /\ m # 0 /\ m # 1
    BY <1>1
  <1>7. /\ h = s[1] /\ t = s[m] /\ l = s[m - 1]
        /\ h \in Cell /\ t \in Cell /\ l \in Cell /\ l # Null
    BY <1>2, <1>3, <1>6
  <1>8. Relinks(pp, p, h, t, t, Null) /\ Relinks(nn, n, l, Null, t, h)
    BY <1>7, RelinkedIs
  <1>9. /\ pp \in Pointers /\ pp[t] = Null
        /\ \A i \in 1..m : i # m => pp[s[i]] = IF i = 1 THEN t ELSE p[s[i]]
    BY <1>2, <1>6, <1>7, <1>8 DEF Relinks
  <1>10. /\ nn \in Pointers /\ nn[t] = h
         /\ \A i \in 1..m : i # m => nn[s[i]] = IF i = m - 1 THEN Null ELSE n[s[i]]
    BY <1>2, <1>6, <1>7, <1>8 DEF Relinks
  <1>11. \A i \in 1..m : i # 1 => /\ i - 1 \in 1..m /\ i - 1 # m /\ (i - 1) + 1 = i
                                  /\ i = m <=> i - 1 = m - 1
                                  /\ i - 1 = 1 <=> i = 2
    BY <1>1
  <1>12. ASSUME NEW i \in 1..m
         PROVE  nn[w[i]] = IF i = m THEN Null ELSE w[i + 1]
    <2>1. CASE i = 1
      <3>1. w[i] = t /\ i # m /\ w[i + 1] = h
        <4>1. i + 1 \in 1..m /\ i + 1 # 1 /\ (i + 1) - 1 = 1
          BY <1>1, <2>1
        <4>. QED  BY <1>1, <1>6, <1>7, <2>1, <4>1
      <3>. QED  BY <1>10, <3>1
    <2>2. CASE i # 1
      <3>1. w[i] = s[i - 1] /\ i - 1 \in 1..m /\ i - 1 # m
        BY <1>1, <1>11, <2>2
      <3>2. i # m => i + 1 \in 1..m /\ w[i + 1] = s[i] /\ i - 1 # m - 1
        BY <1>1, <2>2
      <3>3. i = m => nn[w[i]] = Null
        BY <1>10, <3>1
      <3>4. i # m => nn[w[i]] = s[i]
        BY <1>3, <1>10, <1>11, <2>2, <3>1, <3>2
      <3>. QED  BY <3>2, <3>3, <3>4
    <2>. QED  BY <2>1, <2>2
  <1>13. ASSUME NEW i \in 1..m
         PROVE  pp[w[i]] = IF i = 1 THEN Null ELSE w[i - 1]
    <2>1. CASE i = 1
      <3>1. w[i] = t
        BY <1>1, <1>7, <2>1
      <3>. QED  BY <1>9, <2>1, <3>1
    <2>2. CASE i # 1
      <3>1. w[i] = s[i - 1] /\ i - 1 \in 1..m /\ i - 1 # m
        BY <1>1, <1>11, <2>2
      <3>2. i - 1 = 1 => w[i - 1] = t /\ pp[w[i]] = t
        BY <1>1, <1>7, <1>9, <3>1
      <3>3. i - 1 # 1 => w[i - 1] = s[(i - 1) - 1] /\ pp[w[i]] = s[(i - 1) - 1]
        BY <1>1, <1>3, <1>9, <3>1
      <3>. QED  BY <2>2, <3>2, <3>3
    <2>. QED  BY <2>1, <2>2
  <1>14. t = w[1] /\ l = w[m]
    BY <1>1, <1>6, <1>7
  <1>15. Linked(w, t, l, pp, nn)
    BY <1>1, <1>6, <1>12, <1>13, <1>14 DEF Linked
  <1>16. ASSUME NEW i \in 1..m, NEW j \in 1..m, w[i] = w[j]
         PROVE  i = j
    <2>1. \A k \in 1..m : \/ k = 1 /\ w[k] = s[m]
                          \/ k # 1 /\ w[k] = s[k - 1] /\ k - 1 \in 1..m /\ k - 1 # m
      BY <1>1, <1>11
    <2>2. i = 1 <=> j = 1
      BY <1>2, <1>6, <1>16, <2>1
    <2>3. CASE i # 1
      <3>1. i - 1 = j - 1
        BY <1>2, <1>16, <2>1, <2>2, <2>3
      <3>. QED  BY <1>1, <3>1
    <2>. QED  BY <2>2, <2>3
  <1>17. IsInjective(w)
    BY <1>5, <1>16 DEF IsInjective
  <1>18. ToSet(w) = ToSet(s)
    <2>1. \A e \in ToSet(w) : e \in ToSet(s)
      BY <1>1, <1>4, <1>5, <1>6, <1>11
    <2>2. ASSUME NEW i \in 1..m
          PROVE  s[i] \in ToSet(w)
      <3>1. CASE i = m
        BY <1>5, <1>6, <1>7, <1>14, <3>1
      <3>2. CASE i # m
        <4>1. i + 1 \in 1..m /\ w[i + 1] = s[i]
          BY <1>1, <3>2
        <4>. QED  BY <1>5, <4>1
      <3>. QED  BY <3>1, <3>2
    <2>. QED  BY <1>4, <2>1, <2>2
  <1>. QED  BY <1>7, <1>9, <1>10, <1>15, <1>17, <1>18 DEF w, m

-----------------------------------------------------------------------------
(* Following a pointer field (listIndex, listRelease).                     *)

\* A set of numbers that is not empty has a least one.
LEMMA Least ==
    ASSUME NEW T \in SUBSET Nat, T # {}
    PROVE  \E n \in T : \A m \in T : n <= m
  <1>1. IsWellFoundedOn(OpToRel(<, Nat), Nat)
    BY NatLessThanWellFounded
  <1>2. \E x \in T : \A y \in T : ~(<<y, x>> \in OpToRel(<, Nat))
    BY <1>1, WFMin, Zenon
  <1>3. PICK x \in T : \A y \in T : ~(<<y, x>> \in OpToRel(<, Nat))
    BY <1>2
  <1>4. \A y \in T : ~(y < x)
    BY <1>3 DEF OpToRel
  <1>. QED  BY <1>4

\* A set of numbers up to N that is not empty has a greatest one.
LEMMA Greatest ==
    ASSUME NEW N \in Nat, NEW R \in SUBSET (1..N), R # {}
    PROVE  Max(R) \in R
  <1> DEFINE Q == {n \in 0..N : N - n \in R}
  <1>1. Q \in SUBSET Nat /\ Q # {}
    <2>1. PICK r \in R : TRUE
      OBVIOUS
    <2>2. N - r \in Q
      OBVIOUS
    <2>. QED  BY <2>2
  <1>2. PICK n \in Q : \A m \in Q : n <= m
    <2> HIDE DEF Q
    <2>. QED  BY <1>1, Least
  <1>3. N - n \in R
    OBVIOUS
  <1>4. ASSUME NEW r \in R PROVE N - n >= r
    <2>1. N - r \in Q
      OBVIOUS
    <2>. QED  BY <1>2, <2>1
  <1>. QED  BY <1>3, <1>4 DEF Max

\* A function that makes each step from the one before is the one Follow
\* computes: of two such functions, take the first step where they differ.
LEMMA FollowIs ==
    ASSUME NEW field, NEW c, NEW n \in Nat,
           NEW g, g = [i \in 0..n |-> IF i = 0 THEN c
                                      ELSE IF g[i - 1] = Null THEN Null ELSE field[g[i - 1]]]
    PROVE  Follow(field, c, n) = g[n]
  <1> DEFINE Steps(a) == a = [i \in 0..n |-> IF i = 0 THEN c
                                ELSE IF a[i - 1] = Null THEN Null ELSE field[a[i - 1]]]
             at == CHOOSE a : Steps(a)
  <1>1. Follow(field, c, n) = at[n]
    BY DEF Follow
  <1>2. Steps(g)
    OBVIOUS
  <1>3. Steps(at)
    BY <1>2
  <1> HIDE DEF at
  <1>4. \A i \in 0..n : at[i] = IF i = 0 THEN c
                                ELSE IF at[i - 1] = Null THEN Null ELSE field[at[i - 1]]
    BY <1>3
  <1>5. \A i \in 0..n : g[i] = IF i = 0 THEN c
                               ELSE IF g[i - 1] = Null THEN Null ELSE field[g[i - 1]]
    BY <1>2
  <1> HIDE DEF Steps
  <1> DEFINE T == {i \in 0..n : at[i] # g[i]}
  <1>6. T = {}
    <2>1. SUFFICES ASSUME T # {} PROVE FALSE
      OBVIOUS
    <2>2. T \in SUBSET Nat
      OBVIOUS
    <2>3. PICK k \in T : \A j \in T : k <= j
      <3> HIDE DEF T
      <3>. QED  BY <2>1, <2>2, Least
    <2>4. k \in 0..n /\ at[k] # g[k]
      OBVIOUS
    <2>5. k # 0
      BY <1>4, <1>5, <2>4
    <2>6. k - 1 \in 0..n /\ ~(k <= k - 1)
      BY <2>4, <2>5
    <2>7. at[k - 1] = g[k - 1]
      BY <2>3, <2>6
    <2>. QED  BY <1>4, <1>5, <2>4, <2>5, <2>7
  <1>7. n \in 0..n
    OBVIOUS
  <1>8. at[n] = g[n]
    BY <1>6, <1>7
  <1>. QED  BY <1>1, <1>8

-----------------------------------------------------------------------------
(* The pointers stand for the sequence (Represents).                       *)

\* The list is well formed: the strengthening of Represents that speaks of
\* the pointers as functions.
Shape ==
    /\ live \in SUBSET Cell /\ order \in Seq(Cell)
    /\ len = Len(order) /\ IsInjective(order) /\ ToSet(order) = live
    /\ prev \in Pointers /\ next \in Pointers
    /\ Linked(order, head, tail, prev, next)

LEMMA ShapeRepresents == Shape => Represents
  <1> SUFFICES ASSUME Shape PROVE Represents
    OBVIOUS
  <1>1. len = Len(order) /\ IsInjective(order) /\ ToSet(order) = live
    BY DEF Shape
  <1>2. IF len = 0 THEN head = Null /\ tail = Null ELSE head = order[1] /\ tail = order[len]
    BY DEF Shape, Linked
  <1>3. \A i \in 1..len : next[order[i]] = IF i = len THEN Null ELSE order[i + 1]
    BY DEF Shape, Linked
  <1>4. \A i \in 1..len : prev[order[i]] = IF i = 1 THEN Null ELSE order[i - 1]
    BY DEF Shape, Linked
  <1>. QED  BY <1>1, <1>2, <1>3, <1>4 DEF Represents

\* Shape cell by cell, as the steps below use it.
LEMMA ShapeFacts ==
    ASSUME Shape
    PROVE  /\ len \in Nat
           /\ \A i \in 1..len : order[i] \in live /\ order[i] \in Cell /\ order[i] # Null
           /\ \A i, j \in 1..len : order[i] = order[j] => i = j
           /\ \A c \in live : \E i \in 1..len : order[i] = c
           /\ head = IF len = 0 THEN Null ELSE order[1]
           /\ tail = IF len = 0 THEN Null ELSE order[len]
           /\ \A i \in 1..len : next[order[i]] = IF i = len THEN Null ELSE order[i + 1]
           /\ \A i \in 1..len : prev[order[i]] = IF i = 1 THEN Null ELSE order[i - 1]
  <1>1. len \in Nat /\ order \in Seq(Cell) /\ len = Len(order)
    BY LenProperties DEF Shape
  <1>2. \A i \in 1..len : order[i] \in live /\ order[i] \in Cell /\ order[i] # Null
    BY <1>1, ToSetFacts, NullAssumption DEF Shape
  <1>3. \A i, j \in 1..len : order[i] = order[j] => i = j
    BY <1>1, LenProperties DEF Shape, IsInjective
  <1>4. \A c \in live : \E i \in 1..len : order[i] = c
    BY <1>1, ToSetFacts DEF Shape
  <1>. QED  BY <1>1, <1>2, <1>3, <1>4 DEF Shape, Linked

\* What the three ways of adding a cell come to.
Insertion(k, c, l, r) ==
    /\ l = IF k = 1 THEN Null ELSE order[k - 1]
    /\ r = IF k = len + 1 THEN Null ELSE order[k]
    /\ order' = InsertAt(order, k, c)
    /\ prev' = Relinked(prev, r, c, c, l) /\ next' = Relinked(next, l, c, c, r)
    /\ head' = (IF k = 1 THEN c ELSE head)
    /\ tail' = (IF k = len + 1 THEN c ELSE tail)
    /\ live' = live \cup {c} /\ len' = len + 1

\* Adding a cell keeps the list well formed, whichever way it is done.
LEMMA InsertionShape ==
    ASSUME Shape, NEW k \in 1..(len + 1), NEW c \in Cell \ live, NEW l, NEW r,
           Insertion(k, c, l, r)
    PROVE  Shape'
  <1>1. /\ order \in Seq(Cell) /\ len = Len(order) /\ len \in Nat /\ IsInjective(order)
        /\ c \notin ToSet(order) /\ k \in 1..(Len(order) + 1)
        /\ prev \in Pointers /\ next \in Pointers
        /\ Linked(order, head, tail, prev, next)
    BY ShapeFacts DEF Shape
  <1>2. /\ l = IF k = 1 THEN Null ELSE order[k - 1]
        /\ r = IF k = Len(order) + 1 THEN Null ELSE order[k]
    BY <1>1 DEF Insertion
  <1>3. prev' = Relinked(prev, r, c, c, l) /\ next' = Relinked(next, l, c, c, r)
    BY DEF Insertion
  <1>4. /\ head' = (IF k = 1 THEN c ELSE head)
        /\ tail' = (IF k = Len(order) + 1 THEN c ELSE tail)
    BY <1>1 DEF Insertion
  <1>5. /\ prev' \in Pointers /\ next' \in Pointers
        /\ Linked(order', head', tail', prev', next')
    <2>1. /\ prev' \in Pointers /\ next' \in Pointers
          /\ Linked(InsertAt(order, k, c), head', tail', prev', next')
      BY <1>1, <1>2, <1>3, <1>4, LinkIn
    <2>. QED  BY <2>1 DEF Insertion
  <1>6. order' \in Seq(Cell) /\ Len(order') = len + 1
    BY <1>1, InsertAtIs DEF Insertion
  <1>7. ToSet(order') = ToSet(order) \cup {c} /\ IsInjective(order')
    BY <1>1, InsertAtElements DEF Insertion
  <1>8. live' = live \cup {c} /\ len' = len + 1 /\ live \in SUBSET Cell /\ ToSet(order) = live
    BY DEF Insertion, Shape
  <1>. QED  BY <1>5, <1>6, <1>7, <1>8 DEF Shape

\* listAddNodeHead puts the cell in at position 1, also of an empty list.
LEMMA AddNodeHeadIs ==
    ASSUME Shape, NEW c \in Cell, NEW v, AddNodeHead(c, v)
    PROVE  c \in Cell \ live /\ Insertion(1, c, Null, head)
  <1>1. order \in Seq(Cell) /\ len = Len(order) /\ len \in Nat
    BY ShapeFacts DEF Shape
  <1>2. c \in Cell \ live /\ live' = live \cup {c} /\ len' = len + 1
    BY DEF AddNodeHead, Alloc
  <1>3. head = IF 1 = len + 1 THEN Null ELSE order[1]
    BY <1>1, ShapeFacts
  <1>4. order' = InsertAt(order, 1, c)
    <2>1. SubSeq(order, 1, 1 - 1) = <<>>
      BY SubSeqEmpty
    <2>2. SubSeq(order, 1, Len(order)) = order
      BY <1>1, SubSeqFull
    <2>3. <<>> \o <<c>> = <<c>>
      BY ConcatEmptySeq
    <2>. QED  BY <2>1, <2>2, <2>3 DEF InsertAt, AddNodeHead
  <1>5. prev' = Relinked(prev, head, c, c, Null)
    BY DEF AddNodeHead, Relinked
  <1>6. next' = Relinked(next, Null, c, c, head)
    BY DEF AddNodeHead, Relinked, Relink
  <1>7. head' = c /\ tail' = (IF 1 = len + 1 THEN c ELSE tail)
    BY <1>1 DEF AddNodeHead
  <1>. QED  BY <1>1, <1>2, <1>3, <1>4, <1>5, <1>6, <1>7 DEF Insertion

\* listAddNodeTail puts it in behind the last position.
LEMMA AddNodeTailIs ==
    ASSUME Shape, NEW c \in Cell, NEW v, AddNodeTail(c, v)
    PROVE  c \in Cell \ live /\ Insertion(len + 1, c, tail, Null)
  <1>1. order \in Seq(Cell) /\ len = Len(order) /\ len \in Nat
    BY ShapeFacts DEF Shape
  <1>2. c \in Cell \ live /\ live' = live \cup {c} /\ len' = len + 1
    BY DEF AddNodeTail, Alloc
  <1>3. tail = IF len + 1 = 1 THEN Null ELSE order[(len + 1) - 1]
    BY <1>1, ShapeFacts
  <1>4. order' = InsertAt(order, len + 1, c)
    <2>1. SubSeq(order, 1, (len + 1) - 1) = order
      BY <1>1, SubSeqFull
    <2>2. SubSeq(order, len + 1, Len(order)) = <<>>
      BY <1>1, SubSeqEmpty
    <2>3. order \o <<c>> = Append(order, c) /\ Append(order, c) \in Seq(Cell)
      BY <1>1, AppendIsConcat, AppendProperties
    <2>4. Append(order, c) \o <<>> = Append(order, c)
      BY <2>3, ConcatEmptySeq
    <2>. QED  BY <2>1, <2>2, <2>3, <2>4 DEF InsertAt, AddNodeTail
  <1>5. prev' = Relinked(prev, Null, c, c, tail)
    BY DEF AddNodeTail, Relinked, Relink
  <1>6. next' = Relinked(next, tail, c, c, Null)
    BY DEF AddNodeTail, Relinked
  <1>7. head' = (IF len + 1 = 1 THEN c ELSE head) /\ tail' = c
    BY <1>1 DEF AddNodeTail
  <1>. QED  BY <1>1, <1>2, <1>3, <1>4, <1>5, <1>6, <1>7 DEF Insertion

\* The two assignments touch different cells, so their order does not matter.
LEMMA RelinkBefore ==
    ASSUME NEW f \in Pointers, NEW a \in Cell \cup {Null}, NEW b \in Cell \cup {Null},
           NEW c \in Cell, NEW d \in Cell \cup {Null}, a # c
    PROVE  Relink([f EXCEPT ![c] = d], a, b) = Relinked(f, a, b, c, d)
  <1>1. CASE a = Null
    BY <1>1 DEF Relinked, Relink
  <1>2. CASE a # Null
    <2>1. Relink([f EXCEPT ![c] = d], a, b) = [[f EXCEPT ![c] = d] EXCEPT ![a] = b]
      BY <1>2 DEF Relink
    <2>2. Relinked(f, a, b, c, d) = [[f EXCEPT ![a] = b] EXCEPT ![c] = d]
      BY <1>2 DEF Relinked, Relink
    <2>3. [[f EXCEPT ![c] = d] EXCEPT ![a] = b] = [[f EXCEPT ![a] = b] EXCEPT ![c] = d]
      BY DEF Pointers
    <2>. QED  BY <2>1, <2>2, <2>3
  <1>. QED  BY <1>1, <1>2

LEMMA PositionIs ==
    ASSUME Shape, NEW i \in 1..len
    PROVE  Position(order[i]) = i
  <1>1. DOMAIN order = 1..len
    BY LenProperties DEF Shape
  <1>2. \A j \in DOMAIN order : order[j] = order[i] => j = i
    BY <1>1, ShapeFacts
  <1>. QED  BY <1>1, <1>2 DEF Position

\* listInsertNode puts it in before or after a cell of the list, the ends
\* included.
LEMMA InsertNodeIs ==
    ASSUME Shape, NEW c \in Cell, NEW v, NEW old \in live, NEW after \in BOOLEAN,
           InsertNode(c, v, old, after)
    PROVE  \E k \in 1..(len + 1) : \E l, r : c \in Cell \ live /\ Insertion(k, c, l, r)
  <1>1. PICK i \in 1..len : order[i] = old
    BY ShapeFacts
  <1> DEFINE k == IF after THEN i + 1 ELSE i
             l == IF after THEN old ELSE prev[old]
             r == IF after THEN next[old] ELSE old
  <1>2. c \in Cell \ live /\ live' = live \cup {c} /\ len' = len + 1
    BY DEF InsertNode, Alloc
  <1>3. len \in Nat /\ k \in 1..(len + 1)
    BY <1>1, ShapeFacts
  <1>4. l = IF k = 1 THEN Null ELSE order[k - 1]
    BY <1>1, <1>3, ShapeFacts
  <1>5. r = IF k = len + 1 THEN Null ELSE order[k]
    BY <1>1, <1>3, ShapeFacts
  <1>6. order' = InsertAt(order, k, c)
    <2>1. Position(old) = i
      BY <1>1, PositionIs
    <2>2. order' = InsertAt(order, i + IF after THEN 1 ELSE 0, c)
      BY <2>1 DEF InsertNode
    <2>3. k = i + IF after THEN 1 ELSE 0
      BY <1>1
    <2>. QED  BY <2>2, <2>3
  <1>7. /\ prev' = Relink([prev EXCEPT ![c] = l], r, c)
        /\ next' = Relink([next EXCEPT ![c] = r], l, c)
    BY DEF InsertNode
  <1>8. /\ head' = (IF k = 1 THEN c ELSE head)
        /\ tail' = (IF k = len + 1 THEN c ELSE tail)
    <2>1. (~after /\ head = old) <=> k = 1
      <3>1. 1 \in 1..len /\ head = order[1]
        BY <1>1, <1>3, ShapeFacts
      <3>2. head = old <=> i = 1
        BY <1>1, <3>1, ShapeFacts
      <3>. QED  BY <1>1, <3>2
    <2>2. (after /\ tail = old) <=> k = len + 1
      <3>1. len \in 1..len /\ tail = order[len]
        BY <1>1, <1>3, ShapeFacts
      <3>2. tail = old <=> i = len
        BY <1>1, <3>1, ShapeFacts
      <3>. QED  BY <1>1, <1>3, <3>2
    <2>3. /\ tail' = IF after /\ tail = old THEN c ELSE tail
          /\ head' = IF ~after /\ head = old THEN c ELSE head
      BY DEF InsertNode
    <2> HIDE DEF k
    <2>. QED  BY <2>1, <2>2, <2>3
  <1>9. /\ l \in Cell \cup {Null} /\ l # c /\ r \in Cell \cup {Null} /\ r # c
        /\ prev \in Pointers /\ next \in Pointers
    <2>1. \A j \in 1..len : order[j] \in Cell /\ order[j] # c
      BY <1>2, ShapeFacts
    <2>2. k # 1 => k - 1 \in 1..len
      BY <1>3
    <2>3. k # len + 1 => k \in 1..len
      BY <1>3
    <2> HIDE DEF k, l, r
    <2>. QED  BY <1>2, <1>4, <1>5, <2>1, <2>2, <2>3, NullAssumption DEF Shape
  <1> HIDE DEF k, l, r
  <1>10. prev' = Relinked(prev, r, c, c, l) /\ next' = Relinked(next, l, c, c, r)
    <2>1. prev' = Relinked(prev, r, c, c, l)
      <3>1. Relink([prev EXCEPT ![c] = l], r, c) = Relinked(prev, r, c, c, l)
        BY <1>9, RelinkBefore
      <3>. QED  BY <1>7, <3>1
    <2>2. next' = Relinked(next, l, c, c, r)
      <3>1. Relink([next EXCEPT ![c] = r], l, c) = Relinked(next, l, c, c, r)
        BY <1>9, RelinkBefore
      <3>. QED  BY <1>7, <3>1
    <2>. QED  BY <2>1, <2>2
  <1>11. Insertion(k, c, l, r)
    BY <1>2, <1>4, <1>5, <1>6, <1>8, <1>10 DEF Insertion
  <1>. QED  BY <1>2, <1>3, <1>11

\* listDelNode takes out one cell, wherever it is.
LEMMA DelNodeIs ==
    ASSUME Shape, NEW c \in Cell, DelNode(c)
    PROVE  /\ Shape'
           /\ \E k \in 1..len : order[k] = c /\ order' = RemoveAt(order, k)
           /\ live' = live \ {c}
  <1>1. c \in live /\ live' = live \ {c} /\ len' = len - 1
    BY DEF DelNode
  <1>2. PICK k \in 1..len : order[k] = c
    BY <1>1, ShapeFacts
  <1>3. order' = RemoveAt(order, k)
    BY <1>2, PositionIs DEF DelNode
  <1> DEFINE l == prev[c]
             r == next[c]
  <1>4. /\ order \in Seq(Cell) /\ len = Len(order) /\ len \in Nat /\ IsInjective(order)
        /\ prev \in Pointers /\ next \in Pointers /\ k \in 1..Len(order)
        /\ Linked(order, head, tail, prev, next)
    BY <1>2, ShapeFacts DEF Shape
  <1>5. prev' = Relinked(prev, r, l, c, Null) /\ next' = Relinked(next, l, r, c, Null)
    BY DEF DelNode, Relinked
  <1>6. head' = (IF l = Null THEN r ELSE head) /\ tail' = (IF r = Null THEN l ELSE tail)
    BY DEF DelNode
  <1>7. l = prev[c] /\ r = next[c] /\ c = order[k]
    BY <1>2
  <1> HIDE DEF l, r
  <1>8. /\ prev' \in Pointers /\ next' \in Pointers
        /\ Linked(order', head', tail', prev', next')
    <2>1. /\ prev' \in Pointers /\ next' \in Pointers
          /\ Linked(RemoveAt(order, k), head', tail', prev', next')
      BY <1>4, <1>5, <1>6, <1>7, LinkOut
    <2>. QED  BY <1>3, <2>1
  <1>9. order' \in Seq(Cell) /\ Len(order') = len - 1
    BY <1>3, <1>4, RemoveAtIs
  <1>10. ToSet(order') = ToSet(order) \ {c} /\ IsInjective(order')
    BY <1>2, <1>3, <1>4, RemoveAtElements
  <1>11. ToSet(order) = live /\ live \in SUBSET Cell
    BY DEF Shape
  <1>12. Shape'
    BY <1>1, <1>8, <1>9, <1>10, <1>11 DEF Shape
  <1>. QED  BY <1>1, <1>2, <1>3, <1>12

\* listRotate keeps the list well formed.
LEMMA RotateShape ==
    ASSUME Shape, Rotate
    PROVE  Shape'
  <1> DEFINE l == prev[tail]
  <1>1. /\ order \in Seq(Cell) /\ len = Len(order) /\ Len(order) > 1 /\ IsInjective(order)
        /\ prev \in Pointers /\ next \in Pointers
        /\ Linked(order, head, tail, prev, next)
    BY DEF Shape, Rotate
  <1>2. l # Null /\ head # Null
    <2>1. len \in Nat /\ len > 1
      BY <1>1, ShapeFacts
    <2>2. 1 \in 1..len /\ len \in 1..len /\ len - 1 \in 1..len /\ len # 0 /\ len # 1
      BY <2>1
    <2>. QED  BY <2>2, ShapeFacts
  <1>3. prev' = Relinked(prev, head, tail, tail, Null)
    BY <1>2 DEF Rotate, Relinked, Relink
  <1>4. next' = Relinked(next, l, Null, tail, head)
    BY <1>2 DEF Rotate, Relinked, Relink
  <1>5. tail' = l /\ head' = tail /\ order' = <<Last(order)>> \o Front(order)
        /\ UNCHANGED <<len, live>>
    BY DEF Rotate
  <1>6. l = prev[tail]
    OBVIOUS
  <1> HIDE DEF l
  <1>7. /\ prev' \in Pointers /\ next' \in Pointers
        /\ Linked(<<Last(order)>> \o Front(order), tail, l, prev', next')
        /\ IsInjective(<<Last(order)>> \o Front(order))
        /\ ToSet(<<Last(order)>> \o Front(order)) = ToSet(order)
    BY <1>1, <1>3, <1>4, <1>6, LinkRound
  <1>8. order' \in Seq(Cell) /\ Len(order') = Len(order)
    BY <1>1, <1>5, RotatedIs
  <1>9. ToSet(order) = live /\ live \in SUBSET Cell
    BY DEF Shape
  <1>. QED  BY <1>1, <1>5, <1>7, <1>8, <1>9 DEF Shape

\* Following next from the head reads the list, and then stays at Null.
LEMMA FollowNext ==
    ASSUME Shape, NEW n \in Nat
    PROVE  Follow(next, head, n) = IF n < len THEN order[n + 1] ELSE Null
  <1> DEFINE g == [i \in 0..n |-> IF i < len THEN order[i + 1] ELSE Null]
  <1>1. len \in Nat
    BY ShapeFacts
  <1>2. \A i \in 0..n : g[i] = IF i < len THEN order[i + 1] ELSE Null
    OBVIOUS
  <1>3. ASSUME NEW i \in 0..n
        PROVE  (IF i < len THEN order[i + 1] ELSE Null)
                 = IF i = 0 THEN head
                   ELSE IF g[i - 1] = Null THEN Null ELSE next[g[i - 1]]
    <2>1. CASE i = 0
      BY <1>1, <2>1, ShapeFacts
    <2>2. CASE i # 0
      <3>1. i - 1 \in 0..n /\ (i - 1) + 1 = i /\ i \in Nat
        BY <2>2
      <3>2. g[i - 1] = IF i - 1 < len THEN order[i] ELSE Null
        BY <1>2, <3>1
      <3> HIDE DEF g
      <3>3. CASE i - 1 < len
        <4>1. i \in 1..len /\ (i < len <=> i # len)
          BY <1>1, <2>2, <3>1, <3>3
        <4>2. order[i] # Null /\ next[order[i]] = IF i = len THEN Null ELSE order[i + 1]
          BY <4>1, ShapeFacts
        <4>. QED  BY <2>2, <3>2, <3>3, <4>1, <4>2
      <3>4. CASE ~(i - 1 < len)
        <4>1. ~(i < len)
          BY <1>1, <3>1, <3>4
        <4>. QED  BY <2>2, <3>2, <3>4, <4>1
      <3>. QED  BY <3>3, <3>4
    <2>. QED  BY <2>1, <2>2
  <1>4. g = [i \in 0..n |-> IF i = 0 THEN head
                            ELSE IF g[i - 1] = Null THEN Null ELSE next[g[i - 1]]]
    <2> DEFINE h == [i \in 0..n |-> IF i = 0 THEN head
                                    ELSE IF g[i - 1] = Null THEN Null ELSE next[g[i - 1]]]
    <2>1. \A i \in 0..n : g[i] = h[i]
      BY <1>2, <1>3
    <2>2. g = [i \in 0..n |-> g[i]] /\ h = [i \in 0..n |-> h[i]]
      OBVIOUS
    <2> HIDE DEF g, h
    <2>3. g = h
      BY <2>1, <2>2
    <2>. QED  BY <2>3 DEF h
  <1>5. g[n] = IF n < len THEN order[n + 1] ELSE Null
    BY <1>2
  <1> HIDE DEF g
  <1>. QED  BY <1>4, <1>5, FollowIs

\* Following prev from the tail reads it backwards.
LEMMA FollowPrev ==
    ASSUME Shape, NEW n \in Nat
    PROVE  Follow(prev, tail, n) = IF n < len THEN order[len - n] ELSE Null
  <1> DEFINE g == [i \in 0..n |-> IF i < len THEN order[len - i] ELSE Null]
  <1>1. len \in Nat
    BY ShapeFacts
  <1>2. \A i \in 0..n : g[i] = IF i < len THEN order[len - i] ELSE Null
    OBVIOUS
  <1>3. ASSUME NEW i \in 0..n
        PROVE  (IF i < len THEN order[len - i] ELSE Null)
                 = IF i = 0 THEN tail
                   ELSE IF g[i - 1] = Null THEN Null ELSE prev[g[i - 1]]
    <2>1. CASE i = 0
      BY <1>1, <2>1, ShapeFacts
    <2>2. CASE i # 0
      <3>1. i - 1 \in 0..n /\ len - (i - 1) = (len - i) + 1 /\ i \in Nat
        BY <1>1, <2>2
      <3>2. g[i - 1] = IF i - 1 < len THEN order[(len - i) + 1] ELSE Null
        BY <1>2, <3>1
      <3> HIDE DEF g
      <3>3. CASE i - 1 < len
        <4>1. /\ (len - i) + 1 \in 1..len /\ ((len - i) + 1) - 1 = len - i
              /\ i < len <=> (len - i) + 1 # 1
          BY <1>1, <2>2, <3>1, <3>3
        <4>2. /\ order[(len - i) + 1] # Null
              /\ prev[order[(len - i) + 1]] = IF (len - i) + 1 = 1 THEN Null ELSE order[len - i]
          BY <4>1, ShapeFacts
        <4>. QED  BY <2>2, <3>2, <3>3, <4>1, <4>2
      <3>4. CASE ~(i - 1 < len)
        <4>1. ~(i < len)
          BY <1>1, <3>1, <3>4
        <4>. QED  BY <2>2, <3>2, <3>4, <4>1
      <3>. QED  BY <3>3, <3>4
    <2>. QED  BY <2>1, <2>2
  <1>4. g = [i \in 0..n |-> IF i = 0 THEN tail
                            ELSE IF g[i - 1] = Null THEN Null ELSE prev[g[i - 1]]]
    BY <1>3
  <1>5. g[n] = IF n < len THEN order[len - n] ELSE Null
    BY <1>2
  <1> HIDE DEF g
  <1>. QED  BY <1>4, <1>5, FollowIs

\* listRelease walks along next and frees every cell.
LEMMA ReleaseShape ==
    ASSUME Shape, Release
    PROVE  Shape'
  <1> DEFINE gone == {Follow(next, head, i) : i \in 0..(len - 1)}
  <1>1. len \in Nat
    BY ShapeFacts
  <1>2. gone = live
    <2>1. ASSUME NEW i \in 0..(len - 1)
          PROVE  Follow(next, head, i) \in live
      <3>1. i \in Nat /\ i < len /\ i + 1 \in 1..len
        BY <1>1
      <3>2. Follow(next, head, i) = order[i + 1]
        BY <3>1, FollowNext
      <3>. QED  BY <3>1, <3>2, ShapeFacts
    <2>2. ASSUME NEW c \in live
          PROVE  c \in gone
      <3>1. PICK i \in 1..len : order[i] = c
        BY ShapeFacts
      <3>2. i - 1 \in 0..(len - 1) /\ i - 1 \in Nat /\ i - 1 < len /\ (i - 1) + 1 = i
        BY <1>1
      <3>3. Follow(next, head, i - 1) = c
        BY <3>1, <3>2, FollowNext
      <3>. QED  BY <3>2, <3>3
    <2>. QED  BY <2>1, <2>2
  <1>3. live' = live \ gone
    BY DEF Release
  <1> HIDE DEF gone
  <1>4. live' = {}
    BY <1>2, <1>3
  <1>5. prev' \in Pointers /\ next' \in Pointers
    <2>1. prev \in [Cell -> Cell \cup {Null}] /\ next \in [Cell -> Cell \cup {Null}]
      BY DEF Shape, Pointers
    <2>2. /\ prev' = [c \in Cell |-> IF c \in gone THEN Null ELSE prev[c]]
          /\ next' = [c \in Cell |-> IF c \in gone THEN Null ELSE next[c]]
      BY DEF Release, gone
    <2>. QED  BY <2>1, <2>2 DEF Pointers
  <1>6. head' = Null /\ tail' = Null /\ len' = 0 /\ order' = <<>>
    BY DEF Release
  <1>7. Len(<<>>) = 0 /\ <<>> \in Seq(Cell) /\ IsInjective(<<>>) /\ ToSet(<<>>) = {}
    BY EmptySeq, EmptyIsInjective
  <1>8. Linked(<<>>, Null, Null, prev', next')
    BY <1>7 DEF Linked
  <1>. QED  BY <1>4, <1>5, <1>6, <1>7, <1>8 DEF Shape

LEMMA InitShape == ListInit => Shape
  <1> SUFFICES ASSUME ListInit PROVE Shape
    OBVIOUS
  <1>1. /\ head = Null /\ tail = Null /\ len = 0 /\ live = {} /\ order = <<>>
        /\ prev = [c \in Cell |-> Null] /\ next = [c \in Cell |-> Null]
    BY DEF ListInit
  <1>2. Len(<<>>) = 0 /\ <<>> \in Seq(Cell) /\ IsInjective(<<>>) /\ ToSet(<<>>) = {}
    BY EmptySeq, EmptyIsInjective
  <1>3. Linked(<<>>, Null, Null, prev, next)
    BY <1>2 DEF Linked
  <1>4. prev \in Pointers /\ next \in Pointers
    BY <1>1 DEF Pointers
  <1>. QED  BY <1>1, <1>2, <1>3, <1>4 DEF Shape

LEMMA NextShape == Shape /\ [ListStep]_listVars => Shape'
  <1> SUFFICES ASSUME Shape, [ListStep]_listVars PROVE Shape'
    OBVIOUS
  <1>1. ASSUME NEW c \in Cell, NEW v \in Value, AddNodeHead(c, v)
        PROVE  Shape'
    <2>1. 1 \in 1..(len + 1)
      BY ShapeFacts
    <2>. QED  BY <1>1, <2>1, AddNodeHeadIs, InsertionShape
  <1>2. ASSUME NEW c \in Cell, NEW v \in Value, AddNodeTail(c, v)
        PROVE  Shape'
    <2>1. len + 1 \in 1..(len + 1)
      BY ShapeFacts
    <2>. QED  BY <1>2, <2>1, AddNodeTailIs, InsertionShape
  <1>3. ASSUME NEW c \in Cell, NEW v \in Value, NEW old \in live, NEW after \in BOOLEAN,
               InsertNode(c, v, old, after)
        PROVE  Shape'
    BY <1>3, InsertNodeIs, InsertionShape
  <1>4. ASSUME NEW c \in Cell, DelNode(c)
        PROVE  Shape'
    BY <1>4, DelNodeIs
  <1>5. CASE UNCHANGED <<struct, order>>
    BY <1>5 DEF Shape, struct
  <1>6. ASSUME NEW dir \in {"head", "tail"}, GetIterator(dir)
        PROVE  Shape'
    BY <1>5, <1>6 DEF GetIterator
  <1>7. CASE ListNext \/ ReleaseIterator \/ UNCHANGED listVars
    BY <1>5, <1>7 DEF ListNext, ReleaseIterator, listVars
  <1>. QED
    BY <1>1, <1>2, <1>3, <1>4, <1>6, <1>7, RotateShape, ReleaseShape DEF ListStep

\* Whatever the sequence of calls, the pointers stand for the list
\* (adlist.c:91-172, 331): no cell is lost, linked twice or left half linked.
THEOREM ListRepresents == ListSpec => []Represents
  BY InitShape, NextShape, ShapeRepresents, PTL DEF ListSpec

-----------------------------------------------------------------------------
(* One comes before the other in the sequence: what an iteration relies on *)
(* when cells are added and deleted under it.                              *)
Comes(s, a, b) == \E i, j \in 1..Len(s) : i < j /\ s[i] = a /\ s[j] = b

LEMMA ComesIs ==
    ASSUME NEW S, NEW s \in Seq(S), IsInjective(s), NEW i \in 1..Len(s), NEW j \in 1..Len(s)
    PROVE  Comes(s, s[i], s[j]) <=> i < j
  <1>1. \A k, l \in 1..Len(s) : s[k] = s[l] => k = l
    BY LenProperties DEF IsInjective
  <1>2. ASSUME Comes(s, s[i], s[j]) PROVE i < j
    <2>1. PICK k \in 1..Len(s), l \in 1..Len(s) : k < l /\ s[k] = s[i] /\ s[l] = s[j]
      BY <1>2 DEF Comes
    <2>2. k = i /\ l = j
      BY <1>1, <2>1
    <2>. QED  BY <2>1, <2>2
  <1>. QED  BY <1>2 DEF Comes

\* Putting a third cell in does not change which of two comes first.
LEMMA ComesInsert ==
    ASSUME NEW S, NEW s \in Seq(S), NEW k \in 1..(Len(s) + 1), NEW c \in S,
           NEW a, NEW b, a # c, b # c
    PROVE  Comes(InsertAt(s, k, c), a, b) <=> Comes(s, a, b)
  <1> DEFINE w == InsertAt(s, k, c)
             n == Len(s)
  <1>1. /\ Len(w) = n + 1
        /\ \A i \in 1..(n + 1) : w[i] = IF i < k THEN s[i] ELSE IF i = k THEN c ELSE s[i - 1]
    BY InsertAtIs
  <1>2. n \in Nat /\ k \in 1..(n + 1)
    BY LenProperties
  <1> HIDE DEF w, n
  <1>3. ASSUME NEW i \in 1..n
        PROVE  LET f == IF i < k THEN i ELSE i + 1 IN f \in 1..(n + 1) /\ w[f] = s[i]
    <2>1. CASE i < k
      <3>1. i \in 1..(n + 1)
        BY <1>2
      <3>. QED  BY <1>1, <2>1, <3>1
    <2>2. CASE ~(i < k)
      <3>1. i + 1 \in 1..(n + 1) /\ ~(i + 1 < k) /\ i + 1 # k /\ (i + 1) - 1 = i
        BY <1>2, <2>2
      <3>. QED  BY <1>1, <2>2, <3>1
    <2>. QED  BY <2>1, <2>2
  <1>4. ASSUME NEW i \in 1..(n + 1), w[i] # c
        PROVE  LET g == IF i < k THEN i ELSE i - 1 IN i # k /\ g \in 1..n /\ s[g] = w[i]
    <2>1. i # k
      BY <1>1, <1>2, <1>4
    <2>2. CASE i < k
      <3>1. i \in 1..n
        BY <1>2, <2>2
      <3>. QED  BY <1>1, <2>2, <3>1
    <2>3. CASE ~(i < k)
      <3>1. i - 1 \in 1..n
        BY <1>2, <2>1, <2>3
      <3>. QED  BY <1>1, <2>1, <2>3, <3>1
    <2>. QED  BY <2>2, <2>3
  <1>5. ASSUME Comes(s, a, b) PROVE Comes(w, a, b)
    <2>1. PICK i \in 1..n, j \in 1..n : i < j /\ s[i] = a /\ s[j] = b
      BY <1>5 DEF Comes, n
    <2> DEFINE f == IF i < k THEN i ELSE i + 1
               h == IF j < k THEN j ELSE j + 1
    <2>2. f \in 1..(n + 1) /\ h \in 1..(n + 1) /\ w[f] = a /\ w[h] = b
      BY <1>3, <2>1
    <2>3. f < h
      BY <1>2, <2>1
    <2> HIDE DEF f, h
    <2>. QED  BY <1>1, <2>2, <2>3 DEF Comes
  <1>6. ASSUME Comes(w, a, b) PROVE Comes(s, a, b)
    <2>1. PICK i \in 1..(n + 1), j \in 1..(n + 1) : i < j /\ w[i] = a /\ w[j] = b
      BY <1>1, <1>6 DEF Comes
    <2> DEFINE f == IF i < k THEN i ELSE i - 1
               h == IF j < k THEN j ELSE j - 1
    <2>2. f \in 1..n /\ h \in 1..n /\ s[f] = a /\ s[h] = b /\ i # k /\ j # k
      BY <1>4, <2>1
    <2>3. f < h
      BY <1>2, <2>1, <2>2
    <2> HIDE DEF f, h
    <2>. QED  BY <2>2, <2>3 DEF Comes, n
  <1>. QED  BY <1>5, <1>6 DEF w

\* Nor does taking a third one out.
LEMMA ComesRemove ==
    ASSUME NEW S, NEW s \in Seq(S), NEW k \in 1..Len(s), NEW a, NEW b, a # s[k], b # s[k]
    PROVE  Comes(RemoveAt(s, k), a, b) <=> Comes(s, a, b)
  <1> DEFINE w == RemoveAt(s, k)
             n == Len(s)
  <1>1. /\ Len(w) = n - 1
        /\ \A i \in 1..(n - 1) : w[i] = IF i < k THEN s[i] ELSE s[i + 1]
    BY RemoveAtIs
  <1>2. n \in Nat /\ k \in 1..n
    BY LenProperties
  <1> HIDE DEF w, n
  <1>3. ASSUME NEW i \in 1..n, i # k
        PROVE  LET f == IF i < k THEN i ELSE i - 1 IN f \in 1..(n - 1) /\ w[f] = s[i]
    <2>1. CASE i < k
      <3>1. i \in 1..(n - 1)
        BY <1>2, <2>1
      <3>. QED  BY <1>1, <2>1, <3>1
    <2>2. CASE ~(i < k)
      <3>1. i - 1 \in 1..(n - 1) /\ ~(i - 1 < k) /\ (i - 1) + 1 = i
        BY <1>2, <1>3, <2>2
      <3>. QED  BY <1>1, <2>2, <3>1
    <2>. QED  BY <2>1, <2>2
  <1>4. ASSUME NEW i \in 1..(n - 1)
        PROVE  LET g == IF i < k THEN i ELSE i + 1 IN g \in 1..n /\ s[g] = w[i]
    BY <1>1, <1>2
  <1>5. ASSUME Comes(s, a, b) PROVE Comes(w, a, b)
    <2>1. PICK i \in 1..n, j \in 1..n : i < j /\ s[i] = a /\ s[j] = b
      BY <1>5 DEF Comes, n
    <2> DEFINE f == IF i < k THEN i ELSE i - 1
               h == IF j < k THEN j ELSE j - 1
    <2>2. i # k /\ j # k
      BY <2>1
    <2>3. f \in 1..(n - 1) /\ h \in 1..(n - 1) /\ w[f] = a /\ w[h] = b
      BY <1>3, <2>1, <2>2
    <2>4. f < h
      BY <1>2, <2>1, <2>2
    <2> HIDE DEF f, h
    <2>. QED  BY <1>1, <2>3, <2>4 DEF Comes
  <1>6. ASSUME Comes(w, a, b) PROVE Comes(s, a, b)
    <2>1. PICK i \in 1..(n - 1), j \in 1..(n - 1) : i < j /\ w[i] = a /\ w[j] = b
      BY <1>1, <1>6 DEF Comes
    <2> DEFINE f == IF i < k THEN i ELSE i + 1
               h == IF j < k THEN j ELSE j + 1
    <2>2. f \in 1..n /\ h \in 1..n /\ s[f] = a /\ s[h] = b
      BY <1>4, <2>1
    <2>3. f < h
      BY <1>2, <2>1
    <2> HIDE DEF f, h
    <2>. QED  BY <2>2, <2>3 DEF Comes, n
  <1>. QED  BY <1>5, <1>6 DEF w

\* Front takes out the last element.
LEMMA FrontElements ==
    ASSUME NEW S, NEW s \in Seq(S), s # <<>>, IsInjective(s)
    PROVE  /\ Front(s) \in Seq(S) /\ IsInjective(Front(s))
           /\ ToSet(Front(s)) = ToSet(s) \ {Last(s)}
           /\ Last(s) \in ToSet(s)
  <1> DEFINE n == Len(s)
  <1>1. n \in Nat /\ n # 0 /\ n \in 1..n
    BY LenProperties, EmptySeq
  <1>2. RemoveAt(s, n) = Front(s)
    <2>1. SubSeq(s, 1, n - 1) \in Seq(S)
      BY <1>1, SplitElements
    <2>2. SubSeq(s, n + 1, n) = <<>>
      BY <1>1, SubSeqEmpty
    <2>3. SubSeq(s, 1, n - 1) \o <<>> = SubSeq(s, 1, n - 1)
      BY <2>1, ConcatEmptySeq
    <2>. QED  BY <2>2, <2>3 DEF RemoveAt, Front
  <1>3. Last(s) = s[n] /\ Last(s) \in ToSet(s)
    BY <1>1, ToSetFacts DEF Last
  <1>. QED  BY <1>1, <1>2, <1>3, RemoveAtElements

-----------------------------------------------------------------------------
(* The iterator (IteratorLive, VisitsAll).                                 *)

\* The cell c lies behind the one the iterator holds, in its direction.
Passed(c) ==
    IF iter.dir = "head" THEN Comes(order, c, iter.next) ELSE Comes(order, iter.next, c)

\* While the iterator holds a cell, the cells it returned lie behind it and
\* the ones it still owes do not.
Owed ==
    iter.next # Null =>
        \A c \in live : /\ c \in ToSet(visited) => Passed(c)
                        /\ c \in due /\ c \notin ToSet(visited) => ~Passed(c)

Under ==
    /\ iter \in [on : BOOLEAN, next : live \cup {Null}, dir : {"head", "tail"}]
    /\ due \subseteq live
    /\ visited \in Seq(Cell) /\ ToSet(visited) \subseteq live /\ IsInjective(visited)
    /\ ~iter.on => iter = NoIter /\ current = Null /\ due = {} /\ visited = <<>>
    /\ current # Null => visited # <<>> /\ Last(visited) = current
    /\ Owed
    /\ iter.next = Null => due \subseteq ToSet(visited)

LEMMA UnderIterator == Under => IteratorLive /\ VisitsAll
  <1> SUFFICES ASSUME Under PROVE IteratorLive /\ VisitsAll
    OBVIOUS
  <1>1. IteratorLive
    BY DEF Under, IteratorLive
  <1>2. \A i, j \in DOMAIN visited : visited[i] = visited[j] => i = j
    BY DEF Under, IsInjective
  <1>3. iter.next = Null => due \subseteq ToSet(visited)
    BY DEF Under
  <1>4. VisitsAll
    BY <1>2, <1>3 DEF VisitsAll
  <1>. QED  BY <1>1, <1>4

LEMMA InitUnder == ListInit => Under
  <1> SUFFICES ASSUME ListInit PROVE Under
    OBVIOUS
  <1>1. /\ iter = NoIter /\ current = Null /\ due = {} /\ visited = <<>> /\ live = {}
    BY DEF ListInit
  <1>2. iter.on = FALSE /\ iter.next = Null /\ iter.dir = "head"
    BY <1>1 DEF NoIter
  <1>3. <<>> \in Seq(Cell) /\ ToSet(<<>>) = {} /\ IsInjective(<<>>)
    BY EmptySeq, EmptyIsInjective
  <1>4. iter \in [on : BOOLEAN, next : live \cup {Null}, dir : {"head", "tail"}]
    BY <1>1 DEF NoIter
  <1>. QED  BY <1>1, <1>2, <1>3, <1>4 DEF Under, Owed

\* An iterator that is not out owes nothing and holds nothing.
LEMMA UnderOff == Under /\ ~iter.on => iter = NoIter /\ iter.next = Null /\ due = {}
                                       /\ visited = <<>> /\ current = Null
  BY DEF Under, NoIter

\* A cell added during an iteration is not owed, and the ones that are stay
\* where they were.
LEMMA InsertionUnder ==
    ASSUME Shape, Under, NEW k \in 1..(len + 1), NEW c \in Cell \ live, NEW l, NEW r,
           Insertion(k, c, l, r), UNCHANGED iteration
    PROVE  Under'
  <1>1. UNCHANGED <<iter, current, due, visited>>
    BY DEF iteration
  <1>2. /\ order \in Seq(Cell) /\ k \in 1..(Len(order) + 1) /\ order' = InsertAt(order, k, c)
        /\ live' = live \cup {c}
    BY DEF Shape, Insertion
  <1>3. Owed'
    <2>1. SUFFICES ASSUME iter.next # Null, NEW x \in live'
                   PROVE  /\ x \in ToSet(visited) => Passed(x)'
                          /\ x \in due /\ x \notin ToSet(visited) => ~Passed(x)'
      BY <1>1 DEF Owed
    <2>2. CASE x = c
      BY <2>2 DEF Under
    <2>3. CASE x # c
      <3>1. x \in live /\ iter.next # c
        BY <1>2, <2>1, <2>3 DEF Under
      <3>2. /\ Comes(order', x, iter.next) <=> Comes(order, x, iter.next)
            /\ Comes(order', iter.next, x) <=> Comes(order, iter.next, x)
        BY <1>2, <2>3, <3>1, ComesInsert
      <3>3. Passed(x)' <=> Passed(x)
        BY <1>1, <3>2 DEF Passed
      <3>. QED  BY <2>1, <3>1, <3>3 DEF Under, Owed
    <2>. QED  BY <2>2, <2>3
  <1>. QED  BY <1>1, <1>2, <1>3 DEF Under

\* The cell deleted during an iteration is the one returned last, and never
\* the one the iterator holds.
LEMMA DelNodeUnder ==
    ASSUME Shape, Under, NEW c \in Cell, DelNode(c)
    PROVE  Under'
  <1>1. /\ UNCHANGED iter /\ current' = Null /\ due' = due \ {c}
        /\ visited' = IF iter.on THEN Front(visited) ELSE visited
        /\ iter.on => c = current
    BY DEF DelNode
  <1>2. live' = live \ {c}
    BY DelNodeIs
  <1>3. PICK k \in 1..len : order[k] = c /\ order' = RemoveAt(order, k)
    BY DelNodeIs
  <1>4. order \in Seq(Cell) /\ len = Len(order) /\ IsInjective(order) /\ k \in 1..Len(order)
    BY <1>3 DEF Shape
  <1>5. CASE ~iter.on
    <2>1. iter = NoIter /\ iter.next = Null /\ due = {} /\ visited = <<>>
      BY <1>5, UnderOff
    <2>2. due' = {} /\ visited' = <<>>
      BY <1>1, <1>5, <2>1
    <2>. QED  BY <1>1, <2>1, <2>2, EmptySeq, EmptyIsInjective DEF Under, Owed
  <1>6. CASE iter.on
    <2>1. current = c /\ c # Null /\ visited # <<>> /\ Last(visited) = c
      BY <1>1, <1>6, NullAssumption DEF Under
    <2>2. /\ visited' \in Seq(Cell) /\ IsInjective(visited')
          /\ ToSet(visited') = ToSet(visited) \ {c} /\ c \in ToSet(visited)
      BY <1>1, <1>6, <2>1, FrontElements DEF Under
    <2>3. ASSUME iter.next # Null PROVE iter.next # c
      <3>1. Passed(c)
        BY <2>2, <2>3 DEF Under, Owed
      <3>2. ~Comes(order, c, c)
        BY <1>3, <1>4, ComesIs
      <3>. QED  BY <3>1, <3>2 DEF Passed
    <2>4. iter.next' \in live' \cup {Null}
      BY <1>1, <1>2, <2>3 DEF Under
    <2>5. Owed'
      <3>1. SUFFICES ASSUME iter.next # Null, NEW x \in live'
                     PROVE  /\ x \in ToSet(visited') => Passed(x)'
                            /\ x \in due' /\ x \notin ToSet(visited') => ~Passed(x)'
        BY <1>1 DEF Owed
      <3>2. x \in live /\ x # c /\ iter.next # c
        BY <1>2, <2>3, <3>1
      <3>3. /\ Comes(order', x, iter.next) <=> Comes(order, x, iter.next)
            /\ Comes(order', iter.next, x) <=> Comes(order, iter.next, x)
        BY <1>3, <1>4, <3>2, ComesRemove
      <3>4. Passed(x)' <=> Passed(x)
        BY <1>1, <3>3 DEF Passed
      <3>. QED  BY <1>1, <2>2, <3>1, <3>2, <3>4 DEF Under, Owed
    <2>6. due' \subseteq live' /\ ToSet(visited') \subseteq live'
      BY <1>1, <1>2, <2>2 DEF Under
    <2>7. iter'.next = Null => due' \subseteq ToSet(visited')
      BY <1>1, <2>2 DEF Under
    <2>. QED  BY <1>1, <1>6, <2>2, <2>4, <2>5, <2>6, <2>7 DEF Under
  <1>. QED  BY <1>5, <1>6

\* An iteration begins at an end of the list and owes all of it.
LEMMA GetIteratorUnder ==
    ASSUME Shape, Under, NEW dir \in {"head", "tail"}, GetIterator(dir)
    PROVE  Under'
  <1>1. /\ iter' = [on |-> TRUE, next |-> IF dir = "head" THEN head ELSE tail, dir |-> dir]
        /\ current' = Null /\ due' = live /\ visited' = <<>>
        /\ UNCHANGED <<order, live>>
    BY DEF GetIterator, struct
  <1>2. /\ iter'.on = TRUE /\ iter'.dir = dir
        /\ iter'.next = IF dir = "head" THEN head ELSE tail
    BY <1>1
  <1>3. order \in Seq(Cell) /\ len = Len(order) /\ IsInjective(order) /\ len \in Nat
    BY ShapeFacts DEF Shape
  <1>4. ToSet(<<>>) = {} /\ IsInjective(<<>>) /\ <<>> \in Seq(Cell)
    BY EmptySeq, EmptyIsInjective
  <1>5. CASE len = 0
    <2>1. live = {}
      <3>1. ~\E i \in 1..len : TRUE
        BY <1>5
      <3>. QED  BY <3>1, ShapeFacts
    <2>2. iter'.next = Null
      BY <1>2, <1>5, ShapeFacts
    <2>. QED  BY <1>1, <1>2, <1>4, <2>1, <2>2 DEF Under, Owed
  <1>6. CASE len # 0
    <2>1. 1 \in 1..len /\ len \in 1..len
      BY <1>3, <1>6
    <2>2. head = order[1] /\ tail = order[len]
      BY <1>6, ShapeFacts
    <2>3. iter'.next \in live /\ iter'.next # Null
      BY <1>2, <2>1, <2>2, ShapeFacts
    <2>4. ASSUME NEW x \in live PROVE ~Passed(x)'
      <3>1. PICK i \in 1..len : order[i] = x
        BY ShapeFacts
      <3>2. ~(i < 1) /\ ~(len < i)
        BY <1>3
      <3>3. ~Comes(order, order[i], order[1]) /\ ~Comes(order, order[len], order[i])
        BY <1>3, <2>1, <3>2, ComesIs
      <3>. QED  BY <1>1, <1>2, <2>2, <3>1, <3>3 DEF Passed
    <2>5. Owed'
      BY <1>1, <1>4, <2>4 DEF Owed
    <2>. QED  BY <1>1, <1>2, <1>4, <2>3, <2>5 DEF Under
  <1>. QED  BY <1>5, <1>6

\* listNext moves to a neighbour: the cell it returns is the only one that
\* passes from the cells owed to the cells behind.
LEMMA ListNextUnder ==
    ASSUME Shape, Under, ListNext
    PROVE  Under'
  <1> DEFINE c == iter.next
             d == IF iter.dir = "head" THEN next[c] ELSE prev[c]
  <1>1. /\ iter.on /\ c # Null
        /\ current' = c /\ visited' = Append(visited, c)
        /\ iter' = [iter EXCEPT !.next = d]
        /\ UNCHANGED <<order, live, due>>
    BY DEF ListNext, struct
  <1>2. iter.on \in BOOLEAN /\ iter.dir \in {"head", "tail"} /\ c \in live
    BY <1>1 DEF Under
  <1>3. iter'.on = iter.on /\ iter'.dir = iter.dir /\ iter'.next = d
    BY <1>1 DEF Under
  <1>4. order \in Seq(Cell) /\ len = Len(order) /\ IsInjective(order) /\ live \in SUBSET Cell
    BY DEF Shape
  <1>5. PICK k \in 1..len : order[k] = c
    BY <1>2, ShapeFacts
  <1>6. c \notin ToSet(visited)
    <2>1. ~Comes(order, c, c)
      BY <1>4, <1>5, ComesIs
    <2>. QED  BY <1>1, <1>2, <2>1 DEF Under, Owed, Passed
  <1>7. /\ visited' \in Seq(Cell) /\ ToSet(visited') = ToSet(visited) \cup {c}
        /\ IsInjective(visited')
    BY <1>1, <1>2, <1>4, <1>6, AppendElements DEF Under
  <1>8. visited' # <<>> /\ Last(visited') = c
    <2>1. Len(Append(visited, c)) = Len(visited) + 1
          /\ Append(visited, c)[Len(visited) + 1] = c
      BY <1>2, <1>4, LenProperties, AppendProperties DEF Under
    <2>2. Append(visited, c) # <<>>
      BY <1>2, <1>4, AppendProperties DEF Under
    <2>. QED  BY <1>1, <2>1, <2>2 DEF Last
  <1> HIDE DEF c
  <1>9. d \in live \cup {Null}
    BY <1>5, ShapeFacts
  <1>10. ASSUME NEW i \in 1..len
         PROVE  /\ order[i] \in ToSet(visited) => IF iter.dir = "head" THEN i < k ELSE k < i
                /\ order[i] \in due /\ order[i] \notin ToSet(visited)
                     => ~(IF iter.dir = "head" THEN i < k ELSE k < i)
    <2>1. /\ Comes(order, order[i], c) <=> i < k
          /\ Comes(order, c, order[i]) <=> k < i
      BY <1>4, <1>5, ComesIs
    <2>2. Passed(order[i]) <=> IF iter.dir = "head" THEN i < k ELSE k < i
      BY <2>1 DEF Passed, c
    <2>3. order[i] \in live
      BY ShapeFacts
    <2>. QED  BY <1>1, <2>2, <2>3 DEF Under, Owed, c
  <1>11. ASSUME d # Null PROVE Owed'
    <2>1. PICK m \in 1..len : order[m] = d
      BY <1>9, <1>11, ShapeFacts
    <2>2. k \in Nat /\ m \in Nat /\ len \in Nat
      BY ShapeFacts
    <2>3. IF iter.dir = "head" THEN m = k + 1 ELSE m = k - 1
      <3>1. CASE iter.dir = "head"
        <4>1. d = next[order[k]]
          BY <1>5, <3>1
        <4>2. k # len /\ d = order[k + 1] /\ k + 1 \in 1..len
          BY <1>11, <2>2, <4>1, ShapeFacts
        <4>. QED  BY <2>1, <3>1, <4>2, ShapeFacts
      <3>2. CASE iter.dir # "head"
        <4>1. d = prev[order[k]]
          BY <1>5, <3>2
        <4>2. k # 1 /\ d = order[k - 1] /\ k - 1 \in 1..len
          BY <1>11, <2>2, <4>1, ShapeFacts
        <4>. QED  BY <2>1, <3>2, <4>2, ShapeFacts
      <3>. QED  BY <3>1, <3>2
    <2>4. SUFFICES ASSUME NEW x \in live
                   PROVE  /\ x \in ToSet(visited') => Passed(x)'
                          /\ x \in due /\ x \notin ToSet(visited') => ~Passed(x)'
      BY <1>1 DEF Owed
    <2>5. PICK i \in 1..len : order[i] = x
      BY ShapeFacts
    <2>6. /\ Comes(order, x, d) <=> i < m
          /\ Comes(order, d, x) <=> m < i
      BY <1>4, <2>1, <2>5, ComesIs
    <2>7. Passed(x)' <=> IF iter.dir = "head" THEN i < m ELSE m < i
      BY <1>1, <1>3, <2>6 DEF Passed
    <2>8. x = c <=> i = k
      BY <1>5, <2>5, ShapeFacts
    <2>9. i \in Nat
      OBVIOUS
    <2>10. CASE iter.dir = "head"
      <3>1. Passed(x)' <=> i < k \/ i = k
        BY <2>2, <2>3, <2>7, <2>9, <2>10
      <3>. QED  BY <1>7, <1>10, <2>2, <2>5, <2>8, <2>9, <2>10, <3>1
    <2>11. CASE iter.dir # "head"
      <3>1. Passed(x)' <=> k < i \/ i = k
        BY <2>2, <2>3, <2>7, <2>9, <2>11
      <3>. QED  BY <1>7, <1>10, <2>2, <2>5, <2>8, <2>9, <2>11, <3>1
    <2>. QED  BY <2>10, <2>11
  <1>12. ASSUME d = Null PROVE due \subseteq ToSet(visited')
    <2>1. k \in Nat /\ len \in Nat
      BY ShapeFacts
    <2>2. SUFFICES ASSUME NEW x \in due PROVE x \in ToSet(visited')
      OBVIOUS
    <2>3. PICK i \in 1..len : order[i] = x
      BY ShapeFacts DEF Under
    <2>4. IF iter.dir = "head" THEN k = len ELSE k = 1
      <3>1. CASE iter.dir = "head"
        <4>1. next[order[k]] = Null
          BY <1>5, <1>12, <3>1
        <4>2. k # len => k + 1 \in 1..len /\ next[order[k]] = order[k + 1]
          BY <2>1, ShapeFacts
        <4>. QED  BY <3>1, <4>1, <4>2, ShapeFacts
      <3>2. CASE iter.dir # "head"
        <4>1. prev[order[k]] = Null
          BY <1>5, <1>12, <3>2
        <4>2. k # 1 => k - 1 \in 1..len /\ prev[order[k]] = order[k - 1]
          BY <2>1, ShapeFacts
        <4>. QED  BY <3>2, <4>1, <4>2, ShapeFacts
      <3>. QED  BY <3>1, <3>2
    <2>5. i = k \/ IF iter.dir = "head" THEN i < k ELSE k < i
      BY <2>1, <2>4
    <2>. QED  BY <1>5, <1>7, <1>10, <2>3, <2>5
  <1>. QED  BY <1>1, <1>2, <1>3, <1>4, <1>7, <1>8, <1>9, <1>11, <1>12 DEF Under, Owed

\* Every call keeps the promise of an iteration under way.
LEMMA NextUnder == Shape /\ Under /\ [ListStep]_listVars => Under'
  <1> SUFFICES ASSUME Shape, Under, [ListStep]_listVars PROVE Under'
    OBVIOUS
  <1>1. ASSUME NEW c \in Cell, NEW v \in Value, AddNodeHead(c, v)
        PROVE  Under'
    <2>1. 1 \in 1..(len + 1) /\ UNCHANGED iteration
      BY <1>1, ShapeFacts DEF AddNodeHead, Alloc
    <2>. QED  BY <1>1, <2>1, AddNodeHeadIs, InsertionUnder
  <1>2. ASSUME NEW c \in Cell, NEW v \in Value, AddNodeTail(c, v)
        PROVE  Under'
    <2>1. len + 1 \in 1..(len + 1) /\ UNCHANGED iteration
      BY <1>2, ShapeFacts DEF AddNodeTail, Alloc
    <2>. QED  BY <1>2, <2>1, AddNodeTailIs, InsertionUnder
  <1>3. ASSUME NEW c \in Cell, NEW v \in Value, NEW old \in live, NEW after \in BOOLEAN,
               InsertNode(c, v, old, after)
        PROVE  Under'
    <2>1. UNCHANGED iteration
      BY <1>3 DEF InsertNode, Alloc
    <2>. QED  BY <1>3, <2>1, InsertNodeIs, InsertionUnder
  <1>4. ASSUME NEW c \in Cell, DelNode(c)
        PROVE  Under'
    BY <1>4, DelNodeUnder
  <1>5. ASSUME NEW dir \in {"head", "tail"}, GetIterator(dir)
        PROVE  Under'
    BY <1>5, GetIteratorUnder
  <1>6. CASE ListNext
    BY <1>6, ListNextUnder
  <1>7. CASE Rotate \/ Release
    <2>1. UNCHANGED <<iter, current, due, visited>> /\ ~iter.on
      BY <1>7 DEF Rotate, Release, iteration
    <2>2. iter = NoIter /\ iter.next = Null /\ due = {} /\ visited = <<>> /\ current = Null
      BY <2>1, UnderOff
    <2>. QED  BY <2>1, <2>2, EmptySeq, EmptyIsInjective DEF Under, Owed
  <1>8. CASE ReleaseIterator
    <2>1. iter' = NoIter /\ current' = Null /\ due' = {} /\ visited' = <<>>
      BY <1>8 DEF ReleaseIterator
    <2>2. /\ iter' \in [on : BOOLEAN, next : live' \cup {Null}, dir : {"head", "tail"}]
          /\ iter'.next = Null
      BY <2>1 DEF NoIter
    <2>. QED  BY <2>1, <2>2, EmptySeq, EmptyIsInjective DEF Under, Owed
  <1>9. CASE UNCHANGED listVars
    BY <1>9 DEF Under, Owed, Passed, listVars, struct, iteration
  <1>. QED
    BY <1>1, <1>2, <1>3, <1>4, <1>5, <1>6, <1>7, <1>8, <1>9 DEF ListStep

LEMMA ShapeUnder == ListSpec => [](Shape /\ Under)
  <1>1. ListInit => Shape /\ Under
    BY InitShape, InitUnder
  <1>2. Shape /\ Under /\ [ListStep]_listVars => (Shape /\ Under)'
    BY NextShape, NextUnder
  <1>. QED  BY <1>1, <1>2, PTL DEF ListSpec

\* The cell an iterator holds was not freed (adlist.c:229-240): the next one
\* is taken before the caller gets the one it may delete.
THEOREM IteratorStaysLive == ListSpec => []IteratorLive
  <1>1. Under => IteratorLive
    BY UnderIterator
  <1>. QED  BY <1>1, ShapeUnder, PTL

\* An iteration that came to its end returned every cell that was in the list
\* from its start, and none of them twice, whatever was added and deleted
\* under it (adlist.c:182-240).
THEOREM IterationVisitsAll == ListSpec => []VisitsAll
  <1>1. Under => VisitsAll
    BY UnderIterator
  <1>. QED  BY <1>1, ShapeUnder, PTL

-----------------------------------------------------------------------------
(* Looking up (LooksUp).                                                   *)

\* listIndex follows the pointers the right number of steps.
LEMMA IndexIs ==
    ASSUME Shape, NEW i \in Int
    PROVE  ListIndex(i) = IF i \in 0..(len - 1) THEN order[i + 1]
                          ELSE IF i \in -len..-1 THEN order[len + 1 + i] ELSE Null
  <1>1. len \in Nat
    BY ShapeFacts
  <1>2. CASE i >= 0
    <2>1. i \in Nat /\ ~(i < 0) /\ i \notin -len..-1 /\ (i < len <=> i \in 0..(len - 1))
      BY <1>1, <1>2
    <2>2. ListIndex(i) = Follow(next, head, i)
      BY <2>1 DEF ListIndex
    <2>3. Follow(next, head, i) = IF i < len THEN order[i + 1] ELSE Null
      BY <2>1, FollowNext
    <2>. QED  BY <2>1, <2>2, <2>3
  <1>3. CASE i < 0
    <2>1. /\ (-i) - 1 \in Nat /\ i \notin 0..(len - 1)
          /\ (-i) - 1 < len <=> i \in -len..-1
          /\ len - ((-i) - 1) = len + 1 + i
      BY <1>1, <1>3
    <2>2. ListIndex(i) = Follow(prev, tail, (-i) - 1)
      BY <1>3 DEF ListIndex
    <2>3. Follow(prev, tail, (-i) - 1)
            = IF (-i) - 1 < len THEN order[len - ((-i) - 1)] ELSE Null
      BY <2>1, FollowPrev
    <2>. QED  BY <2>1, <2>2, <2>3
  <1>. QED  BY <1>2, <1>3

\* The first cell with the value, found by counting steps from the head, is
\* the one with the least position.
LEMMA SearchKeyIs ==
    ASSUME Shape, NEW key
    PROVE  SearchKey(key) =
              LET I == {i \in 1..Len(order) : value[order[i]] = key}
                  i == IF I # {} THEN CHOOSE x \in I : \A y \in I : x =< y ELSE 0
              IN IF i = 0 THEN Null ELSE order[i]
  <1> DEFINE F == {i \in 0..(len - 1) : value[Follow(next, head, i)] = key}
             I == {i \in 1..Len(order) : value[order[i]] = key}
  <1>1. len \in Nat /\ len = Len(order)
    BY ShapeFacts DEF Shape
  <1> DEFINE first == IF I # {} THEN CHOOSE x \in I : \A y \in I : x =< y ELSE 0
  <1>2. SUFFICES SearchKey(key) = IF first = 0 THEN Null ELSE order[first]
    OBVIOUS
  <1>3. \A i \in 0..(len - 1) : Follow(next, head, i) = order[i + 1]
    <2>1. SUFFICES ASSUME NEW i \in 0..(len - 1) PROVE Follow(next, head, i) = order[i + 1]
      OBVIOUS
    <2>2. i \in Nat /\ i < len
      BY <1>1
    <2>. QED  BY <2>2, FollowNext
  <1>4. SearchKey(key) = IF F = {} THEN Null
                         ELSE Follow(next, head, CHOOSE x \in F : \A y \in F : x <= y)
    BY DEF SearchKey
  <1>5. \A i : i \in F <=> i \in 0..(len - 1) /\ value[order[i + 1]] = key
    BY <1>3
  <1>6. \A i : i \in I <=> i \in 1..len /\ value[order[i]] = key
    BY <1>1
  <1>7. F \in SUBSET Nat /\ I \in SUBSET Nat
    BY <1>1
  <1> HIDE DEF F, I
  <1>8. \A i \in F : i + 1 \in I
    BY <1>1, <1>5, <1>6
  <1>9. \A i \in I : i - 1 \in F /\ i # 0
    <2>1. SUFFICES ASSUME NEW i \in I PROVE i - 1 \in F /\ i # 0
      OBVIOUS
    <2>2. i \in 1..len /\ value[order[i]] = key
      BY <1>6
    <2>3. i - 1 \in 0..(len - 1) /\ (i - 1) + 1 = i /\ i # 0
      BY <1>1, <2>2
    <2>. QED  BY <1>5, <2>2, <2>3
  <1>10. CASE I = {}
    <2>1. F = {}
      BY <1>8, <1>10
    <2>. QED  BY <1>4, <1>10, <2>1
  <1>11. CASE I # {}
    <2> DEFINE m == CHOOSE x \in I : \A y \in I : x <= y
               f == CHOOSE x \in F : \A y \in F : x <= y
    <2>1. F # {}
      BY <1>9, <1>11
    <2>2. m \in I /\ \A y \in I : m <= y
      BY <1>7, <1>11, Least
    <2>3. f \in F /\ \A y \in F : f <= y
      BY <1>7, <2>1, Least
    <2>4. first = m /\ SearchKey(key) = Follow(next, head, f)
      BY <1>4, <1>11, <2>1
    <2> HIDE DEF m, f, first
    <2>5. m <= f + 1 /\ f <= m - 1
      BY <1>8, <1>9, <2>2, <2>3
    <2>6. m \in Nat /\ f \in Nat
      BY <1>7, <2>2, <2>3
    <2>7. f + 1 = m
      BY <2>5, <2>6
    <2>8. Follow(next, head, f) = order[m] /\ m # 0
      BY <1>3, <1>5, <1>9, <2>2, <2>3, <2>7
    <2>. QED  BY <2>4, <2>8
  <1>. QED  BY <1>10, <1>11

LEMMA ShapeLooksUp == Shape => LooksUp
  <1> SUFFICES ASSUME Shape PROVE LooksUp
    OBVIOUS
  <1>1. len \in Nat
    BY ShapeFacts
  <1>2. \A i \in -(len + 1)..len :
          ListIndex(i) = IF i \in 0..(len - 1) THEN order[i + 1]
                         ELSE IF i \in -len..-1 THEN order[len + 1 + i] ELSE Null
    <2>1. \A i \in -(len + 1)..len : i \in Int
      BY <1>1
    <2>. QED  BY <2>1, IndexIs
  <1>3. \A key \in Value :
          SearchKey(key) =
             LET i == SelectInSeq(order, LAMBDA c : value[c] = key)
             IN IF i = 0 THEN Null ELSE order[i]
    BY SearchKeyIs DEF SelectInSeq, Min
  <1>. QED  BY <1>2, <1>3 DEF LooksUp

\* listIndex (adlist.c:314-328) counts from 0 at the head and from -1 at the
\* tail, and listSearchKey (adlist.c:288-306) returns the first of the cells
\* with the value, after any calls.
THEOREM LookupsAreRight == ListSpec => []LooksUp
  BY ShapeLooksUp, InitShape, NextShape, PTL DEF ListSpec

-----------------------------------------------------------------------------
(* The option text of the arguments (QuotingUndone, OptionsReach).         *)

\* Counting up to N: a set that has 0, and each number that comes after one
\* of its own, has all of them.
LEMMA UpTo ==
    ASSUME NEW N \in Nat, NEW T, 0 \in T, \A n \in 1..N : n - 1 \in T => n \in T
    PROVE  \A n \in 0..N : n \in T
  <1> DEFINE R == {n \in 0..N : n \notin T}
  <1>1. SUFFICES ASSUME R # {} PROVE FALSE
    OBVIOUS
  <1>2. R \in SUBSET Nat
    OBVIOUS
  <1>3. PICK n \in R : \A m \in R : n <= m
    <2> HIDE DEF R
    <2>. QED  BY <1>1, <1>2, Least
  <1>4. n \in 1..N /\ n \notin T
    OBVIOUS
  <1>5. n - 1 \in 0..N /\ ~(n <= n - 1)
    BY <1>4
  <1>6. n - 1 \in T
    BY <1>3, <1>5
  <1>. QED  BY <1>4, <1>6

-----------------------------------------------------------------------------
(* The loops of the model are functions: each is made turn by turn.        *)

\* What sdscatrepr has after n bytes.
Repr(f, v, n) ==
    f = [i \in 0..n |-> IF i = 0 THEN <<"dq">>
                        ELSE f[i - 1] \o Escape(v[i])]

LEMMA ReprLoop ==
    ASSUME NEW v, Len(v) \in Nat
    PROVE  \E f : /\ f[0] = <<"dq">>
                  /\ \A i \in 1..Len(v) : f[i] = f[i - 1] \o Escape(v[i])
                  /\ CatRepr(v) = Append(f[Len(v)], "dq")
  <1> DEFINE N == Len(v)
             T == {n \in 0..N : \E f : Repr(f, v, n)}
             made == CHOOSE f : Repr(f, v, N)
  <1>1. 0 \in T
    <2>1. Repr([i \in 0..0 |-> <<"dq">>], v, 0)
      BY DEF Repr
    <2>. QED  BY <2>1
  <1>2. ASSUME NEW n \in 1..N, n - 1 \in T PROVE n \in T
    <2>1. PICK f : Repr(f, v, n - 1)
      BY <1>2
    <2> DEFINE g == [i \in 0..n |-> IF i = n THEN f[n - 1] \o Escape(v[n]) ELSE f[i]]
               h == [i \in 0..n |-> IF i = 0 THEN <<"dq">>
                                    ELSE g[i - 1] \o Escape(v[i])]
    <2>2. \A i \in 0..(n - 1) : f[i] = IF i = 0 THEN <<"dq">>
                                       ELSE f[i - 1] \o Escape(v[i])
      BY <2>1 DEF Repr
    <2>3. \A i \in 0..n : g[i] = h[i]
      BY <2>2
    <2>4. g = [i \in 0..n |-> g[i]] /\ h = [i \in 0..n |-> h[i]]
      OBVIOUS
    <2>5. g = h
      <3> HIDE DEF g, h
      <3>. QED  BY <2>3, <2>4
    <2>6. Repr(g, v, n)
      <3> HIDE DEF g
      <3>. QED  BY <2>5 DEF Repr
    <2>. QED  BY <2>6
  <1>3. N \in Nat /\ N \in 0..N
    OBVIOUS
  <1>4. N \in T
    <2> HIDE DEF T, N
    <2>. QED  BY <1>1, <1>2, <1>3, UpTo
  <1>5. Repr(made, v, N)
    BY <1>4
  <1>6. CatRepr(v) = Append(made[N], "dq")
    BY DEF CatRepr, Repr
  <1> HIDE DEF made
  <1>7. made[0] = <<"dq">>
    BY <1>3, <1>5 DEF Repr
  <1>8. \A i \in 1..N : made[i] = made[i - 1] \o Escape(v[i])
    <2>1. \A i \in 0..N : made[i] = IF i = 0 THEN <<"dq">> ELSE made[i - 1] \o Escape(v[i])
      BY <1>5 DEF Repr
    <2>2. \A i \in 1..N : i \in 0..N /\ i # 0
      BY <1>3
    <2> HIDE DEF N
    <2>. QED  BY <2>1, <2>2
  <1>. QED  BY <1>6, <1>7, <1>8

\* Where a token is after n turns.
TokenTurns(f, s, p, n) ==
    f = [i \in 0..n |-> IF i = 0 THEN TokenStart(p)
                        ELSE TokenTurn(s, f[i - 1])]

LEMMA TokenTurnsLoop ==
    ASSUME NEW s, NEW p, Len(s) \in Nat
    PROVE  \E f : /\ f[0] = TokenStart(p)
                  /\ \A i \in 1..(Len(s) + 1) : f[i] = TokenTurn(s, f[i - 1])
                  /\ Token(s, p) = f[Len(s) + 1]
  <1> DEFINE N == (Len(s) + 1)
             T == {n \in 0..N : \E f : TokenTurns(f, s, p, n)}
             made == CHOOSE f : TokenTurns(f, s, p, N)
  <1>1. 0 \in T
    <2>1. TokenTurns([i \in 0..0 |-> TokenStart(p)], s, p, 0)
      BY DEF TokenTurns
    <2>. QED  BY <2>1
  <1>2. ASSUME NEW n \in 1..N, n - 1 \in T PROVE n \in T
    <2>1. PICK f : TokenTurns(f, s, p, n - 1)
      BY <1>2
    <2> DEFINE g == [i \in 0..n |-> IF i = n THEN TokenTurn(s, f[n - 1]) ELSE f[i]]
               h == [i \in 0..n |-> IF i = 0 THEN TokenStart(p)
                                    ELSE TokenTurn(s, g[i - 1])]
    <2>2. \A i \in 0..(n - 1) : f[i] = IF i = 0 THEN TokenStart(p)
                                       ELSE TokenTurn(s, f[i - 1])
      BY <2>1 DEF TokenTurns
    <2>3. \A i \in 0..n : g[i] = h[i]
      BY <2>2
    <2>4. g = [i \in 0..n |-> g[i]] /\ h = [i \in 0..n |-> h[i]]
      OBVIOUS
    <2>5. g = h
      <3> HIDE DEF g, h
      <3>. QED  BY <2>3, <2>4
    <2>6. TokenTurns(g, s, p, n)
      <3> HIDE DEF g
      <3>. QED  BY <2>5 DEF TokenTurns
    <2>. QED  BY <2>6
  <1>3. N \in Nat /\ N \in 0..N
    OBVIOUS
  <1>4. N \in T
    <2> HIDE DEF T, N
    <2>. QED  BY <1>1, <1>2, <1>3, UpTo
  <1>5. TokenTurns(made, s, p, N)
    BY <1>4
  <1>6. Token(s, p) = made[N]
    BY DEF Token, TokenTurns
  <1> HIDE DEF made
  <1>7. made[0] = TokenStart(p)
    BY <1>3, <1>5 DEF TokenTurns
  <1>8. \A i \in 1..N : made[i] = TokenTurn(s, made[i - 1])
    BY <1>3, <1>5 DEF TokenTurns
  <1>. QED  BY <1>6, <1>7, <1>8

\* Where sdssplitargs is after n turns.
ArgsTurns(f, s, n) ==
    f = [i \in 0..n |-> IF i = 0 THEN ArgsStart
                        ELSE ArgsTurn(s, f[i - 1])]

LEMMA ArgsTurnsLoop ==
    ASSUME NEW s, Len(s) \in Nat
    PROVE  \E f : /\ f[0] = ArgsStart
                  /\ \A i \in 1..(Len(s) + 1) : f[i] = ArgsTurn(s, f[i - 1])
                  /\ SplitArgs(s) = ArgsEnd(f[Len(s) + 1])
  <1> DEFINE N == (Len(s) + 1)
             T == {n \in 0..N : \E f : ArgsTurns(f, s, n)}
             made == CHOOSE f : ArgsTurns(f, s, N)
  <1>1. 0 \in T
    <2>1. ArgsTurns([i \in 0..0 |-> ArgsStart], s, 0)
      BY DEF ArgsTurns
    <2>. QED  BY <2>1
  <1>2. ASSUME NEW n \in 1..N, n - 1 \in T PROVE n \in T
    <2>1. PICK f : ArgsTurns(f, s, n - 1)
      BY <1>2
    <2> DEFINE g == [i \in 0..n |-> IF i = n THEN ArgsTurn(s, f[n - 1]) ELSE f[i]]
               h == [i \in 0..n |-> IF i = 0 THEN ArgsStart
                                    ELSE ArgsTurn(s, g[i - 1])]
    <2>2. \A i \in 0..(n - 1) : f[i] = IF i = 0 THEN ArgsStart
                                       ELSE ArgsTurn(s, f[i - 1])
      BY <2>1 DEF ArgsTurns
    <2>3. \A i \in 0..n : g[i] = h[i]
      BY <2>2
    <2>4. g = [i \in 0..n |-> g[i]] /\ h = [i \in 0..n |-> h[i]]
      OBVIOUS
    <2>5. g = h
      <3> HIDE DEF g, h
      <3>. QED  BY <2>3, <2>4
    <2>6. ArgsTurns(g, s, n)
      <3> HIDE DEF g
      <3>. QED  BY <2>5 DEF ArgsTurns
    <2>. QED  BY <2>6
  <1>3. N \in Nat /\ N \in 0..N
    OBVIOUS
  <1>4. N \in T
    <2> HIDE DEF T, N
    <2>. QED  BY <1>1, <1>2, <1>3, UpTo
  <1>5. ArgsTurns(made, s, N)
    BY <1>4
  <1>6. SplitArgs(s) = ArgsEnd(made[N])
    BY DEF SplitArgs, ArgsTurns
  <1> HIDE DEF made
  <1>7. made[0] = ArgsStart
    BY <1>3, <1>5 DEF ArgsTurns
  <1>8. \A i \in 1..N : made[i] = ArgsTurn(s, made[i - 1])
    BY <1>3, <1>5 DEF ArgsTurns
  <1>. QED  BY <1>6, <1>7, <1>8

\* Where sdssplitlen is after n bytes.
SplitTurns(f, s, sep, n) ==
    f = [i \in 0..n |-> IF i = 0 THEN SplitStart
                        ELSE SplitTurn(s, sep, f[i - 1], i)]

LEMMA SplitTurnsLoop ==
    ASSUME NEW s, NEW sep, Len(s) \in Nat
    PROVE  \E f : /\ f[0] = SplitStart
                  /\ \A i \in 1..Len(s) : f[i] = SplitTurn(s, sep, f[i - 1], i)
                  /\ SplitLen(s, sep) = IF s = <<>> THEN <<>>
                                       ELSE Append(f[Len(s)].tokens,
                                                   SubSeq(s, f[Len(s)].start, Len(s)))
  <1> DEFINE N == Len(s)
             T == {n \in 0..N : \E f : SplitTurns(f, s, sep, n)}
             made == CHOOSE f : SplitTurns(f, s, sep, N)
  <1>1. 0 \in T
    <2>1. SplitTurns([i \in 0..0 |-> SplitStart], s, sep, 0)
      BY DEF SplitTurns
    <2>. QED  BY <2>1
  <1>2. ASSUME NEW n \in 1..N, n - 1 \in T PROVE n \in T
    <2>1. PICK f : SplitTurns(f, s, sep, n - 1)
      BY <1>2
    <2> DEFINE g == [i \in 0..n |-> IF i = n THEN SplitTurn(s, sep, f[n - 1], n) ELSE f[i]]
               h == [i \in 0..n |-> IF i = 0 THEN SplitStart
                                    ELSE SplitTurn(s, sep, g[i - 1], i)]
    <2>2. \A i \in 0..(n - 1) : f[i] = IF i = 0 THEN SplitStart
                                       ELSE SplitTurn(s, sep, f[i - 1], i)
      BY <2>1 DEF SplitTurns
    <2>3. \A i \in 0..n : g[i] = h[i]
      BY <2>2
    <2>4. g = [i \in 0..n |-> g[i]] /\ h = [i \in 0..n |-> h[i]]
      OBVIOUS
    <2>5. g = h
      <3> HIDE DEF g, h
      <3>. QED  BY <2>3, <2>4
    <2>6. SplitTurns(g, s, sep, n)
      <3> HIDE DEF g
      <3>. QED  BY <2>5 DEF SplitTurns
    <2>. QED  BY <2>6
  <1>3. N \in Nat /\ N \in 0..N
    OBVIOUS
  <1>4. N \in T
    <2> HIDE DEF T, N
    <2>. QED  BY <1>1, <1>2, <1>3, UpTo
  <1>5. SplitTurns(made, s, sep, N)
    BY <1>4
  <1>6. SplitLen(s, sep) = IF s = <<>> THEN <<>>
                          ELSE Append(made[N].tokens, SubSeq(s, made[N].start, N))
    BY DEF SplitLen, SplitTurns
  <1> HIDE DEF made
  <1>7. made[0] = SplitStart
    BY <1>3, <1>5 DEF SplitTurns
  <1>8. \A i \in 1..N : made[i] = SplitTurn(s, sep, made[i - 1], i)
    BY <1>3, <1>5 DEF SplitTurns
  <1>. QED  BY <1>6, <1>7, <1>8

\* The option lines after n arguments.
OptionsMade(f, a, n) ==
    f = [i \in 0..n |-> IF i = 0 THEN <<>>
                        ELSE AddOption(f[i - 1], a[i])]

LEMMA OptionsMadeLoop ==
    ASSUME NEW a, Len(a) \in Nat
    PROVE  \E f : /\ f[0] = <<>>
                  /\ \A i \in 1..Len(a) : f[i] = AddOption(f[i - 1], a[i])
                  /\ Options(a) = f[Len(a)]
  <1> DEFINE N == Len(a)
             T == {n \in 0..N : \E f : OptionsMade(f, a, n)}
             made == CHOOSE f : OptionsMade(f, a, N)
  <1>1. 0 \in T
    <2>1. OptionsMade([i \in 0..0 |-> <<>>], a, 0)
      BY DEF OptionsMade
    <2>. QED  BY <2>1
  <1>2. ASSUME NEW n \in 1..N, n - 1 \in T PROVE n \in T
    <2>1. PICK f : OptionsMade(f, a, n - 1)
      BY <1>2
    <2> DEFINE g == [i \in 0..n |-> IF i = n THEN AddOption(f[n - 1], a[n]) ELSE f[i]]
               h == [i \in 0..n |-> IF i = 0 THEN <<>>
                                    ELSE AddOption(g[i - 1], a[i])]
    <2>2. \A i \in 0..(n - 1) : f[i] = IF i = 0 THEN <<>>
                                       ELSE AddOption(f[i - 1], a[i])
      BY <2>1 DEF OptionsMade
    <2>3. \A i \in 0..n : g[i] = h[i]
      BY <2>2
    <2>4. g = [i \in 0..n |-> g[i]] /\ h = [i \in 0..n |-> h[i]]
      OBVIOUS
    <2>5. g = h
      <3> HIDE DEF g, h
      <3>. QED  BY <2>3, <2>4
    <2>6. OptionsMade(g, a, n)
      <3> HIDE DEF g
      <3>. QED  BY <2>5 DEF OptionsMade
    <2>. QED  BY <2>6
  <1>3. N \in Nat /\ N \in 0..N
    OBVIOUS
  <1>4. N \in T
    <2> HIDE DEF T, N
    <2>. QED  BY <1>1, <1>2, <1>3, UpTo
  <1>5. OptionsMade(made, a, N)
    BY <1>4
  <1>6. Options(a) = made[N]
    BY DEF Options, OptionsMade
  <1> HIDE DEF made
  <1>7. made[0] = <<>>
    BY <1>3, <1>5 DEF OptionsMade
  <1>8. \A i \in 1..N : made[i] = AddOption(made[i - 1], a[i])
    BY <1>3, <1>5 DEF OptionsMade
  <1>. QED  BY <1>6, <1>7, <1>8

\* The directives after n arguments.
MeantMade(f, a, n) ==
    f = [i \in 0..n |-> IF i = 0 THEN <<>>
                        ELSE AddMeant(f[i - 1], a[i])]

LEMMA MeantMadeLoop ==
    ASSUME NEW a, Len(a) \in Nat
    PROVE  \E f : /\ f[0] = <<>>
                  /\ \A i \in 1..Len(a) : f[i] = AddMeant(f[i - 1], a[i])
                  /\ Meant(a) = f[Len(a)]
  <1> DEFINE N == Len(a)
             T == {n \in 0..N : \E f : MeantMade(f, a, n)}
             made == CHOOSE f : MeantMade(f, a, N)
  <1>1. 0 \in T
    <2>1. MeantMade([i \in 0..0 |-> <<>>], a, 0)
      BY DEF MeantMade
    <2>. QED  BY <2>1
  <1>2. ASSUME NEW n \in 1..N, n - 1 \in T PROVE n \in T
    <2>1. PICK f : MeantMade(f, a, n - 1)
      BY <1>2
    <2> DEFINE g == [i \in 0..n |-> IF i = n THEN AddMeant(f[n - 1], a[n]) ELSE f[i]]
               h == [i \in 0..n |-> IF i = 0 THEN <<>>
                                    ELSE AddMeant(g[i - 1], a[i])]
    <2>2. \A i \in 0..(n - 1) : f[i] = IF i = 0 THEN <<>>
                                       ELSE AddMeant(f[i - 1], a[i])
      BY <2>1 DEF MeantMade
    <2>3. \A i \in 0..n : g[i] = h[i]
      BY <2>2
    <2>4. g = [i \in 0..n |-> g[i]] /\ h = [i \in 0..n |-> h[i]]
      OBVIOUS
    <2>5. g = h
      <3> HIDE DEF g, h
      <3>. QED  BY <2>3, <2>4
    <2>6. MeantMade(g, a, n)
      <3> HIDE DEF g
      <3>. QED  BY <2>5 DEF MeantMade
    <2>. QED  BY <2>6
  <1>3. N \in Nat /\ N \in 0..N
    OBVIOUS
  <1>4. N \in T
    <2> HIDE DEF T, N
    <2>. QED  BY <1>1, <1>2, <1>3, UpTo
  <1>5. MeantMade(made, a, N)
    BY <1>4
  <1>6. Meant(a) = made[N]
    BY DEF Meant, MeantMade
  <1> HIDE DEF made
  <1>7. made[0] = <<>>
    BY <1>3, <1>5 DEF MeantMade
  <1>8. \A i \in 1..N : made[i] = AddMeant(made[i - 1], a[i])
    BY <1>3, <1>5 DEF MeantMade
  <1>. QED  BY <1>6, <1>7, <1>8

-----------------------------------------------------------------------------
(* A quoted argument is one token again (sds.c:621).                       *)

LEMMA NoNul == Nul \notin Bytes
  BY DEF Bytes, Marks, Nul

\* In double quotes at position q, with u read so far, and behind the quote
\* that closes.
Quoted(q, u) == [p |-> q, quote |-> "dq", current |-> u, state |-> "more"]
Closed(q, u) == [p |-> q, quote |-> "dq", current |-> u, state |-> "done"]

\* The turns inside double quotes, by the byte they find.
LEMMA PlainTurn ==
    ASSUME NEW s, NEW q \in Int, NEW u, At(s, q) \notin {Nul, "dq", "\\"}
    PROVE  TokenTurn(s, Quoted(q, u)) = Quoted(q + 1, Append(u, At(s, q)))
  BY DEF TokenTurn, Quoted, Nul

LEMMA LetterTurn ==
    ASSUME NEW s, NEW q \in Int, NEW u, At(s, q) = "\\", At(s, q + 1) \notin {Nul, "x"}
    PROVE  TokenTurn(s, Quoted(q, u)) = Quoted(q + 2, Append(u, Unescape(At(s, q + 1))))
  BY DEF TokenTurn, Quoted, Nul

LEMMA HexTurn ==
    ASSUME NEW s, NEW q \in Int, NEW u, At(s, q) = "\\", At(s, q + 1) = "x",
           At(s, q + 2) \in Hex, At(s, q + 3) \in Hex
    PROVE  TokenTurn(s, Quoted(q, u))
             = Quoted(q + 4, Append(u, Byte(At(s, q + 2), At(s, q + 3))))
  BY DEF TokenTurn, Quoted, Nul

LEMMA CloseTurn ==
    ASSUME NEW s, NEW q \in Int, NEW u, At(s, q) = "dq", At(s, q + 1) \in Space \cup {Nul}
    PROVE  TokenTurn(s, Quoted(q, u)) = Closed(q + 1, u)
  BY DEF TokenTurn, Quoted, Closed, Nul

\* The first turn of a token that begins with a double quote.
LEMMA OpenTurn ==
    ASSUME NEW s, NEW q \in Int, At(s, q) = "dq"
    PROVE  TokenTurn(s, TokenStart(q)) = Quoted(q + 1, <<>>)
  BY DEF TokenTurn, TokenStart, Quoted, Nul, Separator

\* A token that is done stays so.
LEMMA DoneTurn ==
    ASSUME NEW s, NEW t, t.state # "more"
    PROVE  TokenTurn(s, t) = t
  BY DEF TokenTurn

\* Unescape undoes the letters.
LEMMA Letters ==
    /\ DOMAIN Letter = {"nl", "cr", "tab", "bel", "bs"}
    /\ \A c \in DOMAIN Letter : /\ Letter[c] \notin {Nul, "x"}
                                /\ Unescape(Letter[c]) = c
    /\ \A c \in {"\\", "dq"} : c \notin {Nul, "x"} /\ Unescape(c) = c
  <1>1. DOMAIN Letter = {"nl", "cr", "tab", "bel", "bs"}
    BY DEF Letter
  <1>2. /\ Letter["nl"] = "n" /\ Letter["cr"] = "r" /\ Letter["tab"] = "t"
        /\ Letter["bel"] = "a" /\ Letter["bs"] = "b"
    BY DEF Letter
  <1>3. \A c \in DOMAIN Letter : Letter[c] \notin {Nul, "x", "\\", "dq"}
    BY <1>1, <1>2 DEF Nul
  <1>4. \A c, k \in DOMAIN Letter : Letter[k] = Letter[c] => k = c
    BY <1>1, <1>2
  <1>5. \A c \in DOMAIN Letter : Unescape(Letter[c]) = c
    BY <1>4 DEF Unescape
  <1>6. \A c \in {"\\", "dq"} : c \notin {Nul, "x"} /\ Unescape(c) = c
    BY <1>3 DEF Unescape, Nul
  <1>. QED  BY <1>1, <1>3, <1>5, <1>6

\* The text w stands in s from position p on.
Holds(s, p, w) ==
    /\ p + Len(w) - 1 <= Len(s)
    /\ \A k \in 1..Len(w) : s[p + k - 1] = w[k]

\* One turn reads what sdscatrepr wrote for one byte.
LEMMA EscapeTurn ==
    ASSUME NEW s, Len(s) \in Nat, NEW q \in Nat, NEW u, NEW c \in Bytes,
           Holds(s, q, Escape(c))
    PROVE  /\ Len(Escape(c)) \in Nat \ {0}
           /\ TokenTurn(s, Quoted(q, u)) = Quoted(q + Len(Escape(c)), Append(u, c))
  <1>1. CASE c \in {"\\", "dq"}
    <2>1. Escape(c) = <<"\\", c>>
      BY <1>1, Letters DEF Escape
    <2>2. At(s, q) = "\\" /\ At(s, q + 1) = c
      BY <2>1 DEF Holds, At
    <2>. QED  BY <1>1, <2>1, <2>2, LetterTurn, Letters
  <1>2. CASE c \in DOMAIN Letter
    <2>1. Escape(c) = <<"\\", Letter[c]>>
      BY <1>2, Letters DEF Escape
    <2>2. At(s, q) = "\\" /\ At(s, q + 1) = Letter[c]
      BY <2>1 DEF Holds, At
    <2>. QED  BY <1>2, <2>1, <2>2, LetterTurn, Letters
  <1>3. CASE c = "vt"
    <2>1. Escape(c) = <<"\\", "x", "0", "b">>
      BY <1>3, Letters DEF Escape
    <2>2. At(s, q) = "\\" /\ At(s, q + 1) = "x" /\ At(s, q + 2) = "0" /\ At(s, q + 3) = "b"
      BY <2>1 DEF Holds, At
    <2>3. "0" \in Hex /\ "b" \in Hex /\ Byte("0", "b") = "vt"
      BY DEF Hex, Digit, Byte
    <2>4. TokenTurn(s, Quoted(q, u))
            = Quoted(q + 4, Append(u, Byte(At(s, q + 2), At(s, q + 3))))
      BY <2>2, <2>3, HexTurn
    <2>5. Len(Escape(c)) = 4
      BY <2>1
    <2>6. Byte(At(s, q + 2), At(s, q + 3)) = c
      BY <1>3, <2>2, <2>3
    <2>7. TokenTurn(s, Quoted(q, u)) = Quoted(q + 4, Append(u, c))
      BY <2>4, <2>6
    <2>. QED  BY <2>5, <2>7
  <1>4. CASE c = "ctl"
    <2>1. Escape(c) = <<"\\", "x", "0", "1">>
      BY <1>4, Letters DEF Escape
    <2>2. At(s, q) = "\\" /\ At(s, q + 1) = "x" /\ At(s, q + 2) = "0" /\ At(s, q + 3) = "1"
      BY <2>1 DEF Holds, At
    <2>3. "0" \in Hex /\ "1" \in Hex /\ Byte("0", "1") = "ctl"
      BY DEF Hex, Digit, Byte
    <2>4. TokenTurn(s, Quoted(q, u))
            = Quoted(q + 4, Append(u, Byte(At(s, q + 2), At(s, q + 3))))
      BY <2>2, <2>3, HexTurn
    <2>5. Len(Escape(c)) = 4
      BY <2>1
    <2>6. Byte(At(s, q + 2), At(s, q + 3)) = c
      BY <1>4, <2>2, <2>3
    <2>7. TokenTurn(s, Quoted(q, u)) = Quoted(q + 4, Append(u, c))
      BY <2>4, <2>6
    <2>. QED  BY <2>5, <2>7
  <1>5. CASE c \notin {"\\", "dq", "vt", "ctl"} /\ c \notin DOMAIN Letter
    <2>1. Escape(c) = <<c>>
      BY <1>5 DEF Escape
    <2>2. At(s, q) = c
      BY <2>1 DEF Holds, At
    <2>3. c \notin {Nul, "dq", "\\"}
      BY <1>5, NoNul
    <2>. QED  BY <2>1, <2>2, <2>3, PlainTurn
  <1>. QED  BY <1>1, <1>2, <1>3, <1>4, <1>5

\* What sdscatrepr writes for a byte has no line end.
LEMMA EscapeFacts ==
    ASSUME NEW c \in Bytes
    PROVE  /\ Escape(c) \in Seq(Bytes) /\ Len(Escape(c)) \in Nat \ {0}
           /\ \A k \in 1..Len(Escape(c)) : Escape(c)[k] # "nl"
  <1>1. /\ "\\" \in Bytes /\ "x" \in Bytes /\ "0" \in Bytes /\ "1" \in Bytes /\ "b" \in Bytes
        /\ "n" \in Bytes /\ "r" \in Bytes /\ "t" \in Bytes /\ "a" \in Bytes
    BY DEF Bytes, Marks
  <1>2. CASE c \in {"\\", "dq"}
    <2>1. Escape(c) = <<"\\", c>>
      BY <1>2, Letters DEF Escape
    <2>. QED  BY <1>1, <1>2, <2>1
  <1>3. CASE c \in DOMAIN Letter
    <2>1. Escape(c) = <<"\\", Letter[c]>>
      BY <1>3, Letters DEF Escape
    <2>2. Letter[c] \in Bytes /\ Letter[c] # "nl"
      BY <1>1, <1>3, Letters DEF Letter
    <2>. QED  BY <1>1, <2>1, <2>2
  <1>4. CASE c = "vt"
    <2>1. Escape(c) = <<"\\", "x", "0", "b">>
      BY <1>4, Letters DEF Escape
    <2>. QED  BY <1>1, <2>1
  <1>5. CASE c = "ctl"
    <2>1. Escape(c) = <<"\\", "x", "0", "1">>
      BY <1>5, Letters DEF Escape
    <2>. QED  BY <1>1, <2>1
  <1>6. CASE c \notin {"\\", "dq", "vt", "ctl"} /\ c \notin DOMAIN Letter
    <2>1. Escape(c) = <<c>>
      BY <1>6 DEF Escape
    <2>2. c # "nl"
      BY <1>6, Letters
    <2>. QED  BY <2>1, <2>2
  <1>. QED  BY <1>2, <1>3, <1>4, <1>5, <1>6

\* CatRepr byte by byte: f[n] is what it begins with, and ends at byte n of v.
ReprAt(f, v) ==
    /\ f[0] = <<"dq">>
    /\ \A n \in 1..Len(v) : /\ Len(f[n]) = Len(f[n - 1]) + Len(Escape(v[n]))
                            /\ \A k \in 1..Len(Escape(v[n])) :
                                  CatRepr(v)[Len(f[n - 1]) + k] = Escape(v[n])[k]
    /\ \A n \in 0..Len(v) : /\ Len(f[n]) \in Nat /\ n + 1 <= Len(f[n])
                            /\ Len(f[n]) <= Len(f[Len(v)])
    /\ Len(CatRepr(v)) = Len(f[Len(v)]) + 1
    /\ CatRepr(v)[1] = "dq" /\ CatRepr(v)[Len(CatRepr(v))] = "dq"

LEMMA ReprFacts ==
    ASSUME NEW v \in Seq(Bytes)
    PROVE  /\ CatRepr(v) \in Seq(Bytes)
           /\ \A k \in 1..Len(CatRepr(v)) : CatRepr(v)[k] # "nl"
           /\ \E f : ReprAt(f, v)
  <1> DEFINE N == Len(v)
             esc(n) == Escape(v[n])
  <1>1. N \in Nat /\ \A n \in 1..N : v[n] \in Bytes
    BY LenProperties
  <1>2. PICK f : /\ f[0] = <<"dq">>
                 /\ \A n \in 1..N : f[n] = f[n - 1] \o esc(n)
                 /\ CatRepr(v) = Append(f[N], "dq")
    BY <1>1, ReprLoop
  <1>3. "dq" \in Bytes
    BY DEF Bytes, Marks
  <1>4. \A n \in 1..N : /\ esc(n) \in Seq(Bytes) /\ Len(esc(n)) \in Nat \ {0}
                        /\ \A k \in 1..Len(esc(n)) : esc(n)[k] # "nl"
    BY <1>1, EscapeFacts
  <1> HIDE DEF N, esc
  <1>5. ASSUME NEW n \in 1..N, f[n - 1] \in Seq(Bytes)
        PROVE  /\ f[n] \in Seq(Bytes)
               /\ Len(f[n - 1]) \in Nat /\ Len(f[n]) = Len(f[n - 1]) + Len(esc(n))
               /\ \A k \in 1..Len(f[n - 1]) : f[n][k] = f[n - 1][k]
               /\ \A k \in 1..Len(esc(n)) : f[n][Len(f[n - 1]) + k] = esc(n)[k]
    <2> DEFINE a == f[n - 1]
               b == esc(n)
    <2>1. b \in Seq(Bytes) /\ Len(b) \in Nat \ {0} /\ a \in Seq(Bytes) /\ Len(a) \in Nat
      BY <1>4, <1>5, LenProperties
    <2>2. f[n] = a \o b
      BY <1>2
    <2> HIDE DEF a, b
    <2>3. /\ a \o b \in Seq(Bytes) /\ Len(a \o b) = Len(a) + Len(b)
          /\ \A k \in 1..(Len(a) + Len(b)) : (a \o b)[k] = IF k <= Len(a) THEN a[k] ELSE b[k - Len(a)]
      BY <2>1, ConcatProperties
    <2>4. \A k \in 1..Len(a) : (a \o b)[k] = a[k]
      BY <2>1, <2>3
    <2>5. \A k \in 1..Len(b) : (a \o b)[Len(a) + k] = b[k]
      BY <2>1, <2>3
    <2>. QED  BY <2>1, <2>2, <2>3, <2>4, <2>5 DEF a, b
  <1> DEFINE Good(n) == /\ f[n] \in Seq(Bytes) /\ Len(f[n]) \in Nat /\ n + 1 <= Len(f[n])
                        /\ \A k \in 1..Len(f[n]) : f[n][k] # "nl"
                        /\ \A m \in 0..n : /\ Len(f[m]) \in Nat /\ Len(f[m]) <= Len(f[n])
                                           /\ \A k \in 1..Len(f[m]) : f[n][k] = f[m][k]
             T == {n \in 0..N : Good(n)}
  <1>6. Good(0)
    <2> DEFINE a == f[0]
    <2>1. /\ a \in Seq(Bytes) /\ Len(a) = 1 /\ a[1] = "dq"
      BY <1>2, <1>3
    <2> HIDE DEF a
    <2>2. \A k \in 1..Len(a) : a[k] # "nl"
      BY <2>1
    <2>3. \A m \in 0..0 : m = 0
      OBVIOUS
    <2>4. Len(a) \in Nat /\ 0 + 1 <= Len(a) /\ Len(a) <= Len(a)
      BY <2>1
    <2>5. \A m \in 0..0 : /\ Len(f[m]) \in Nat /\ Len(f[m]) <= Len(f[0])
                         /\ \A k \in 1..Len(f[m]) : f[0][k] = f[m][k]
      BY <2>3, <2>4 DEF a
    <2>. QED  BY <2>1, <2>2, <2>4, <2>5 DEF a
  <1>7. ASSUME NEW n \in 1..N, Good(n - 1) PROVE Good(n)
    <2> DEFINE a == f[n - 1]
               b == esc(n)
               c == f[n]
    <2>1. n \in Nat /\ n - 1 \in Nat /\ (n - 1) + 1 = n /\ n \in 0..n
      BY <1>1
    <2>2. /\ a \in Seq(Bytes) /\ Len(a) \in Nat /\ n <= Len(a)
          /\ \A k \in 1..Len(a) : a[k] # "nl"
          /\ \A m \in 0..(n - 1) : /\ Len(f[m]) \in Nat /\ Len(f[m]) <= Len(a)
                                   /\ \A k \in 1..Len(f[m]) : a[k] = f[m][k]
      BY <1>7, <2>1
    <2>3. Len(b) \in Nat \ {0} /\ \A k \in 1..Len(b) : b[k] # "nl"
      BY <1>4
    <2>4. /\ c \in Seq(Bytes) /\ Len(c) = Len(a) + Len(b)
          /\ \A k \in 1..Len(a) : c[k] = a[k]
          /\ \A k \in 1..Len(b) : c[Len(a) + k] = b[k]
      BY <1>5, <2>2
    <2> HIDE DEF a, b
    <2>5. \A k \in 1..Len(c) : c[k] # "nl"
      <3> SUFFICES ASSUME NEW k \in 1..Len(c) PROVE c[k] # "nl"
        OBVIOUS
      <3> HIDE DEF c
      <3>1. CASE k <= Len(a)
        BY <2>2, <2>3, <2>4, <3>1
      <3>2. CASE k > Len(a)
        <4>1. k - Len(a) \in 1..Len(b) /\ Len(a) + (k - Len(a)) = k
          BY <2>2, <2>3, <2>4, <3>2
        <4>. QED  BY <2>3, <2>4, <4>1
      <3>3. k \in Nat
        OBVIOUS
      <3>. QED  BY <2>2, <3>1, <3>2, <3>3
    <2>6. ASSUME NEW m \in 0..n
          PROVE  /\ Len(f[m]) \in Nat /\ Len(f[m]) <= Len(c)
                 /\ \A k \in 1..Len(f[m]) : c[k] = f[m][k]
      <3>1. CASE m = n
        BY <2>2, <2>3, <2>4, <3>1
      <3>2. CASE m # n
        <4>1. m \in 0..(n - 1)
          BY <2>1, <3>2
        <4>2. /\ Len(f[m]) \in Nat /\ Len(f[m]) <= Len(a)
              /\ \A k \in 1..Len(f[m]) : a[k] = f[m][k]
          BY <2>2, <4>1
        <4> HIDE DEF c
        <4>. QED  BY <2>2, <2>3, <2>4, <4>2
      <3>. QED  BY <3>1, <3>2
    <2>7. Len(c) \in Nat /\ n + 1 <= Len(c)
      BY <2>1, <2>2, <2>3, <2>4
    <2>. QED  BY <2>4, <2>5, <2>6, <2>7
  <1> HIDE DEF Good
  <1>8. \A n \in 0..N : n \in T
    <2>1. 0 \in T
      BY <1>1, <1>6
    <2>2. \A n \in 1..N : n - 1 \in T => n \in T
      BY <1>1, <1>7
    <2> HIDE DEF T
    <2>. QED  BY <1>1, <2>1, <2>2, UpTo
  <1>9. \A n \in 0..N : Good(n)
    BY <1>8
  <1>10. Good(N) /\ N \in 0..N
    BY <1>1, <1>9
  <1> DEFINE g == f[N]
             w == CatRepr(v)
  <1>11. g \in Seq(Bytes) /\ Len(g) \in Nat /\ Len(g) >= 1 /\ \A k \in 1..Len(g) : g[k] # "nl"
    BY <1>1, <1>10 DEF Good
  <1>12. /\ w \in Seq(Bytes) /\ Len(w) = Len(g) + 1 /\ w[Len(g) + 1] = "dq"
         /\ \A k \in 1..Len(g) : w[k] = g[k]
    <2>1. w = Append(g, "dq")
      BY <1>2
    <2> HIDE DEF g, w
    <2>. QED  BY <1>3, <1>11, <2>1, AppendProperties
  <1>13. ASSUME NEW n \in 0..N
         PROVE  /\ Len(f[n]) \in Nat /\ n + 1 <= Len(f[n]) /\ Len(f[n]) <= Len(g)
                /\ f[n] \in Seq(Bytes)
                /\ \A k \in 1..Len(f[n]) : w[k] = f[n][k]
    <2>1. /\ Len(f[n]) \in Nat /\ n + 1 <= Len(f[n]) /\ f[n] \in Seq(Bytes)
      BY <1>9 DEF Good
    <2>2. Len(f[n]) <= Len(g) /\ \A k \in 1..Len(f[n]) : g[k] = f[n][k]
      BY <1>10 DEF Good
    <2> HIDE DEF g, w
    <2>. QED  BY <1>11, <1>12, <2>1, <2>2
  <1>14. ASSUME NEW n \in 1..N
         PROVE  /\ Len(f[n]) = Len(f[n - 1]) + Len(esc(n))
                /\ \A k \in 1..Len(esc(n)) : w[Len(f[n - 1]) + k] = esc(n)[k]
    <2>1. n - 1 \in 0..N /\ n \in 0..N
      BY <1>1
    <2>2. /\ Len(f[n - 1]) \in Nat /\ Len(f[n]) = Len(f[n - 1]) + Len(esc(n))
          /\ \A k \in 1..Len(esc(n)) : f[n][Len(f[n - 1]) + k] = esc(n)[k]
      BY <1>5, <1>13, <2>1
    <2>3. \A k \in 1..Len(f[n]) : w[k] = f[n][k]
      BY <1>13, <2>1
    <2>4. Len(esc(n)) \in Nat
      BY <1>4
    <2> DEFINE x == Len(f[n - 1])
               y == f[n]
    <2> HIDE DEF w, x, y
    <2>5. \A k \in 1..Len(esc(n)) : x + k \in 1..Len(y)
      BY <2>2, <2>4 DEF x, y
    <2>. QED  BY <2>2, <2>3, <2>5 DEF x, y
  <1>15. w[1] = "dq"
    <2>1. f[0][1] = "dq" /\ Len(f[0]) = 1 /\ 0 \in 0..N
      BY <1>1, <1>2
    <2>. QED  BY <1>13, <2>1
  <1>16. w[Len(w)] = "dq" /\ Len(w) = Len(g) + 1
    BY <1>12
  <1>17. \A k \in 1..Len(w) : w[k] # "nl"
    <2> HIDE DEF g, w
    <2>. QED  BY <1>11, <1>12
  <1> HIDE DEF g, w
  <1>18. ReprAt(f, v)
    BY <1>2, <1>13, <1>14, <1>15, <1>16 DEF ReprAt, g, w, N, esc
  <1>. QED  BY <1>12, <1>17, <1>18 DEF w

\* sdssplitargs reads as one token what sdscatrepr wrote, and what follows is
\* a blank or the end.
LEMMA TokenQuoted ==
    ASSUME NEW s, Len(s) \in Nat, NEW p \in Nat \ {0}, NEW v \in Seq(Bytes),
           Holds(s, p, CatRepr(v)), At(s, p + Len(CatRepr(v))) \in Space \cup {Nul}
    PROVE  /\ Token(s, p) = Closed(p + Len(CatRepr(v)), v)
           /\ Len(CatRepr(v)) \in Nat \ {0}
  <1> DEFINE N == Len(v)
             w == CatRepr(v)
             L == Len(s) + 1
  <1>1. N \in Nat /\ \A n \in 1..N : v[n] \in Bytes
    BY LenProperties
  <1>2. PICK f : ReprAt(f, v)
    BY ReprFacts
  <1>3. PICK g : /\ g[0] = TokenStart(p)
                 /\ \A i \in 1..L : g[i] = TokenTurn(s, g[i - 1])
                 /\ Token(s, p) = g[L]
    BY TokenTurnsLoop
  <1> DEFINE l(n) == Len(f[n])
             e(n) == Len(Escape(v[n]))
  <1>4. /\ Len(w) = l(N) + 1 /\ w[1] = "dq" /\ w[Len(w)] = "dq"
        /\ l(0) = 1
        /\ \A n \in 0..N : l(n) \in Nat /\ n + 1 <= l(n) /\ l(n) <= l(N)
        /\ \A n \in 1..N : l(n) = l(n - 1) + e(n) /\ \A k \in 1..e(n) : w[l(n - 1) + k] = Escape(v[n])[k]
    <2>1. l(0) = 1
      BY <1>2 DEF ReprAt
    <2>. QED  BY <1>2, <2>1 DEF ReprAt
  <1>5. \A n \in 1..N : e(n) \in Nat \ {0}
    BY <1>1, EscapeFacts
  <1>6. /\ p + Len(w) - 1 <= Len(s) /\ \A k \in 1..Len(w) : s[p + k - 1] = w[k]
        /\ At(s, p + Len(w)) \in Space \cup {Nul}
    BY DEF Holds
  <1> HIDE DEF N, w, l, e
  <1>7. Len(w) \in Nat \ {0} /\ N + 2 <= Len(w) /\ N + 2 \in 1..L /\ L \in Nat
    BY <1>1, <1>4, <1>6, SMTT(30)
  <1>8. g[1] = Quoted(p + l(0), <<>>)
    <2>1. s[p] = "dq"
      <3>1. 1 \in 1..Len(w) /\ p + 1 - 1 = p
        BY <1>7
      <3>. QED  BY <1>4, <1>6, <3>1
    <2>2. At(s, p) = "dq"
      BY <1>6, <1>7, <2>1 DEF At
    <2>3. 1 \in 1..L /\ 1 - 1 = 0
      BY <1>7
    <2>. QED  BY <1>3, <1>4, <2>2, <2>3, OpenTurn
  <1> DEFINE T == {n \in 0..N : g[n + 1] = Quoted(p + l(n), SubSeq(v, 1, n))}
  <1>9. 0 \in T
    <2>1. SubSeq(v, 1, 0) = <<>>
      BY SubSeqGrows
    <2>2. 0 + 1 = 1 /\ 0 \in 0..N
      BY <1>1
    <2>. QED  BY <1>8, <2>1, <2>2
  <1>10. ASSUME NEW n \in 1..N, n - 1 \in T PROVE n \in T
    <2> DEFINE q == p + l(n - 1)
               u == SubSeq(v, 1, n - 1)
    <2>1. g[n] = Quoted(q, u)
      <3>1. (n - 1) + 1 = n
        BY <1>1
      <3>. QED  BY <1>10, <3>1
    <2>2. /\ n - 1 \in 0..N /\ l(n - 1) \in Nat /\ l(n) = l(n - 1) + e(n) /\ l(n) <= l(N)
          /\ l(N) \in Nat /\ e(n) \in Nat \ {0} /\ v[n] \in Bytes
      BY <1>1, <1>4, <1>5, SMTT(30)
    <2>3. Append(u, v[n]) = SubSeq(v, 1, n)
      BY SubSeqGrows DEF N
    <2>4. q \in Nat
      BY <2>2
    <2> HIDE DEF u
    <2>5. Holds(s, q, Escape(v[n]))
      <3>1. q + e(n) - 1 <= Len(s)
        BY <1>4, <1>6, <2>2, SMTT(30)
      <3>2. ASSUME NEW k \in 1..e(n) PROVE s[q + k - 1] = Escape(v[n])[k]
        <4>1. l(n - 1) + k \in 1..Len(w) /\ p + (l(n - 1) + k) - 1 = q + k - 1
          BY <1>4, <2>2, SMTT(30)
        <4>2. s[p + (l(n - 1) + k) - 1] = w[l(n - 1) + k]
          BY <1>6, <4>1
        <4>3. w[l(n - 1) + k] = Escape(v[n])[k]
          BY <1>4
        <4> HIDE DEF q
        <4>. QED  BY <4>1, <4>2, <4>3
      <3>. QED  BY <3>1, <3>2 DEF Holds, e
    <2>6. TokenTurn(s, Quoted(q, u)) = Quoted(q + e(n), Append(u, v[n]))
      <3> HIDE DEF q
      <3>. QED  BY <2>2, <2>4, <2>5, EscapeTurn DEF e
    <2>7. n + 1 \in 1..L /\ (n + 1) - 1 = n
      BY <1>1, <1>7
    <2>8. g[n + 1] = TokenTurn(s, g[n])
      BY <1>3, <2>7
    <2>9. q + e(n) = p + l(n)
      BY <2>2
    <2> HIDE DEF q
    <2>. QED  BY <2>1, <2>3, <2>6, <2>8, <2>9
  <1>11. N \in T
    <2>1. N \in 0..N
      BY <1>1
    <2> HIDE DEF T
    <2>. QED  BY <1>1, <1>9, <1>10, <2>1, UpTo
  <1>12. g[N + 2] = Closed(p + Len(w), v)
    <2> DEFINE q == p + l(N)
    <2>1. g[N + 1] = Quoted(q, v)
      BY <1>11, SubSeqGrows DEF N
    <2>2. /\ N \in 0..N /\ l(N) \in Nat /\ Len(w) = l(N) + 1 /\ Len(w) \in 1..Len(w)
          /\ p + Len(w) - 1 = q /\ q + 1 = p + Len(w) /\ q <= Len(s) /\ q \in Nat
      <3>1. N \in 0..N /\ Len(w) \in Nat \ {0}
        BY <1>1, <1>7
      <3>2. l(N) \in Nat /\ Len(w) = l(N) + 1
        BY <1>4, <3>1
      <3>3. p + Len(w) - 1 <= Len(s)
        BY <1>6
      <3>. QED  BY <3>1, <3>2, <3>3
    <2>3. At(s, q) = "dq"
      <3>1. s[p + Len(w) - 1] = "dq"
        BY <1>4, <1>6, <2>2
      <3> HIDE DEF q
      <3>. QED  BY <2>2, <3>1 DEF At
    <2>4. N + 2 \in 1..L /\ (N + 2) - 1 = N + 1
      BY <1>1, <1>7
    <2>5. g[N + 2] = TokenTurn(s, g[N + 1])
      BY <1>3, <2>4
    <2>6. At(s, q + 1) \in Space \cup {Nul}
      BY <1>6, <2>2
    <2> HIDE DEF q
    <2>7. TokenTurn(s, Quoted(q, v)) = Closed(q + 1, v)
      BY <2>2, <2>3, <2>6, CloseTurn
    <2>. QED  BY <2>1, <2>2, <2>5, <2>7
  <1> DEFINE D == {d \in 0..(L - (N + 2)) : g[N + 2 + d] = Closed(p + Len(w), v)}
  <1>13. L - (N + 2) \in D
    <2>1. L - (N + 2) \in Nat /\ N + 2 + 0 = N + 2
      BY <1>1, <1>7
    <2>2. 0 \in D
      BY <1>12, <2>1
    <2>3. ASSUME NEW d \in 1..(L - (N + 2)), d - 1 \in D PROVE d \in D
      <3>1. N + 2 + d \in 1..L /\ (N + 2 + d) - 1 = N + 2 + (d - 1) /\ d \in 0..(L - (N + 2))
        BY <1>1, <1>7, <2>1
      <3>2. g[N + 2 + d] = TokenTurn(s, g[N + 2 + (d - 1)])
        BY <1>3, <3>1
      <3>3. g[N + 2 + (d - 1)] = Closed(p + Len(w), v)
        BY <2>3
      <3>4. Closed(p + Len(w), v).state # "more"
        BY DEF Closed
      <3>5. TokenTurn(s, Closed(p + Len(w), v)) = Closed(p + Len(w), v)
        BY <3>4, DoneTurn
      <3>. QED  BY <3>1, <3>2, <3>3, <3>5
    <2>4. L - (N + 2) \in 0..(L - (N + 2))
      BY <2>1
    <2> HIDE DEF D
    <2>. QED  BY <2>1, <2>2, <2>3, <2>4, UpTo
  <1>14. g[L] = Closed(p + Len(w), v)
    <2>1. N + 2 + (L - (N + 2)) = L
      BY <1>1, <1>7
    <2>. QED  BY <1>13, <2>1
  <1>. QED  BY <1>3, <1>7, <1>14 DEF w

-----------------------------------------------------------------------------
(* What sdssplitargs makes of a line, one argument after the other.        *)

\* It is at position p and has the arguments h.
Args(p, h) == [p |-> p, argv |-> h, state |-> "more"]

ArgsLoop(f, s) == \A i \in 1..(Len(s) + 1) : f[i] = ArgsTurn(s, f[i - 1])

\* After n turns it is at p with h, where w stands and a blank or the end
\* follows.
Begins(w, s, p, h, f, n) ==
    /\ Len(s) \in Nat /\ p \in Nat \ {0} /\ n \in 0..(p - 1)
    /\ h \in Seq(Seq(Bytes))
    /\ ArgsLoop(f, s) /\ f[n] = Args(p, h)
    /\ Holds(s, p, w) /\ At(s, p + Len(w)) \in {"sp", Nul}

\* Some turns later it has g, too, and is behind w or behind that blank.
Ends(w, g, s, p, h, f) ==
    \E q \in {p + Len(w), p + Len(w) + 1} :
        /\ q = p + Len(w) + 1 => At(s, p + Len(w)) = "sp"
        /\ \E m \in 0..(q - 1) : f[m] = Args(q, h \o g)

\* The text w reads the arguments g.
Reads(w, g) == \A s, p, h, f, n : Begins(w, s, p, h, f, n) => Ends(w, g, s, p, h, f)

LEMMA HoldsFirst ==
    ASSUME NEW s, Len(s) \in Nat, NEW p \in Nat \ {0}, NEW w, Len(w) \in Nat \ {0}, Holds(s, p, w)
    PROVE  At(s, p) = w[1] /\ p <= Len(s) /\ p + Len(w) - 1 <= Len(s)
  <1>1. 1 \in 1..Len(w) /\ p + 1 - 1 = p
    OBVIOUS
  <1>2. s[p] = w[1] /\ p <= Len(s) /\ p + Len(w) - 1 <= Len(s)
    BY <1>1 DEF Holds
  <1>. QED  BY <1>2 DEF At

\* The turn of the outer loop that reads a token.
LEMMA TokenArgs ==
    ASSUME NEW s, NEW p, NEW h, At(s, p) \notin Space \cup {Nul}, Token(s, p).state = "done"
    PROVE  ArgsTurn(s, Args(p, h)) = Args(Token(s, p).p, Append(h, Token(s, p).current))
  BY DEF ArgsTurn, Args

LEMMA BlankArgs ==
    ASSUME NEW s, NEW p, NEW h, At(s, p) = "sp"
    PROVE  ArgsTurn(s, Args(p, h)) = Args(p + 1, h)
  BY DEF ArgsTurn, Args, Space, Nul

LEMMA TokenReads ==
    ASSUME NEW w, Len(w) \in Nat \ {0}, NEW v \in Seq(Bytes),
           w[1] \notin Space \cup {Nul},
           \A s, p : /\ Len(s) \in Nat /\ p \in Nat \ {0} /\ Holds(s, p, w)
                     /\ At(s, p + Len(w)) \in {"sp", Nul}
                     => /\ Token(s, p).state = "done" /\ Token(s, p).current = v
                        /\ Token(s, p).p \in {p + Len(w), p + Len(w) + 1}
                        /\ Token(s, p).p = p + Len(w) + 1 => At(s, p + Len(w)) = "sp"
    PROVE  Reads(w, <<v>>)
  <1> SUFFICES ASSUME NEW s, NEW p, NEW h, NEW f, NEW n, Begins(w, s, p, h, f, n)
               PROVE  Ends(w, <<v>>, s, p, h, f)
    BY DEF Reads
  <1>0. /\ Len(s) \in Nat /\ p \in Nat \ {0} /\ n \in 0..(p - 1)
        /\ h \in Seq(Seq(Bytes)) /\ ArgsLoop(f, s) /\ f[n] = Args(p, h)
        /\ Holds(s, p, w) /\ At(s, p + Len(w)) \in {"sp", Nul}
    BY DEF Begins
  <1> DEFINE q == Token(s, p).p
  <1>1. /\ Token(s, p).state = "done" /\ Token(s, p).current = v
        /\ q \in {p + Len(w), p + Len(w) + 1} /\ (q = p + Len(w) + 1 => At(s, p + Len(w)) = "sp")
    BY <1>0
  <1>2. At(s, p) = w[1] /\ p <= Len(s)
    BY <1>0, HoldsFirst
  <1>3. ArgsTurn(s, Args(p, h)) = Args(q, Append(h, v))
    BY <1>1, <1>2, TokenArgs
  <1> HIDE DEF q
  <1>4. Append(h, v) = h \o <<v>>
    BY <1>0, AppendIsConcat
  <1>5. n + 1 \in 1..(Len(s) + 1) /\ (n + 1) - 1 = n /\ n + 1 \in 0..(q - 1)
    BY <1>0, <1>1, <1>2
  <1>6. f[n + 1] = ArgsTurn(s, f[n])
    BY <1>0, <1>5 DEF ArgsLoop
  <1>7. f[n + 1] = Args(q, h \o <<v>>)
    BY <1>0, <1>3, <1>4, <1>6
  <1>. QED  BY <1>1, <1>5, <1>7 DEF Ends

LEMMA ReadsQuoted ==
    ASSUME NEW v \in Seq(Bytes)
    PROVE  Reads(CatRepr(v), <<v>>)
  <1> DEFINE w == CatRepr(v)
  <1>1. Len(w) \in Nat \ {0} /\ w[1] = "dq"
    <2>1. PICK f : ReprAt(f, v)
      BY ReprFacts
    <2>2. Len(v) \in 0..Len(v)
      BY LenProperties
    <2>3. Len(f[Len(v)]) \in Nat /\ Len(w) = Len(f[Len(v)]) + 1 /\ w[1] = "dq"
      BY <2>1, <2>2 DEF ReprAt
    <2> HIDE DEF w
    <2>. QED  BY <2>3
  <1>2. w[1] \notin Space \cup {Nul}
    BY <1>1 DEF Space, Nul
  <1>3. ASSUME NEW s, NEW p, Len(s) \in Nat, p \in Nat \ {0}, Holds(s, p, w),
               At(s, p + Len(w)) \in {"sp", Nul}
        PROVE  /\ Token(s, p).state = "done" /\ Token(s, p).current = v
               /\ Token(s, p).p = p + Len(w)
    <2>1. At(s, p + Len(w)) \in Space \cup {Nul}
      BY <1>3 DEF Space
    <2>2. Token(s, p) = Closed(p + Len(w), v)
      BY <1>3, <2>1, TokenQuoted
    <2>. QED  BY <2>2 DEF Closed
  <1> HIDE DEF w
  <1>4. \A p \in Nat : p + Len(w) # p + Len(w) + 1
    BY <1>1
  <1>5. Reads(w, <<v>>)
    <2>1. \A s, p : /\ Len(s) \in Nat /\ p \in Nat \ {0} /\ Holds(s, p, w)
                    /\ At(s, p + Len(w)) \in {"sp", Nul}
                    => /\ Token(s, p).state = "done" /\ Token(s, p).current = v
                       /\ Token(s, p).p \in {p + Len(w), p + Len(w) + 1}
                       /\ Token(s, p).p = p + Len(w) + 1 => At(s, p + Len(w)) = "sp"
      BY <1>3, <1>4
    <2>. QED  BY <1>1, <1>2, <2>1, TokenReads
  <1>. QED  BY <1>5 DEF w

LEMMA ArgvAssociative ==
    \A a, b, c \in Seq(Seq(Bytes)) : (a \o b) \o c = a \o (b \o c)
  BY SeqAssociative, SMTT(30)

LEMMA TextAssociative ==
    \A a, b, c \in Seq(Bytes) : (a \o b) \o c = a \o (b \o c)
  BY SeqAssociative

\* Two texts with a blank between them read the arguments of both.
LEMMA ReadsMore ==
    ASSUME NEW a \in Seq(Bytes), a # <<>>, NEW b \in Seq(Bytes), b # <<>>,
           NEW g \in Seq(Seq(Bytes)), NEW k \in Seq(Seq(Bytes)),
           Reads(a, g), Reads(b, k)
    PROVE  Reads((a \o <<"sp">>) \o b, g \o k)
  <1> DEFINE ab == (a \o <<"sp">>) \o b
  <1> SUFFICES ASSUME NEW s, NEW p, NEW h, NEW f, NEW n, Begins(ab, s, p, h, f, n)
               PROVE  Ends(ab, g \o k, s, p, h, f)
    BY DEF Reads
  <1>1. /\ Len(s) \in Nat /\ p \in Nat \ {0} /\ n \in 0..(p - 1)
        /\ h \in Seq(Seq(Bytes)) /\ ArgsLoop(f, s) /\ f[n] = Args(p, h)
        /\ Holds(s, p, ab) /\ At(s, p + Len(ab)) \in {"sp", Nul}
    BY DEF Begins
  <1>2. Len(a) \in Nat \ {0} /\ Len(b) \in Nat \ {0}
    <2>1. Len(a) \in Nat /\ Len(b) \in Nat /\ Len(a) # 0 /\ Len(b) # 0
      BY LenProperties, EmptySeq
    <2>. QED  BY <2>1
  <1>3. /\ Len(ab) = Len(a) + Len(b) + 1
        /\ \A i \in 1..Len(a) : ab[i] = a[i]
        /\ ab[Len(a) + 1] = "sp"
        /\ \A i \in 1..Len(b) : ab[Len(a) + 1 + i] = b[i]
    <2>1. "sp" \in Bytes
      BY DEF Bytes, Marks
    <2>. QED  BY <2>1, ConcatThree
  <1> HIDE DEF ab
  <1>4. /\ p + Len(ab) - 1 <= Len(s) /\ \A i \in 1..Len(ab) : s[p + i - 1] = ab[i]
    BY <1>1 DEF Holds
  <1> DEFINE c == p + Len(a)
  <1>5. /\ c \in Nat \ {0} /\ c <= Len(s) /\ c + 1 + Len(b) = p + Len(ab)
        /\ c + 1 \in Nat \ {0} /\ c > p
    BY <1>1, <1>2, <1>3, <1>4
  <1>6. Holds(s, p, a)
    <2>1. \A i \in 1..Len(a) : s[p + i - 1] = a[i]
      BY <1>2, <1>3, <1>4
    <2>2. p + Len(a) - 1 <= Len(s)
      BY <1>1, <1>2, <1>5
    <2>. QED  BY <2>1, <2>2 DEF Holds
  <1>7. At(s, c) = "sp"
    <2>1. Len(a) + 1 \in 1..Len(ab) /\ p + (Len(a) + 1) - 1 = c
      BY <1>1, <1>2, <1>3
    <2>2. s[p + (Len(a) + 1) - 1] = ab[Len(a) + 1]
      BY <1>4, <2>1
    <2> HIDE DEF c
    <2>3. s[c] = "sp"
      BY <1>3, <2>1, <2>2
    <2>. QED  BY <1>5, <2>3 DEF At
  <1>8. Holds(s, c + 1, b)
    <2>1. ASSUME NEW i \in 1..Len(b) PROVE s[(c + 1) + i - 1] = b[i]
      <3>1. Len(a) + 1 + i \in 1..Len(ab) /\ p + (Len(a) + 1 + i) - 1 = (c + 1) + i - 1
        BY <1>1, <1>2, <1>3
      <3>2. s[p + (Len(a) + 1 + i) - 1] = ab[Len(a) + 1 + i]
        BY <1>4, <3>1
      <3> HIDE DEF c
      <3>. QED  BY <1>3, <3>1, <3>2
    <2>2. (c + 1) + Len(b) - 1 <= Len(s)
      BY <1>1, <1>2, <1>3, <1>4
    <2>. QED  BY <2>1, <2>2 DEF Holds
  <1>9. PICK q \in {c, c + 1} : \E m \in 0..(q - 1) : f[m] = Args(q, h \o g)
    <2>1. Begins(a, s, p, h, f, n)
      BY <1>1, <1>6, <1>7 DEF Begins
    <2>2. Ends(a, g, s, p, h, f)
      BY <2>1 DEF Reads
    <2>. QED  BY <2>2 DEF Ends
  <1>10. \E m \in 0..c : f[m] = Args(c + 1, h \o g)
    <2>1. PICK m \in 0..(q - 1) : f[m] = Args(q, h \o g)
      BY <1>9
    <2>2. CASE q = c + 1
      BY <1>5, <2>1, <2>2
    <2>3. CASE q = c
      <3>1. m + 1 \in 1..(Len(s) + 1) /\ (m + 1) - 1 = m /\ m + 1 \in 0..c
        BY <1>1, <1>5, <2>1, <2>3
      <3>2. f[m + 1] = ArgsTurn(s, f[m])
        BY <1>1, <3>1 DEF ArgsLoop
      <3>3. ArgsTurn(s, Args(c, h \o g)) = Args(c + 1, h \o g)
        BY <1>7, BlankArgs
      <3>. QED  BY <2>1, <2>3, <3>1, <3>2, <3>3
    <2>. QED  BY <1>9, <2>2, <2>3
  <1>11. PICK m \in 0..((c + 1) - 1) : f[m] = Args(c + 1, h \o g)
    BY <1>5, <1>10
  <1>12. h \o g \in Seq(Seq(Bytes))
    BY <1>1, ConcatProperties
  <1>13. Begins(b, s, c + 1, h \o g, f, m)
    BY <1>1, <1>5, <1>8, <1>11, <1>12 DEF Begins
  <1>14. Ends(b, k, s, c + 1, h \o g, f)
    BY <1>13 DEF Reads
  <1>15. (h \o g) \o k = h \o (g \o k)
    BY <1>1, ArgvAssociative, Zenon
  <1>16. (c + 1) + Len(b) = p + Len(ab)
    BY <1>5
  <1> HIDE DEF c
  <1>. QED  BY <1>14, <1>15, <1>16 DEF Ends

\* A line that is such a text has these arguments.
LEMMA ReadsAll ==
    ASSUME NEW w \in Seq(Bytes), w # <<>>, NEW g \in Seq(Seq(Bytes)), Reads(w, g)
    PROVE  SplitArgs(w) = [ok |-> TRUE, argv |-> g]
  <1> DEFINE L == Len(w)
  <1>1. L \in Nat \ {0}
    <2>1. L \in Nat /\ L # 0
      BY LenProperties, EmptySeq
    <2>. QED  BY <2>1
  <1>2. PICK f : f[0] = ArgsStart /\ ArgsLoop(f, w) /\ SplitArgs(w) = ArgsEnd(f[L + 1])
    BY <1>1, ArgsTurnsLoop DEF ArgsLoop
  <1>3. At(w, 1 + L) = Nul
    BY <1>1 DEF At
  <1>4. Begins(w, w, 1, <<>>, f, 0)
    <2>1. Holds(w, 1, w)
      BY <1>1 DEF Holds
    <2>2. f[0] = Args(1, <<>>)
      BY <1>2 DEF ArgsStart, Args
    <2>3. <<>> \in Seq(Seq(Bytes))
      BY EmptySeq
    <2>. QED  BY <1>1, <1>2, <1>3, <2>1, <2>2, <2>3 DEF Begins
  <1>5. Ends(w, g, w, 1, <<>>, f)
    BY <1>4 DEF Reads
  <1>6. PICK m \in 0..L : f[m] = Args(1 + L, g)
    <2>1. "sp" # Nul
      BY DEF Nul
    <2>2. <<>> \o g = g
      BY ConcatEmptySeq
    <2>3. PICK q \in {1 + L, 1 + L + 1} :
            /\ q = 1 + L + 1 => At(w, 1 + L) = "sp"
            /\ \E m \in 0..(q - 1) : f[m] = Args(q, <<>> \o g)
      BY <1>5 DEF Ends
    <2>4. q = 1 + L /\ q - 1 = L
      BY <1>1, <1>3, <2>1, <2>3
    <2>. QED  BY <2>2, <2>3, <2>4
  <1> DEFINE d == [p |-> 1 + L, argv |-> g, state |-> "done"]
  <1> HIDE DEF L
  <1>7. f[m + 1] = d
    <2>1. m + 1 \in 1..(L + 1) /\ (m + 1) - 1 = m
      BY <1>1
    <2>2. f[m + 1] = ArgsTurn(w, f[m])
      BY <1>2, <2>1 DEF ArgsLoop, L
    <2>3. ArgsTurn(w, Args(1 + L, g)) = d
      BY <1>3 DEF ArgsTurn, Args, Space, Nul
    <2>. QED  BY <1>6, <2>2, <2>3
  <1> DEFINE D == {i \in 0..(L - m) : f[m + 1 + i] = d}
  <1>8. L - m \in D
    <2>1. L - m \in Nat /\ m + 1 + 0 = m + 1 /\ L - m \in 0..(L - m)
      BY <1>1
    <2>2. 0 \in D
      BY <1>7, <2>1
    <2>3. ASSUME NEW i \in 1..(L - m), i - 1 \in D PROVE i \in D
      <3>1. m + 1 + i \in 1..(L + 1) /\ (m + 1 + i) - 1 = m + 1 + (i - 1) /\ i \in 0..(L - m)
        BY <1>1, <2>1
      <3>2. f[m + 1 + i] = ArgsTurn(w, f[m + 1 + (i - 1)])
        BY <1>2, <3>1 DEF ArgsLoop, L
      <3>3. ArgsTurn(w, d) = d
        BY DEF ArgsTurn
      <3>. QED  BY <2>3, <3>1, <3>2, <3>3
    <2> HIDE DEF D
    <2>. QED  BY <2>1, <2>2, <2>3, UpTo
  <1>9. f[L + 1] = d
    <2>1. m + 1 + (L - m) = L + 1
      BY <1>1
    <2>. QED  BY <1>8, <2>1
  <1>10. ArgsEnd(d) = [ok |-> TRUE, argv |-> g]
    BY DEF ArgsEnd
  <1>. QED  BY <1>2, <1>9, <1>10 DEF L

\* Splitting undoes quoting: whatever bytes an argument holds, the text that
\* sdscatrepr makes of it is one argument for sdssplitargs, the same one
\* (sds.c:621).
THEOREM QuotingUndone ==
    ASSUME NEW v \in Seq(Bytes)
    PROVE  SplitArgs(CatRepr(v)) = [ok |-> TRUE, argv |-> <<v>>]
  <1>1. CatRepr(v) \in Seq(Bytes) /\ CatRepr(v) # <<>>
    <2>1. PICK f : ReprAt(f, v)
      BY ReprFacts
    <2>2. Len(v) \in 0..Len(v)
      BY LenProperties
    <2>3. Len(f[Len(v)]) \in Nat /\ Len(CatRepr(v)) = Len(f[Len(v)]) + 1
      BY <2>1, <2>2 DEF ReprAt
    <2>4. Len(CatRepr(v)) # 0 /\ CatRepr(v) \in Seq(Bytes)
      BY <2>3, ReprFacts
    <2>. QED  BY <2>4, EmptySeq
  <1>2. Reads(CatRepr(v), <<v>>) /\ <<v>> \in Seq(Seq(Bytes))
    BY ReadsQuoted
  <1>. QED  BY <1>1, <1>2, ReadsAll

-----------------------------------------------------------------------------
(* A name without quotes is one token, too.                                *)

Bare(q, u) == [p |-> q, quote |-> "", current |-> u, state |-> "more"]

LEMMA BareTurn ==
    ASSUME NEW s, NEW q \in Int, NEW u, At(s, q) \notin Special
    PROVE  TokenTurn(s, Bare(q, u)) = Bare(q + 1, Append(u, At(s, q)))
  BY DEF TokenTurn, Bare, Special, Separator, Nul

LEMMA BareEnds ==
    ASSUME NEW s, NEW q \in Int, NEW u, At(s, q) \in {"sp", Nul}
    PROVE  LET t == TokenTurn(s, Bare(q, u))
           IN  /\ t.state = "done" /\ t.current = u
               /\ t.p = IF At(s, q) = Nul THEN q ELSE q + 1
  BY DEF TokenTurn, Bare, Separator, Nul

LEMMA TokenBare ==
    ASSUME NEW s, Len(s) \in Nat, NEW p \in Nat \ {0}, NEW w, IsPlain(w),
           Holds(s, p, w), At(s, p + Len(w)) \in {"sp", Nul}
    PROVE  /\ Token(s, p).state = "done" /\ Token(s, p).current = w
           /\ Token(s, p).p \in {p + Len(w), p + Len(w) + 1}
           /\ Token(s, p).p = p + Len(w) + 1 => At(s, p + Len(w)) = "sp"
  <1> DEFINE N == Len(w)
             L == Len(s) + 1
  <1>0. w \in Seq(Bytes) /\ w # <<>> /\ \A i \in 1..N : w[i] \notin Special
    BY DEF IsPlain
  <1>1. N \in Nat
    BY <1>0, LenProperties
  <1>2. PICK g : /\ g[0] = TokenStart(p)
                 /\ \A i \in 1..L : g[i] = TokenTurn(s, g[i - 1])
                 /\ Token(s, p) = g[L]
    BY TokenTurnsLoop
  <1>3. /\ p + N - 1 <= Len(s) /\ \A k \in 1..N : s[p + k - 1] = w[k]
    BY DEF Holds
  <1>4. At(s, p + N) \in {"sp", Nul} /\ SubSeq(w, 1, 0) = <<>> /\ SubSeq(w, 1, N) = w
        /\ \A n \in 1..N : Append(SubSeq(w, 1, n - 1), w[n]) = SubSeq(w, 1, n)
    BY <1>0, SubSeqGrows
  <1> HIDE DEF N
  <1>5. L \in Nat /\ N + 1 \in 1..L
    BY <1>1, <1>3
  <1> DEFINE T == {n \in 0..N : g[n] = Bare(p + n, SubSeq(w, 1, n))}
  <1>6. 0 \in T
    <2>1. 0 \in 0..N /\ p + 0 = p
      BY <1>1
    <2>2. TokenStart(p) = Bare(p, <<>>)
      BY DEF TokenStart, Bare
    <2>. QED  BY <1>2, <1>4, <2>1, <2>2
  <1>7. ASSUME NEW n \in 1..N, n - 1 \in T PROVE n \in T
    <2> DEFINE q == p + (n - 1)
               u == SubSeq(w, 1, n - 1)
    <2>1. g[n - 1] = Bare(q, u)
      BY <1>7
    <2>2. q \in Nat /\ q = p + n - 1 /\ q + 1 = p + n /\ q <= Len(s) /\ n \in 1..L /\ n \in 0..N
      BY <1>1, <1>3, <1>5
    <2>3. s[p + n - 1] = w[n] /\ w[n] \notin Special
      BY <1>0, <1>3 DEF N
    <2> HIDE DEF q, u
    <2>4. At(s, q) = w[n]
      BY <2>2, <2>3 DEF At
    <2>5. TokenTurn(s, Bare(q, u)) = Bare(q + 1, Append(u, w[n]))
      BY <2>2, <2>3, <2>4, BareTurn
    <2>6. g[n] = TokenTurn(s, g[n - 1])
      BY <1>2, <2>2
    <2>7. Append(u, w[n]) = SubSeq(w, 1, n)
      BY <1>4 DEF u
    <2>. QED  BY <2>1, <2>2, <2>5, <2>6, <2>7
  <1>8. N \in T
    <2>1. N \in 0..N
      BY <1>1
    <2> HIDE DEF T
    <2>. QED  BY <1>1, <1>6, <1>7, <2>1, UpTo
  <1> DEFINE t == TokenTurn(s, Bare(p + N, w))
  <1>9. g[N] = Bare(p + N, w)
    BY <1>4, <1>8
  <1>10. g[N + 1] = t
    <2>1. (N + 1) - 1 = N
      BY <1>1
    <2>. QED  BY <1>2, <1>5, <1>9, <2>1
  <1>11. /\ t.state = "done" /\ t.current = w
         /\ t.p = IF At(s, p + N) = Nul THEN p + N ELSE p + N + 1
    BY <1>1, <1>4, BareEnds
  <1> HIDE DEF t
  <1> DEFINE D == {d \in 0..(L - (N + 1)) : g[N + 1 + d] = t}
  <1>12. L - (N + 1) \in D
    <2>1. L - (N + 1) \in Nat /\ N + 1 + 0 = N + 1
      BY <1>1, <1>5
    <2>2. 0 \in D
      BY <1>10, <2>1
    <2>3. ASSUME NEW d \in 1..(L - (N + 1)), d - 1 \in D PROVE d \in D
      <3>1. N + 1 + d \in 1..L /\ (N + 1 + d) - 1 = N + 1 + (d - 1) /\ d \in 0..(L - (N + 1))
        BY <1>1, <1>5, <2>1
      <3>2. g[N + 1 + d] = TokenTurn(s, g[N + 1 + (d - 1)])
        BY <1>2, <3>1
      <3>3. TokenTurn(s, t) = t
        BY <1>11, DoneTurn
      <3>. QED  BY <2>3, <3>1, <3>2, <3>3
    <2>4. L - (N + 1) \in 0..(L - (N + 1))
      BY <2>1
    <2> HIDE DEF D
    <2>. QED  BY <2>1, <2>2, <2>3, <2>4, UpTo
  <1>13. g[L] = t
    <2>1. N + 1 + (L - (N + 1)) = L
      BY <1>1, <1>5
    <2>. QED  BY <1>12, <2>1
  <1>14. Token(s, p) = t
    BY <1>2, <1>13
  <1>15. p + N # p + N + 1
    BY <1>1
  <1>. QED  BY <1>4, <1>11, <1>14, <1>15 DEF N

LEMMA ReadsBare ==
    ASSUME NEW w, IsPlain(w)
    PROVE  Reads(w, <<w>>)
  <1>1. w \in Seq(Bytes) /\ w # <<>> /\ \A i \in 1..Len(w) : w[i] \notin Special
    BY DEF IsPlain
  <1>2. Len(w) \in Nat \ {0}
    <2>1. Len(w) \in Nat /\ Len(w) # 0
      BY <1>1, LenProperties, EmptySeq
    <2>. QED  BY <2>1
  <1>3. w[1] \notin Space \cup {Nul}
    BY <1>1, <1>2 DEF Special, Separator
  <1>4. \A s, p : /\ Len(s) \in Nat /\ p \in Nat \ {0} /\ Holds(s, p, w)
                  /\ At(s, p + Len(w)) \in {"sp", Nul}
                  => /\ Token(s, p).state = "done" /\ Token(s, p).current = w
                     /\ Token(s, p).p \in {p + Len(w), p + Len(w) + 1}
                     /\ Token(s, p).p = p + Len(w) + 1 => At(s, p + Len(w)) = "sp"
    BY TokenBare
  <1>. QED  BY <1>1, <1>2, <1>3, <1>4, TokenReads

-----------------------------------------------------------------------------
(* A line of the options and the blank it ends with.                       *)

IsLine(w) ==
    /\ w \in Seq(Bytes) /\ w # <<>>
    /\ \A i \in 1..Len(w) : w[i] # "nl"
    /\ w[1] \notin Blank /\ w[1] # "#" /\ w[Len(w)] \notin Blank

\* The line x has the arguments g.
LineOf(x, g) == g # <<>> /\ \E w : x = Append(w, "sp") /\ IsLine(w) /\ Reads(w, g)

LEMMA TrimLine ==
    ASSUME NEW w, IsLine(w)
    PROVE  Trim(Append(w, "sp"), Blank) = w
  <1> DEFINE x == Append(w, "sp")
             N == Len(w)
             Kept == {i \in 1..Len(x) : x[i] \notin Blank}
  <1>1. w \in Seq(Bytes) /\ w # <<>> /\ w[1] \notin Blank /\ w[N] \notin Blank
    BY DEF IsLine
  <1>2. N \in Nat \ {0}
    <2>1. Len(w) \in Nat /\ Len(w) # 0
      BY <1>1, LenProperties, EmptySeq
    <2>. QED  BY <2>1
  <1>3. "sp" \in Bytes /\ "sp" \in Blank
    BY DEF Bytes, Marks, Blank
  <1>4. x \in Seq(Bytes) /\ Len(x) = N + 1 /\ x[N + 1] = "sp" /\ \A i \in 1..N : x[i] = w[i]
    BY <1>1, <1>3, AppendProperties
  <1> HIDE DEF x, N
  <1>5. 1 \in Kept /\ N \in Kept /\ Kept \subseteq 1..N
    BY <1>1, <1>2, <1>3, <1>4
  <1>6. \A i \in Kept : 1 <= i /\ i <= N
    BY <1>2, <1>5
  <1>7. Min(Kept) = 1
    <2> HIDE DEF Kept
    <2>1. \A m \in Kept : (\A i \in Kept : m <= i) => m = 1
      BY <1>2, <1>5, <1>6
    <2>. QED  BY <1>5, <1>6, <2>1 DEF Min
  <1>8. Max(Kept) = N
    <2> HIDE DEF Kept
    <2>1. \A m \in Kept : (\A i \in Kept : m >= i) => m = N
      BY <1>2, <1>5, <1>6
    <2>2. \A i \in Kept : N >= i
      BY <1>2, <1>5, <1>6
    <2>. QED  BY <1>5, <2>1, <2>2 DEF Max
  <1>9. Trim(x, Blank) = SubSeq(x, 1, N)
    BY <1>5, <1>7, <1>8 DEF Trim
  <1>10. SubSeq(x, 1, N) = w
    <2> DEFINE y == SubSeq(x, 1, N)
    <2>1. y \in Seq(Bytes) /\ Len(y) = N
      BY <1>2, <1>4, SubSeqGrows
    <2>2. \A i \in 1..N : y[i] = x[i]
      <3>1. N \in 0..Len(x) /\ x \in Seq(Bytes)
        BY <1>2, <1>4
      <3> HIDE DEF Kept
      <3>. QED  BY <3>1, SplitElements
    <2> HIDE DEF y
    <2>3. \A i \in 1..N : y[i] = w[i]
      BY <1>4, <2>2
    <2>4. y = w
      BY <1>1, <2>1, <2>3, SeqEqual DEF N
    <2>. QED  BY <2>4 DEF y
  <1>. QED  BY <1>9, <1>10 DEF x

\* What it has is what its line reads, which is neither blank nor a comment.
LEMMA LineReads ==
    ASSUME NEW x, NEW g \in Seq(Seq(Bytes)), LineOf(x, g)
    PROVE  /\ SplitArgs(Trim(x, Blank)) = [ok |-> TRUE, argv |-> g]
           /\ Trim(x, Blank) \in Seq(Bytes) /\ ~IsSkipped(Trim(x, Blank))
  <1>1. PICK w : x = Append(w, "sp") /\ IsLine(w) /\ Reads(w, g)
    BY DEF LineOf
  <1>2. Trim(x, Blank) = w
    BY <1>1, TrimLine
  <1>3. w \in Seq(Bytes) /\ w # <<>>
    BY <1>1 DEF IsLine
  <1>4. SplitArgs(w) = [ok |-> TRUE, argv |-> g]
    BY <1>1, <1>3, ReadsAll
  <1>5. w[1] # "#" /\ g # <<>> /\ 1 <= Len(w)
    <2>1. Len(w) \in Nat /\ Len(w) # 0
      BY <1>3, LenProperties, EmptySeq
    <2>. QED  BY <1>1, <2>1 DEF IsLine, LineOf
  <1>6. At(w, 1) # "#"
    BY <1>5 DEF At
  <1>7. ~IsSkipped(w)
    <2>1. [ok |-> TRUE, argv |-> g].argv = g /\ [ok |-> TRUE, argv |-> <<>>].argv = <<>>
      OBVIOUS
    <2>2. SplitArgs(w) # [ok |-> TRUE, argv |-> <<>>]
      BY <1>4, <1>5, <2>1
    <2>. QED  BY <1>3, <1>6, <2>2 DEF IsSkipped
  <1>. QED  BY <1>2, <1>3, <1>4, <1>7

LEMMA BareLine ==
    ASSUME NEW w, IsPlain(w)
    PROVE  IsLine(w)
  <1>1. w \in Seq(Bytes) /\ w # <<>> /\ w[1] # "#" /\ \A i \in 1..Len(w) : w[i] \notin Special
    BY DEF IsPlain
  <1>2. 1 \in 1..Len(w) /\ Len(w) \in 1..Len(w)
    <2>1. Len(w) \in Nat /\ Len(w) # 0
      BY <1>1, LenProperties, EmptySeq
    <2>. QED  BY <2>1
  <1>3. Blank \subseteq Special /\ "nl" \in Special
    BY DEF Blank, Special, Space
  <1>. QED  BY <1>1, <1>2, <1>3 DEF IsLine

LEMMA QuotedLine ==
    ASSUME NEW v \in Seq(Bytes)
    PROVE  IsLine(CatRepr(v))
  <1> DEFINE w == CatRepr(v)
  <1>1. PICK f : ReprAt(f, v)
    BY ReprFacts
  <1>2. Len(v) \in 0..Len(v)
    BY LenProperties
  <1>3. /\ Len(f[Len(v)]) \in Nat /\ Len(w) = Len(f[Len(v)]) + 1
        /\ w[1] = "dq" /\ w[Len(w)] = "dq"
    BY <1>1, <1>2 DEF ReprAt
  <1>4. w \in Seq(Bytes) /\ \A k \in 1..Len(w) : w[k] # "nl"
    BY ReprFacts
  <1> HIDE DEF w
  <1>5. w # <<>>
    <2>1. Len(w) # 0
      BY <1>3
    <2>. QED  BY <1>4, <2>1, EmptySeq
  <1>6. "dq" \notin Blank /\ "dq" # "#"
    BY DEF Blank
  <1>7. IsLine(w)
    BY <1>3, <1>4, <1>5, <1>6 DEF IsLine
  <1>. QED  BY <1>7 DEF w

LEMMA JoinedLine ==
    ASSUME NEW a, IsLine(a), NEW b, IsLine(b)
    PROVE  IsLine((a \o <<"sp">>) \o b)
  <1> DEFINE c == (a \o <<"sp">>) \o b
  <1>1. /\ a \in Seq(Bytes) /\ a # <<>> /\ b \in Seq(Bytes) /\ b # <<>>
        /\ \A i \in 1..Len(a) : a[i] # "nl"
        /\ \A i \in 1..Len(b) : b[i] # "nl"
        /\ a[1] \notin Blank /\ a[1] # "#" /\ b[Len(b)] \notin Blank
    BY DEF IsLine
  <1>2. Len(a) \in Nat \ {0} /\ Len(b) \in Nat \ {0}
    <2>1. Len(a) \in Nat /\ Len(b) \in Nat /\ Len(a) # 0 /\ Len(b) # 0
      BY <1>1, LenProperties, EmptySeq
    <2>. QED  BY <2>1
  <1>3. /\ c \in Seq(Bytes) /\ Len(c) = Len(a) + Len(b) + 1
        /\ \A i \in 1..Len(a) : c[i] = a[i]
        /\ c[Len(a) + 1] = "sp"
        /\ \A i \in 1..Len(b) : c[Len(a) + 1 + i] = b[i]
    <2>1. "sp" \in Bytes
      BY DEF Bytes, Marks
    <2>. QED  BY <1>1, <2>1, ConcatThree
  <1> HIDE DEF c
  <1>4. c[1] = a[1] /\ c[Len(c)] = b[Len(b)]
    <2>1. 1 \in 1..Len(a) /\ Len(b) \in 1..Len(b) /\ Len(a) + 1 + Len(b) = Len(c)
      BY <1>2, <1>3
    <2>2. c[Len(a) + 1 + Len(b)] = b[Len(b)]
      BY <1>3, <2>1
    <2>. QED  BY <1>3, <2>1, <2>2
  <1>5. ASSUME NEW i \in 1..Len(c) PROVE c[i] # "nl"
    <2>1. CASE i <= Len(a)
      BY <1>1, <1>2, <1>3, <2>1
    <2>2. CASE i = Len(a) + 1
      <3>1. c[i] = "sp"
        BY <1>3, <2>2
      <3>. QED  BY <3>1
    <2>3. CASE i > Len(a) + 1
      <3>1. i - (Len(a) + 1) \in 1..Len(b) /\ Len(a) + 1 + (i - (Len(a) + 1)) = i
        BY <1>2, <1>3, <2>3
      <3>2. c[Len(a) + 1 + (i - (Len(a) + 1))] = b[i - (Len(a) + 1)]
        BY <1>3, <3>1
      <3>3. b[i - (Len(a) + 1)] # "nl"
        BY <1>1, <3>1
      <3>. QED  BY <3>1, <3>2, <3>3
    <2>. QED  BY <1>2, <2>1, <2>2, <2>3
  <1>6. c # <<>>
    <2>1. Len(c) # 0
      BY <1>2, <1>3
    <2>. QED  BY <1>3, <2>1, EmptySeq
  <1>7. IsLine(c)
    BY <1>1, <1>3, <1>4, <1>5, <1>6 DEF IsLine
  <1>. QED  BY <1>7 DEF c

-----------------------------------------------------------------------------
(* What sdssplitlen makes of a text that grows.                            *)

SplitLoop(f, s, sep) ==
    f[0] = SplitStart /\ \A i \in 1..Len(s) : f[i] = SplitTurn(s, sep, f[i - 1], i)

\* Over the bytes two texts have in common the loop does the same.
LEMMA SplitFollows ==
    ASSUME NEW S, NEW o \in Seq(S), NEW x \in Seq(S), NEW sep, NEW f, NEW g,
           Len(o) <= Len(x), \A i \in 1..Len(o) : o[i] = x[i],
           SplitLoop(f, o, sep), SplitLoop(g, x, sep)
    PROVE  /\ g[Len(o)] = f[Len(o)] /\ f[Len(o)].start \in 1..(Len(o) + 1)
           /\ f[Len(o)].tokens \in Seq(Seq(S))
  <1> DEFINE N == Len(o)
             T == {j \in 0..N : /\ g[j] = f[j] /\ f[j].start \in 1..(j + 1)
                                /\ f[j].tokens \in Seq(Seq(S))}
  <1>1. N \in Nat /\ Len(x) \in Nat
    BY LenProperties
  <1>2. 0 \in T
    <2>1. g[0] = SplitStart /\ f[0] = SplitStart
      BY DEF SplitLoop
    <2>2. SplitStart.start = 1 /\ SplitStart.tokens = <<>>
      BY DEF SplitStart
    <2>3. <<>> \in Seq(Seq(S))
      BY EmptySeq
    <2>4. 0 \in 0..N /\ 1 \in 1..(0 + 1)
      BY <1>1
    <2>. QED  BY <2>1, <2>2, <2>3, <2>4
  <1>3. ASSUME NEW j \in 1..N, j - 1 \in T PROVE j \in T
    <2> DEFINE b == f[j - 1]
    <2>1. g[j - 1] = b /\ b.start \in 1..j /\ b.tokens \in Seq(Seq(S))
      BY <1>3
    <2>2. f[j] = SplitTurn(o, sep, b, j) /\ g[j] = SplitTurn(x, sep, b, j) /\ o[j] = x[j]
      <3>1. j \in 1..Len(x)
        BY <1>1
      <3>. QED  BY <2>1, <3>1 DEF SplitLoop
    <2>3. j \in 0..N /\ j - 1 \in Nat /\ j + 1 \in 1..(j + 1)
      BY <1>1
    <2> HIDE DEF b
    <2>4. CASE o[j] # sep
      <3>1. f[j] = b /\ g[j] = b
        BY <2>2, <2>4 DEF SplitTurn
      <3>2. b.start \in 1..(j + 1)
        BY <2>1, <2>3
      <3>. QED  BY <2>1, <2>3, <3>1, <3>2
    <2>5. CASE o[j] = sep
      <3> DEFINE cut == SubSeq(o, b.start, j - 1)
      <3>1. b.start \in Nat \ {0} /\ b.start <= (j - 1) + 1 /\ j - 1 <= Len(o) /\ j - 1 <= Len(x)
            /\ \A i \in b.start..(j - 1) : o[i] = x[i]
        BY <1>1, <2>1, <2>3
      <3>2. SubSeq(x, b.start, j - 1) = cut
        <4> DEFINE m == b.start
                   k == j - 1
        <4>1. m \in Nat \ {0} /\ k \in Nat /\ m <= k + 1 /\ k <= Len(o) /\ k <= Len(x)
              /\ \A i \in m..k : o[i] = x[i]
          BY <2>3, <3>1
        <4> HIDE DEF m, k
        <4>2. SubSeq(o, m, k) = SubSeq(x, m, k)
          BY <4>1, SliceSame
        <4>. QED  BY <4>2 DEF m, k
      <3>3. cut \in Seq(S)
        BY <2>3, <3>1, SliceIs
      <3>4. f[j] = [start |-> j + 1, tokens |-> Append(b.tokens, cut)] /\ g[j] = f[j]
        BY <2>2, <2>5, <3>2 DEF SplitTurn
      <3> HIDE DEF cut
      <3>5. Append(b.tokens, cut) \in Seq(Seq(S))
        BY <2>1, <3>3, AppendProperties
      <3>6. f[j].start = j + 1 /\ f[j].tokens = Append(b.tokens, cut)
        BY <3>4
      <3>. QED  BY <2>3, <3>4, <3>5, <3>6
    <2>. QED  BY <2>4, <2>5
  <1>4. N \in T
    <2>1. N \in 0..N
      BY <1>1
    <2> HIDE DEF T, N
    <2>. QED  BY <1>1, <1>2, <1>3, <2>1, UpTo
  <1>. QED  BY <1>4

\* And where no separator stands it does nothing.
LEMMA SplitStays ==
    ASSUME NEW x, Len(x) \in Nat, NEW sep, NEW g, SplitLoop(g, x, sep), NEW j \in 0..Len(x),
           \A i \in (j + 1)..Len(x) : x[i] # sep
    PROVE  g[Len(x)] = g[j]
  <1> DEFINE N == Len(x) - j
             T == {d \in 0..N : g[j + d] = g[j]}
  <1>1. N \in Nat /\ j + N = Len(x) /\ N \in 0..N /\ j + 0 = j /\ 0 \in 0..N
    OBVIOUS
  <1>2. 0 \in T
    BY <1>1
  <1>3. ASSUME NEW d \in 1..N, d - 1 \in T PROVE d \in T
    <2>1. j + d \in 1..Len(x) /\ j + d \in (j + 1)..Len(x) /\ (j + d) - 1 = j + (d - 1) /\ d \in 0..N
      BY <1>1
    <2>2. g[j + d] = SplitTurn(x, sep, g[j + (d - 1)], j + d)
      BY <2>1 DEF SplitLoop
    <2>3. x[j + d] # sep
      BY <2>1
    <2>4. g[j + d] = g[j + (d - 1)]
      BY <2>2, <2>3 DEF SplitTurn
    <2>. QED  BY <1>3, <2>1, <2>4
  <1>4. N \in T
    <2> HIDE DEF T, N
    <2>. QED  BY <1>1, <1>2, <1>3, UpTo
  <1>. QED  BY <1>1, <1>4

LEMMA SplitIs ==
    ASSUME NEW S, NEW s \in Seq(S), NEW sep
    PROVE  \E f : /\ SplitLoop(f, s, sep)
                  /\ SplitLen(s, sep) = IF s = <<>> THEN <<>>
                                        ELSE Append(f[Len(s)].tokens,
                                                    SubSeq(s, f[Len(s)].start, Len(s)))
  <1>1. Len(s) \in Nat
    BY LenProperties
  <1>. QED  BY <1>1, SplitTurnsLoop DEF SplitLoop

\* A text without a separator is one element.
LEMMA SplitOne ==
    ASSUME NEW S, NEW w \in Seq(S), w # <<>>, NEW sep, \A i \in 1..Len(w) : w[i] # sep
    PROVE  SplitLen(w, sep) = <<w>>
  <1>1. Len(w) \in Nat
    BY LenProperties
  <1>2. PICK f : /\ SplitLoop(f, w, sep)
                 /\ SplitLen(w, sep) = Append(f[Len(w)].tokens, SubSeq(w, f[Len(w)].start, Len(w)))
    BY SplitIs
  <1>3. f[Len(w)] = f[0]
    <2>1. 0 \in 0..Len(w) /\ \A i \in (0 + 1)..Len(w) : w[i] # sep
      BY <1>1
    <2>. QED  BY <1>1, <1>2, <2>1, SplitStays
  <1>4. f[0].tokens = <<>> /\ f[0].start = 1
    BY <1>2 DEF SplitLoop, SplitStart
  <1>5. SubSeq(w, 1, Len(w)) = w
    BY SubSeqFull
  <1>. QED  BY <1>2, <1>3, <1>4, <1>5

\* The bytes w behind o make its last element longer.
Extends(S, o, w, sep) ==
    \E t \in Seq(Seq(S)), u \in Seq(S) : /\ SplitLen(o, sep) = Append(t, u)
                                         /\ SplitLen(o \o w, sep) = Append(t, u \o w)

\* More bytes without a separator belong to the last element.
LEMMA SplitExtend ==
    ASSUME NEW S, NEW o \in Seq(S), o # <<>>, NEW w \in Seq(S), NEW sep,
           \A i \in 1..Len(w) : w[i] # sep
    PROVE  Extends(S, o, w, sep)
  <1> DEFINE x == o \o w
  <1>1. /\ x \in Seq(S) /\ Len(o) \in Nat /\ Len(w) \in Nat /\ Len(x) = Len(o) + Len(w)
        /\ \A i \in 1..Len(o) : x[i] = o[i]
        /\ \A i \in 1..Len(w) : x[Len(o) + i] = w[i]
    BY ConcatIs
  <1>2. \A m \in 1..(Len(o) + 1) : SubSeq(x, m, Len(x)) = SubSeq(o, m, Len(o)) \o w
    BY SliceGrows
  <1> HIDE DEF x
  <1>3. x # <<>>
    <2>1. Len(o) # 0
      BY EmptySeq
    <2>2. Len(x) # 0
      BY <1>1, <2>1
    <2>. QED  BY <1>1, <2>2, EmptySeq
  <1>4. PICK f : /\ SplitLoop(f, o, sep)
                 /\ SplitLen(o, sep) = Append(f[Len(o)].tokens, SubSeq(o, f[Len(o)].start, Len(o)))
    BY SplitIs
  <1>5. PICK g : /\ SplitLoop(g, x, sep)
                 /\ SplitLen(x, sep) = Append(g[Len(x)].tokens, SubSeq(x, g[Len(x)].start, Len(x)))
    BY <1>1, <1>3, SplitIs
  <1> DEFINE b == f[Len(o)]
  <1>6. g[Len(o)] = b /\ b.start \in 1..(Len(o) + 1) /\ b.tokens \in Seq(Seq(S))
    <2>1. Len(o) <= Len(x)
      BY <1>1
    <2>. QED  BY <1>1, <1>4, <1>5, <2>1, SplitFollows
  <1>7. g[Len(x)] = g[Len(o)]
    <2>1. \A i \in (Len(o) + 1)..Len(x) : x[i] # sep
      <3> SUFFICES ASSUME NEW i \in (Len(o) + 1)..Len(x) PROVE x[i] # sep
        OBVIOUS
      <3>1. i - Len(o) \in 1..Len(w) /\ Len(o) + (i - Len(o)) = i
        BY <1>1
      <3>2. x[Len(o) + (i - Len(o))] = w[i - Len(o)] /\ w[i - Len(o)] # sep
        BY <1>1, <3>1
      <3>. QED  BY <3>1, <3>2
    <2>2. Len(o) \in 0..Len(x) /\ Len(x) \in Nat
      BY <1>1
    <2>. QED  BY <1>5, <2>1, <2>2, SplitStays
  <1>8. SplitLen(x, sep) = Append(b.tokens, SubSeq(o, b.start, Len(o)) \o w)
    BY <1>2, <1>5, <1>6, <1>7
  <1>9. SubSeq(o, b.start, Len(o)) \in Seq(S)
    <2>1. b.start \in Nat \ {0} /\ b.start <= Len(o) + 1 /\ Len(o) <= Len(o)
      BY <1>1, <1>6
    <2>. QED  BY <1>1, <2>1, SliceIs
  <1>. QED  BY <1>4, <1>6, <1>8, <1>9 DEF x, Extends

\* The elements of a text, of which an empty one has one, too.
Pieces(s, sep) == IF s = <<>> THEN <<<<>>>> ELSE SplitLen(s, sep)

\* SplitIs for the elements of any text.
LEMMA PiecesAre ==
    ASSUME NEW S, NEW s \in Seq(S), NEW sep
    PROVE  \E f : /\ SplitLoop(f, s, sep)
                  /\ f[Len(s)].start \in 1..(Len(s) + 1)
                  /\ f[Len(s)].tokens \in Seq(Seq(S))
                  /\ Pieces(s, sep) = Append(f[Len(s)].tokens,
                                             SubSeq(s, f[Len(s)].start, Len(s)))
  <1>1. PICK f : /\ SplitLoop(f, s, sep)
                 /\ SplitLen(s, sep) = IF s = <<>> THEN <<>>
                                       ELSE Append(f[Len(s)].tokens,
                                                   SubSeq(s, f[Len(s)].start, Len(s)))
    BY SplitIs
  <1>2. Len(s) \in Nat
    BY LenProperties
  <1>3. f[Len(s)].start \in 1..(Len(s) + 1) /\ f[Len(s)].tokens \in Seq(Seq(S))
    <2>1. Len(s) <= Len(s) /\ \A i \in 1..Len(s) : s[i] = s[i]
      BY <1>2
    <2>. QED  BY <1>1, <2>1, SplitFollows
  <1>4. CASE s = <<>>
    <2>1. Len(s) = 0
      BY <1>4, EmptySeq
    <2>2. f[Len(s)].start = 1 /\ f[Len(s)].tokens = <<>>
      BY <1>1, <2>1 DEF SplitLoop, SplitStart
    <2>3. SubSeq(s, 1, Len(s)) = <<>>
      BY <1>4, SubSeqFull
    <2>4. Append(<<>>, <<>>) = <<<<>>>>
      OBVIOUS
    <2>5. Pieces(s, sep) = <<<<>>>>
      BY <1>4 DEF Pieces
    <2>. QED  BY <1>1, <1>3, <2>2, <2>3, <2>4, <2>5
  <1>5. CASE s # <<>>
    BY <1>1, <1>3, <1>5 DEF Pieces
  <1>. QED  BY <1>4, <1>5

LEMMA SeparatorTurn ==
    ASSUME NEW s, NEW sep, NEW b, NEW j, s[j] = sep
    PROVE  SplitTurn(s, sep, b, j)
             = [start |-> j + 1, tokens |-> Append(b.tokens, SubSeq(s, b.start, j - 1))]
  BY DEF SplitTurn

\* Where its loop is after i bytes of what stands behind n bytes: f is the
\* loop over that alone, p what the first n bytes gave.
Behind(S, g, f, n, p, i) ==
    /\ g[n + i] = [start |-> n + f[i].start, tokens |-> p \o f[i].tokens]
    /\ f[i].start \in 1..(i + 1) /\ f[i].tokens \in Seq(Seq(S))

LEMMA SplitBehind ==
    ASSUME NEW S, NEW y \in Seq(S), NEW o \in Seq(S), NEW sep, NEW f, NEW g,
           SplitLoop(f, o, sep), SplitLoop(g, y \o o, sep), NEW p \in Seq(Seq(S)),
           g[Len(y)] = [start |-> Len(y) + 1, tokens |-> p]
    PROVE  Behind(S, g, f, Len(y), p, Len(o))
  <1> DEFINE x == y \o o
             n == Len(y)
             N == Len(o)
             T == {i \in 0..N : Behind(S, g, f, n, p, i)}
  <1>1. /\ n \in Nat /\ N \in Nat /\ Len(x) = n + N
        /\ \A i \in 1..N : x[n + i] = o[i]
    BY ConcatIs
  <1>2. \A j \in 1..Len(x) : g[j] = SplitTurn(x, sep, g[j - 1], j)
    BY DEF SplitLoop
  <1>3. f[0] = SplitStart /\ \A i \in 1..N : f[i] = SplitTurn(o, sep, f[i - 1], i)
    BY DEF SplitLoop
  <1>4. \A m \in Nat \ {0}, k \in Nat : m <= k + 1 /\ k <= N => SubSeq(x, n + m, n + k) = SubSeq(o, m, k)
    BY SliceBehind
  <1>5. \A m \in Nat \ {0}, k \in Nat : m <= k + 1 /\ k <= N => SubSeq(o, m, k) \in Seq(S)
    BY SliceIs
  <1>6. g[n] = [start |-> n + 1, tokens |-> p]
    OBVIOUS
  <1> HIDE DEF x, n, N
  <1>7. 0 \in T
    <2>1. f[0].start = 1 /\ f[0].tokens = <<>>
      BY <1>3 DEF SplitStart
    <2>2. p \o <<>> = p /\ <<>> \in Seq(Seq(S))
      BY ConcatEmptySeq, EmptySeq
    <2>3. n + 0 = n /\ 1 \in 1..(0 + 1) /\ 0 \in 0..N
      BY <1>1
    <2>. QED  BY <1>6, <2>1, <2>2, <2>3 DEF Behind
  <1>8. ASSUME NEW i \in 1..N, i - 1 \in T PROVE i \in T
    <2> DEFINE b == f[i - 1]
               c == g[n + (i - 1)]
    <2>1. /\ c = [start |-> n + b.start, tokens |-> p \o b.tokens]
          /\ b.start \in 1..((i - 1) + 1) /\ b.tokens \in Seq(Seq(S))
      BY <1>8 DEF Behind
    <2>2. f[i] = SplitTurn(o, sep, b, i)
      BY <1>3
    <2>3. n + i \in 1..Len(x) /\ (n + i) - 1 = n + (i - 1) /\ i \in 0..N /\ i \in Nat \ {0}
          /\ (n + i) + 1 = n + (i + 1) /\ (n + i) - 1 = n + (i - 1)
      BY <1>1
    <2>4. g[n + i] = SplitTurn(x, sep, c, n + i)
      BY <1>2, <2>3
    <2>5. x[n + i] = o[i]
      BY <1>1
    <2> HIDE DEF b, c
    <2>6. c.start = n + b.start /\ c.tokens = p \o b.tokens
      BY <2>1
    <2>7. CASE o[i] # sep
      <3>1. f[i] = b /\ g[n + i] = c
        BY <2>2, <2>4, <2>5, <2>7 DEF SplitTurn
      <3>2. b.start \in 1..(i + 1)
        BY <2>1, <2>3
      <3>. QED  BY <2>1, <2>3, <3>1, <3>2 DEF Behind
    <2>8. CASE o[i] = sep
      <3> DEFINE cut == SubSeq(o, b.start, i - 1)
      <3>1. b.start \in Nat \ {0} /\ i - 1 \in Nat /\ b.start <= (i - 1) + 1 /\ i - 1 <= N
        BY <1>1, <2>1, <2>3
      <3>2. cut \in Seq(S) /\ SubSeq(x, n + b.start, n + (i - 1)) = cut
        BY <1>4, <1>5, <3>1
      <3>3. f[i] = [start |-> i + 1, tokens |-> Append(b.tokens, cut)]
        BY <2>2, <2>8 DEF SplitTurn
      <3> HIDE DEF T
      <3>4. g[n + i] = [start |-> n + (i + 1), tokens |-> Append(p \o b.tokens, cut)]
        <4>1. g[n + i] = [start |-> (n + i) + 1,
                          tokens |-> Append(c.tokens, SubSeq(x, c.start, (n + i) - 1))]
          <5> DEFINE k == n + i
          <5>1. x[k] = sep
            BY <2>5, <2>8
          <5> HIDE DEF k
          <5>2. SplitTurn(x, sep, c, k)
                  = [start |-> k + 1, tokens |-> Append(c.tokens, SubSeq(x, c.start, k - 1))]
            BY <5>1, Zenon DEF SplitTurn
          <5>. QED  BY <2>4, <5>2, Zenon DEF k
        <4>2. SubSeq(x, c.start, (n + i) - 1) = cut
          BY <2>3, <2>6, <3>2
        <4> HIDE DEF cut
        <4>. QED  BY <2>3, <2>6, <4>1, <4>2
      <3> HIDE DEF cut
      <3>5. Append(p \o b.tokens, cut) = p \o Append(b.tokens, cut)
        <4>1. Joins(p, b.tokens, cut)
          BY <2>1, <3>2, AppendBehind, Zenon
        <4>. QED  BY <4>1 DEF Joins
      <3>6. Append(b.tokens, cut) \in Seq(Seq(S))
        BY <2>1, <3>2, AppendProperties
      <3>7. f[i].start = i + 1 /\ f[i].tokens = Append(b.tokens, cut) /\ i + 1 \in 1..(i + 1)
        BY <2>3, <3>3
      <3>8. g[n + i] = [start |-> n + f[i].start, tokens |-> p \o f[i].tokens]
        BY <3>4, <3>5, <3>7, Zenon
      <3>9. f[i].start \in 1..(i + 1) /\ f[i].tokens \in Seq(Seq(S))
        BY <3>6, <3>7, Zenon
      <3>10. Behind(S, g, f, n, p, i)
        BY <3>8, <3>9, Zenon DEF Behind
      <3>. QED  BY <2>3, <3>10 DEF T
    <2>. QED  BY <2>7, <2>8
  <1>9. N \in T
    <2>1. N \in 0..N
      BY <1>1
    <2> HIDE DEF T
    <2>. QED  BY <1>1, <1>7, <1>8, <2>1, UpTo
  <1>. QED  BY <1>9 DEF n, N

\* The elements of two texts with a separator between them are those of the
\* one and then those of the other.
LEMMA PiecesJoined ==
    ASSUME NEW S, NEW a \in Seq(S), NEW sep \in S, NEW o \in Seq(S)
    PROVE  LET x == Append(a, sep) \o o
           IN  /\ SplitLen(x, sep) = Pieces(a, sep) \o Pieces(o, sep)
               /\ Pieces(a, sep) \in Seq(Seq(S)) /\ Pieces(o, sep) \in Seq(Seq(S))
  <1> DEFINE y == Append(a, sep)
             x == y \o o
             n == Len(y)
  <1>1. /\ y \in Seq(S) /\ Len(a) \in Nat /\ n = Len(a) + 1
        /\ \A i \in 1..Len(a) : y[i] = a[i]
        /\ y[Len(a) + 1] = sep
    BY AppendProperties, LenProperties
  <1> HIDE DEF y
  <1>2. /\ x \in Seq(S) /\ Len(o) \in Nat /\ Len(x) = n + Len(o)
        /\ \A i \in 1..n : x[i] = y[i]
    <2>1. x \in Seq(S)
      BY <1>1, ConcatIs
    <2>2. Len(o) \in Nat /\ Len(x) = n + Len(o)
      BY <1>1, ConcatIs
    <2>3. \A i \in 1..n : x[i] = y[i]
      BY <1>1, ConcatIs
    <2>. QED  BY <2>1, <2>2, <2>3
  <1>3. \A m \in Nat \ {0}, k \in Nat :
            m <= k + 1 /\ k <= Len(o) => SubSeq(x, n + m, n + k) = SubSeq(o, m, k)
    BY <1>1, SliceBehind
  <1>4. \A g, f, p : /\ SplitLoop(f, o, sep) /\ SplitLoop(g, x, sep) /\ p \in Seq(Seq(S))
                     /\ g[n] = [start |-> n + 1, tokens |-> p]
                     => Behind(S, g, f, n, p, Len(o))
    BY <1>1, SplitBehind
  <1> HIDE DEF x, n
  <1>5. x # <<>>
    <2>1. Len(x) # 0
      BY <1>1, <1>2
    <2>. QED  BY <1>2, <2>1, EmptySeq
  <1>6. PICK e : /\ SplitLoop(e, a, sep)
                 /\ e[Len(a)].start \in 1..(Len(a) + 1)
                 /\ e[Len(a)].tokens \in Seq(Seq(S))
                 /\ Pieces(a, sep) = Append(e[Len(a)].tokens, SubSeq(a, e[Len(a)].start, Len(a)))
    BY PiecesAre
  <1>7. PICK f : /\ SplitLoop(f, o, sep)
                 /\ f[Len(o)].start \in 1..(Len(o) + 1)
                 /\ f[Len(o)].tokens \in Seq(Seq(S))
                 /\ Pieces(o, sep) = Append(f[Len(o)].tokens, SubSeq(o, f[Len(o)].start, Len(o)))
    BY PiecesAre
  <1>8. PICK g : /\ SplitLoop(g, x, sep)
                 /\ SplitLen(x, sep) = Append(g[Len(x)].tokens, SubSeq(x, g[Len(x)].start, Len(x)))
    BY <1>2, <1>5, SplitIs
  <1> DEFINE b == e[Len(a)]
             u == SubSeq(a, b.start, Len(a))
             p == Append(b.tokens, u)
             c == f[Len(o)]
             v == SubSeq(o, c.start, Len(o))
  <1>9. Len(a) <= Len(x) /\ \A i \in 1..Len(a) : a[i] = x[i]
    BY <1>1, <1>2
  <1>10. g[Len(a)] = b
    BY <1>2, <1>6, <1>8, <1>9, SplitFollows
  <1>11. b.start \in Nat \ {0} /\ b.start <= Len(a) + 1 /\ Len(a) <= Len(a)
    BY <1>1, <1>6
  <1>12. u \in Seq(S)
    BY <1>1, <1>11, SliceIs
  <1>13. SubSeq(x, b.start, Len(a)) = u
    <2> DEFINE m == b.start
    <2>1. m \in Nat \ {0} /\ m <= Len(a) + 1 /\ \A i \in m..Len(a) : a[i] = x[i]
      BY <1>1, <1>9, <1>11
    <2> HIDE DEF m
    <2>2. SubSeq(x, m, Len(a)) = SubSeq(a, m, Len(a))
      BY <1>1, <1>2, <1>9, <2>1, SliceSame
    <2>. QED  BY <2>2 DEF m
  <1>14. Pieces(a, sep) = p /\ p \in Seq(Seq(S))
    BY <1>6, <1>12, AppendProperties
  <1> HIDE DEF b, u
  <1>15. g[n] = [start |-> n + 1, tokens |-> p]
    <2>1. n \in 1..Len(x) /\ n - 1 = Len(a)
      BY <1>1, <1>2
    <2>2. g[n] = SplitTurn(x, sep, b, n)
      <3>1. g[n] = SplitTurn(x, sep, g[n - 1], n)
        BY <1>8, <2>1 DEF SplitLoop
      <3>. QED  BY <1>10, <2>1, <3>1
    <2>3. x[n] = sep
      BY <1>1, <1>2, SMTT(30)
    <2>. QED  BY <1>13, <2>1, <2>2, <2>3 DEF SplitTurn
  <1> HIDE DEF p
  <1>16. Behind(S, g, f, n, p, Len(o))
    BY <1>4, <1>7, <1>8, <1>14, <1>15
  <1>17. g[Len(x)] = [start |-> n + c.start, tokens |-> p \o c.tokens]
    BY <1>2, <1>16 DEF Behind
  <1>18. c.start \in Nat \ {0} /\ c.start <= Len(o) + 1 /\ Len(o) <= Len(o)
    BY <1>2, <1>7
  <1>19. v \in Seq(S)
    BY <1>2, <1>18, SliceIs
  <1>20. SubSeq(x, n + c.start, Len(x)) = v
    BY <1>2, <1>3, <1>18
  <1> HIDE DEF c, v
  <1>21. SplitLen(x, sep) = Append(p \o c.tokens, v)
    BY <1>8, <1>17, <1>20
  <1>22. Pieces(o, sep) = Append(c.tokens, v) /\ c.tokens \in Seq(Seq(S))
    BY <1>7 DEF c, v
  <1>23. Append(p \o c.tokens, v) = p \o Append(c.tokens, v)
    <2>1. Joins(p, c.tokens, v)
      BY <1>14, <1>19, <1>22, AppendBehind, Zenon
    <2>. QED  BY <2>1 DEF Joins
  <1>24. Pieces(o, sep) \in Seq(Seq(S))
    BY <1>19, <1>22, AppendProperties
  <1>. QED  BY <1>14, <1>21, <1>22, <1>23, <1>24 DEF x, y

\* A separator ends the last element, and such bytes behind it are the next.
LEMMA SplitNewElement ==
    ASSUME NEW S, NEW o \in Seq(S), o # <<>>, NEW w \in Seq(S), NEW sep \in S,
           \A i \in 1..Len(w) : w[i] # sep
    PROVE  /\ SplitLen(o, sep) \in Seq(Seq(S))
           /\ SplitLen(Append(o, sep) \o w, sep) = Append(SplitLen(o, sep), w)
  <1>1. /\ SplitLen(Append(o, sep) \o w, sep) = Pieces(o, sep) \o Pieces(w, sep)
        /\ Pieces(o, sep) \in Seq(Seq(S))
    BY PiecesJoined
  <1>2. Pieces(o, sep) = SplitLen(o, sep)
    BY DEF Pieces
  <1>3. Pieces(w, sep) = <<w>>
    BY SplitOne DEF Pieces
  <1> DEFINE t == SplitLen(o, sep)
             Q == Seq(S)
  <1>4. t \in Seq(Q) /\ w \in Q
    BY <1>1, <1>2
  <1> HIDE DEF t, Q
  <1>5. Append(t, w) = t \o <<w>>
    BY <1>4, AppendIsConcat
  <1>. QED  BY <1>1, <1>2, <1>3, <1>5 DEF t

-----------------------------------------------------------------------------
(* The option lines and what the arguments mean, argument by argument.     *)

\* The lines of o are what g says, one for each of its directives.
Match(o, g) ==
    /\ o \in Seq(Bytes) /\ g \in Seq(Seq(Seq(Bytes)))
    /\ o = <<>> <=> g = <<>>
    /\ SplitLen(o, "nl") \in Seq(Seq(Bytes)) /\ Len(SplitLen(o, "nl")) = Len(g)
    /\ \A i \in 1..Len(g) : LineOf(SplitLen(o, "nl")[i], g[i])

LEMMA MatchStart == Match(<<>>, <<>>)
  <1>1. SplitLen(<<>>, "nl") = <<>>
    BY DEF SplitLen
  <1> DEFINE e == <<>>
  <1>2. e \in Seq(Bytes) /\ e \in Seq(Seq(Bytes)) /\ e \in Seq(Seq(Seq(Bytes)))
    BY EmptySeq
  <1>3. Len(e) = 0
    BY EmptySeq
  <1>4. \A i \in 1..0 : FALSE
    OBVIOUS
  <1>5. SplitLen(e, "nl") = e
    BY <1>1
  <1> HIDE DEF e
  <1>6. e = <<>> <=> e = <<>>
    OBVIOUS
  <1>7. \A i \in 1..Len(e) : LineOf(SplitLen(e, "nl")[i], e[i])
    BY <1>3, <1>4
  <1>8. Match(e, e)
    BY <1>2, <1>3, <1>5, <1>6, <1>7 DEF Match
  <1>. QED  BY <1>8 DEF e

\* A line and the blank behind it.
LEMMA LineBlank ==
    ASSUME NEW w, IsLine(w), NEW g, Reads(w, g), g # <<>>
    PROVE  LET x == Append(w, "sp")
           IN  /\ x = w \o <<"sp">> /\ x \in Seq(Bytes) /\ x # <<>>
               /\ \A i \in 1..Len(x) : x[i] # "nl"
               /\ LineOf(x, g)
  <1> DEFINE x == Append(w, "sp")
  <1>1. w \in Seq(Bytes) /\ \A i \in 1..Len(w) : w[i] # "nl"
    BY DEF IsLine
  <1>2. "sp" \in Bytes /\ <<"sp">> \in Seq(Bytes)
    BY DEF Bytes, Marks
  <1>3. x = w \o <<"sp">>
    BY <1>1, <1>2, AppendIsConcat
  <1>4. LineOf(x, g)
    BY DEF LineOf
  <1>5. /\ x \in Seq(Bytes) /\ Len(w) \in Nat /\ Len(x) = Len(w) + 1
        /\ \A i \in 1..Len(w) : x[i] = w[i]
        /\ x[Len(w) + 1] = "sp"
    BY <1>1, <1>2, AppendProperties, LenProperties
  <1> HIDE DEF x
  <1>6. \A i \in 1..Len(x) : x[i] # "nl"
    <2> SUFFICES ASSUME NEW i \in 1..Len(x) PROVE x[i] # "nl"
      OBVIOUS
    <2>1. i \in 1..Len(w) \/ i = Len(w) + 1
      BY <1>5
    <2>. QED  BY <1>1, <1>5, <2>1
  <1>7. x # <<>>
    <2>1. Len(x) # 0
      BY <1>5
    <2>. QED  BY <1>5, <2>1, EmptySeq
  <1>. QED  BY <1>3, <1>4, <1>5, <1>6, <1>7 DEF x

\* A line more.
LEMMA MatchNew ==
    ASSUME NEW o, NEW g, Match(o, g), o # <<>>, NEW w, IsLine(w), NEW k \in Seq(Seq(Bytes)),
           Reads(w, k), k # <<>>
    PROVE  Match((Append(o, "nl") \o w) \o <<"sp">>, Append(g, k))
  <1> DEFINE x == Append(w, "sp")
             y == Append(o, "nl")
             z == y \o x
             h == Append(g, k)
             t == SplitLen(o, "nl")
  <1>1. /\ o \in Seq(Bytes) /\ g \in Seq(Seq(Seq(Bytes)))
        /\ t \in Seq(Seq(Bytes)) /\ Len(t) = Len(g)
        /\ \A i \in 1..Len(g) : LineOf(t[i], g[i])
    BY DEF Match
  <1>2. /\ x = w \o <<"sp">> /\ x \in Seq(Bytes) /\ x # <<>>
        /\ \A i \in 1..Len(x) : x[i] # "nl"
        /\ LineOf(x, k)
    BY LineBlank
  <1>3. "nl" \in Bytes /\ "sp" \in Bytes /\ <<"sp">> \in Seq(Bytes) /\ w \in Seq(Bytes)
    BY DEF Bytes, Marks, IsLine
  <1>4. y \in Seq(Bytes) /\ Len(y) = Len(o) + 1 /\ Len(o) \in Nat
    BY <1>1, <1>3, AppendProperties, LenProperties
  <1>5. (y \o w) \o <<"sp">> = z
    <2> HIDE DEF y
    <2>1. (y \o w) \o <<"sp">> = y \o (w \o <<"sp">>)
      BY <1>3, <1>4, TextAssociative, Zenon
    <2>. QED  BY <1>2, <2>1
  <1>6. SplitLen(z, "nl") = Append(t, x)
    <2> HIDE DEF x
    <2>. QED  BY <1>1, <1>2, <1>3, SplitNewElement, ZenonT(30)
  <1>7. z \in Seq(Bytes) /\ Len(z) = Len(y) + Len(x) /\ Len(x) \in Nat
    <2> HIDE DEF x, y
    <2>. QED  BY <1>2, <1>4, ConcatIs
  <1> HIDE DEF x, y, z, t
  <1>8. z # <<>>
    <2>1. Len(z) # 0
      BY <1>4, <1>7
    <2>. QED  BY <1>7, <2>1, EmptySeq
  <1>9. /\ h \in Seq(Seq(Seq(Bytes))) /\ Len(g) \in Nat /\ Len(h) = Len(g) + 1
        /\ \A i \in 1..Len(g) : h[i] = g[i]
        /\ h[Len(g) + 1] = k
    BY <1>1, AppendProperties, LenProperties
  <1> DEFINE s == Append(t, x)
  <1>10. /\ s \in Seq(Seq(Bytes)) /\ Len(s) = Len(t) + 1
         /\ \A i \in 1..Len(t) : s[i] = t[i]
         /\ s[Len(t) + 1] = x
    BY <1>1, <1>2, AppendProperties
  <1> HIDE DEF h, s
  <1>11. ASSUME NEW i \in 1..Len(h) PROVE LineOf(s[i], h[i])
    <2>1. i \in 1..Len(g) \/ i = Len(g) + 1
      BY <1>9
    <2>2. CASE i \in 1..Len(g)
      <3>1. s[i] = t[i] /\ h[i] = g[i]
        BY <1>1, <1>9, <1>10, <2>2
      <3>. QED  BY <1>1, <2>2, <3>1
    <2>3. CASE i = Len(g) + 1
      <3>1. s[i] = x /\ h[i] = k
        BY <1>1, <1>9, <1>10, <2>3
      <3>. QED  BY <1>2, <3>1
    <2>. QED  BY <2>1, <2>2, <2>3
  <1>12. h # <<>>
    <2>1. Len(h) # 0
      BY <1>9
    <2>. QED  BY <1>9, <2>1, EmptySeq
  <1>13. SplitLen(z, "nl") = s /\ Len(s) = Len(h)
    BY <1>1, <1>6, <1>9, <1>10 DEF s
  <1>14. Match(z, h)
    BY <1>7, <1>8, <1>9, <1>10, <1>11, <1>12, <1>13 DEF Match
  <1>. QED  BY <1>5, <1>14 DEF h, y

\* The first line.
LEMMA MatchFirst ==
    ASSUME NEW w, IsLine(w), NEW k \in Seq(Seq(Bytes)), Reads(w, k), k # <<>>
    PROVE  Match((<<>> \o w) \o <<"sp">>, <<k>>)
  <1> DEFINE x == Append(w, "sp")
  <1>1. /\ x = w \o <<"sp">> /\ x \in Seq(Bytes) /\ x # <<>>
        /\ \A i \in 1..Len(x) : x[i] # "nl"
        /\ LineOf(x, k)
    BY LineBlank
  <1>2. <<>> \o w = w
    <2>1. w \in Seq(Bytes)
      BY DEF IsLine
    <2>. QED  BY <2>1, ConcatEmptySeq
  <1> HIDE DEF x
  <1>3. SplitLen(x, "nl") = <<x>>
    BY <1>1, SplitOne
  <1>4. /\ <<k>> \in Seq(Seq(Seq(Bytes))) /\ Len(<<k>>) = 1 /\ <<k>>[1] = k /\ <<k>> # <<>>
        /\ <<x>> \in Seq(Seq(Bytes)) /\ Len(<<x>>) = 1 /\ <<x>>[1] = x
    BY <1>1
  <1>5. \A i \in 1..1 : i = 1
    OBVIOUS
  <1>6. Match(x, <<k>>)
    BY <1>1, <1>3, <1>4, <1>5 DEF Match
  <1>. QED  BY <1>1, <1>2, <1>6

\* An argument more on the last line.
LEMMA MatchMore ==
    ASSUME NEW o, NEW g, Match(o, g), o # <<>>, NEW w, IsLine(w), NEW a \in Seq(Bytes),
           Reads(w, <<a>>)
    PROVE  Match((o \o w) \o <<"sp">>, [g EXCEPT ![Len(g)] = Append(@, a)])
  <1> DEFINE x == Append(w, "sp")
             z == o \o x
             n == Len(g)
             h == [g EXCEPT ![n] = Append(@, a)]
  <1>1. /\ o \in Seq(Bytes) /\ g \in Seq(Seq(Seq(Bytes))) /\ g # <<>>
        /\ SplitLen(o, "nl") \in Seq(Seq(Bytes)) /\ Len(SplitLen(o, "nl")) = n
        /\ \A i \in 1..n : LineOf(SplitLen(o, "nl")[i], g[i])
    BY DEF Match
  <1>2. /\ x = w \o <<"sp">> /\ x \in Seq(Bytes) /\ x # <<>>
        /\ \A i \in 1..Len(x) : x[i] # "nl"
    <2>1. <<a>> # <<>>
      OBVIOUS
    <2>. QED  BY <2>1, LineBlank
  <1>3. "sp" \in Bytes /\ <<"sp">> \in Seq(Bytes) /\ w \in Seq(Bytes) /\ w # <<>>
    BY DEF Bytes, Marks, IsLine
  <1>4. (o \o w) \o <<"sp">> = z
    <2>1. (o \o w) \o <<"sp">> = o \o (w \o <<"sp">>)
      BY <1>1, <1>3, TextAssociative, Zenon
    <2>. QED  BY <1>2, <2>1
  <1> HIDE DEF x
  <1>5. PICK t \in Seq(Seq(Bytes)), u \in Seq(Bytes) :
            SplitLen(o, "nl") = Append(t, u) /\ SplitLen(z, "nl") = Append(t, u \o x)
    <2>1. o \in Seq(Bytes) /\ x \in Seq(Bytes) /\ \A i \in 1..Len(x) : x[i] # "nl"
      BY <1>1, <1>2
    <2>2. Extends(Bytes, o, x, "nl")
      BY <2>1, SplitExtend
    <2>. QED  BY <2>2 DEF Extends
  <1>6. z \in Seq(Bytes) /\ Len(z) = Len(o) + Len(x) /\ Len(x) \in Nat /\ Len(o) \in Nat
    BY <1>1, <1>2, ConcatIs
  <1>7. u \o x \in Seq(Bytes)
    BY <1>2, ConcatIs
  <1> HIDE DEF z
  <1>8. z # <<>>
    <2>1. Len(o) # 0
      BY <1>1, EmptySeq
    <2>2. Len(z) # 0
      BY <1>6, <2>1
    <2>. QED  BY <1>6, <2>2, EmptySeq
  <1> DEFINE so == Append(t, u)
             sz == Append(t, u \o x)
  <1>9. /\ Len(t) \in Nat /\ Len(so) = Len(t) + 1
        /\ \A i \in 1..Len(t) : so[i] = t[i]
        /\ so[Len(t) + 1] = u
    BY AppendProperties, LenProperties
  <1>10. /\ sz \in Seq(Seq(Bytes)) /\ Len(sz) = Len(t) + 1
         /\ \A i \in 1..Len(t) : sz[i] = t[i]
         /\ sz[Len(t) + 1] = u \o x
    BY <1>7, AppendProperties
  <1> HIDE DEF so, sz
  <1>11. n = Len(t) + 1 /\ n \in Nat \ {0} /\ n \in 1..n
    BY <1>1, <1>5, <1>9 DEF so
  <1>12. \A i \in 1..n : LineOf(so[i], g[i])
    BY <1>1, <1>5 DEF so
  <1>13. g[n] \in Seq(Seq(Bytes)) /\ DOMAIN g = 1..n
    BY <1>1, <1>11, LenProperties
  <1> DEFINE k == Append(g[n], a)
  <1>14. k \in Seq(Seq(Bytes)) /\ k = g[n] \o <<a>> /\ k # <<>>
    <2>1. k \in Seq(Seq(Bytes)) /\ k = g[n] \o <<a>>
      BY <1>13, AppendIsConcat, AppendProperties
    <2>2. Len(k) = Len(g[n]) + 1 /\ Len(g[n]) \in Nat
      BY <1>13, AppendProperties, LenProperties
    <2> HIDE DEF k
    <2>3. Len(k) # 0
      BY <2>2
    <2>. QED  BY <2>1, <2>3, EmptySeq
  <1>15. LineOf(u \o x, k)
    <2>1. LineOf(u, g[n])
      BY <1>9, <1>11, <1>12
    <2>2. PICK l : u = Append(l, "sp") /\ IsLine(l) /\ Reads(l, g[n])
      BY <2>1 DEF LineOf
    <2> DEFINE m == (l \o <<"sp">>) \o w
    <2>3. l \in Seq(Bytes) /\ l # <<>>
      BY <2>2 DEF IsLine
    <2>4. u = l \o <<"sp">>
      BY <1>3, <2>2, <2>3, AppendIsConcat
    <2>5. IsLine(m)
      BY <2>2, JoinedLine
    <2>6. Reads(m, g[n] \o <<a>>)
      <3>1. <<a>> \in Seq(Seq(Bytes))
        OBVIOUS
      <3>. QED  BY <1>3, <1>13, <2>2, <2>3, <3>1, ReadsMore
    <2>7. m \in Seq(Bytes)
      BY <2>5 DEF IsLine
    <2>8. Append(m, "sp") = m \o <<"sp">>
      <3> HIDE DEF m
      <3>. QED  BY <1>3, <2>7, AppendIsConcat
    <2>9. (u \o w) \o <<"sp">> = u \o (w \o <<"sp">>)
      BY <1>3, TextAssociative, Zenon
    <2>10. u \o x = Append(m, "sp")
      BY <1>2, <2>4, <2>8, <2>9
    <2> HIDE DEF m
    <2>. QED  BY <1>14, <2>5, <2>6, <2>10 DEF LineOf
  <1> HIDE DEF k, n
  <1>16. h = [i \in 1..n |-> IF i = n THEN k ELSE g[i]]
    BY <1>13 DEF k
  <1>17. \A i \in 1..n : g[i] \in Seq(Seq(Bytes))
    BY <1>1, LenProperties DEF n
  <1>18. /\ h \in Seq(Seq(Seq(Bytes))) /\ Len(h) = n
         /\ \A i \in 1..n : h[i] = IF i = n THEN k ELSE g[i]
    <2>1. h \in [1..n -> Seq(Seq(Bytes))]
      BY <1>14, <1>16, <1>17
    <2> HIDE DEF h
    <2>2. h \in Seq(Seq(Seq(Bytes))) /\ Len(h) = n
      BY <1>11, <2>1, FunctionIsSeq
    <2>. QED  BY <1>16, <2>2
  <1> HIDE DEF h
  <1>19. ASSUME NEW i \in 1..n PROVE LineOf(sz[i], h[i])
    <2>1. CASE i = n
      BY <1>10, <1>11, <1>15, <1>18, <2>1
    <2>2. CASE i # n
      <3>1. i \in 1..Len(t)
        BY <1>9, <1>11, <2>2
      <3>2. sz[i] = so[i] /\ h[i] = g[i]
        BY <1>9, <1>10, <1>18, <2>2, <3>1
      <3>. QED  BY <1>12, <3>2
    <2>. QED  BY <2>1, <2>2
  <1>20. h # <<>>
    BY <1>11, <1>18, EmptySeq
  <1>21. SplitLen(z, "nl") = sz /\ Len(sz) = Len(h)
    BY <1>5, <1>10, <1>11, <1>18 DEF sz
  <1>22. Match(z, h)
    BY <1>6, <1>8, <1>10, <1>18, <1>19, <1>20, <1>21 DEF Match
  <1>. QED  BY <1>4, <1>22 DEF h, n

LEMMA MatchStep ==
    ASSUME NEW o, NEW g, Match(o, g), NEW a \in Argument
    PROVE  Match(AddOption(o, a), AddMeant(g, a))
  <1>1. a \in Seq(Bytes) /\ (IsName(a) => IsPlain(SubSeq(a, 3, Len(a))))
    BY DEF Argument
  <1>2. o = <<>> <=> g = <<>>
    BY DEF Match
  <1>3. CASE IsName(a)
    <2> DEFINE w == SubSeq(a, 3, Len(a))
    <2>1. IsLine(w) /\ Reads(w, <<w>>) /\ w \in Seq(Bytes)
      <3>1. IsPlain(w)
        BY <1>1, <1>3
      <3>. QED  BY <3>1, BareLine, ReadsBare DEF IsPlain
    <2>2. <<w>> \in Seq(Seq(Bytes)) /\ <<w>> # <<>>
      BY <2>1
    <2>3. AddMeant(g, a) = Append(g, <<w>>)
      BY <1>3 DEF AddMeant
    <2>4. AddOption(o, a) = ((IF o = <<>> THEN o ELSE Append(o, "nl")) \o w) \o <<"sp">>
      BY <1>3 DEF AddOption
    <2> HIDE DEF w
    <2>5. CASE o = <<>>
      <3>1. Match((<<>> \o w) \o <<"sp">>, <<<<w>>>>)
        BY <2>1, <2>2, MatchFirst
      <3>2. Append(g, <<w>>) = <<<<w>>>>
        BY <1>2, <2>5
      <3>. QED  BY <2>3, <2>4, <2>5, <3>1, <3>2
    <2>6. CASE o # <<>>
      <3>1. Match((Append(o, "nl") \o w) \o <<"sp">>, Append(g, <<w>>))
        BY <2>1, <2>2, <2>6, MatchNew
      <3>. QED  BY <2>3, <2>4, <2>6, <3>1
    <2>. QED  BY <2>5, <2>6
  <1>4. CASE ~IsName(a)
    <2> DEFINE w == CatRepr(a)
    <2>1. IsLine(w) /\ Reads(w, <<a>>) /\ <<a>> \in Seq(Seq(Bytes)) /\ <<a>> # <<>>
      BY <1>1, QuotedLine, ReadsQuoted
    <2>2. AddOption(o, a) = (o \o w) \o <<"sp">>
      BY <1>4 DEF AddOption
    <2> HIDE DEF w
    <2>3. CASE g = <<>>
      <3>1. Match((<<>> \o w) \o <<"sp">>, <<<<a>>>>)
        BY <2>1, MatchFirst
      <3>2. AddMeant(g, a) = <<<<a>>>>
        BY <1>4, <2>3 DEF AddMeant
      <3>. QED  BY <1>2, <2>2, <2>3, <3>1, <3>2
    <2>4. CASE g # <<>>
      <3>1. Match((o \o w) \o <<"sp">>, [g EXCEPT ![Len(g)] = Append(@, a)])
        BY <1>1, <1>2, <2>1, <2>4, MatchMore
      <3>2. AddMeant(g, a) = [g EXCEPT ![Len(g)] = Append(@, a)]
        BY <1>4, <2>4 DEF AddMeant
      <3>. QED  BY <2>2, <3>1, <3>2
    <2>. QED  BY <2>3, <2>4
  <1>. QED  BY <1>3, <1>4

LEMMA MatchAll ==
    ASSUME NEW a \in Seq(Argument)
    PROVE  Match(Options(a), Meant(a))
  <1> DEFINE N == Len(a)
  <1>1. N \in Nat /\ \A i \in 1..N : a[i] \in Argument
    BY LenProperties
  <1>2. PICK f : /\ f[0] = <<>>
                 /\ \A i \in 1..N : f[i] = AddOption(f[i - 1], a[i])
                 /\ Options(a) = f[N]
    BY <1>1, OptionsMadeLoop
  <1>3. PICK g : /\ g[0] = <<>>
                 /\ \A i \in 1..N : g[i] = AddMeant(g[i - 1], a[i])
                 /\ Meant(a) = g[N]
    BY <1>1, MeantMadeLoop
  <1> DEFINE T == {n \in 0..N : Match(f[n], g[n])}
  <1> HIDE DEF N
  <1>4. 0 \in T
    <2>1. 0 \in 0..N
      BY <1>1
    <2>. QED  BY <1>2, <1>3, <2>1, MatchStart
  <1>5. ASSUME NEW n \in 1..N, n - 1 \in T PROVE n \in T
    <2>1. Match(f[n - 1], g[n - 1]) /\ a[n] \in Argument
      BY <1>1, <1>5
    <2>2. Match(AddOption(f[n - 1], a[n]), AddMeant(g[n - 1], a[n]))
      BY <2>1, MatchStep
    <2>3. n \in 0..N
      BY <1>1
    <2>. QED  BY <1>2, <1>3, <2>2, <2>3
  <1>6. N \in T
    <2>1. N \in 0..N
      BY <1>1
    <2> HIDE DEF T
    <2>. QED  BY <1>1, <1>4, <1>5, <2>1, UpTo
  <1>. QED  BY <1>2, <1>3, <1>6

LEMMA MatchReads ==
    ASSUME NEW o, NEW g, Match(o, g)
    PROVE  LET text == SplitLen(o, "nl")
           IN  [i \in DOMAIN text |-> SplitArgs(Trim(text[i], Blank)).argv] = g
  <1> DEFINE text == SplitLen(o, "nl")
             h == [i \in DOMAIN text |-> SplitArgs(Trim(text[i], Blank)).argv]
  <1>1. /\ g \in Seq(Seq(Seq(Bytes))) /\ text \in Seq(Seq(Bytes)) /\ Len(text) = Len(g)
        /\ \A i \in 1..Len(g) : LineOf(text[i], g[i])
    BY DEF Match
  <1> HIDE DEF text
  <1>2. Len(g) \in Nat /\ DOMAIN text = 1..Len(g) /\ \A i \in 1..Len(g) : g[i] \in Seq(Seq(Bytes))
    BY <1>1, LenProperties
  <1>3. \A i \in 1..Len(g) : SplitArgs(Trim(text[i], Blank)).argv = g[i]
    BY <1>1, <1>2, LineReads
  <1>4. h = [i \in 1..Len(g) |-> g[i]]
    BY <1>2, <1>3
  <1>5. g = [i \in 1..Len(g) |-> g[i]]
    BY <1>1, LenProperties
  <1>. QED  BY <1>4, <1>5 DEF text

-----------------------------------------------------------------------------
(* What the lines of the whole configuration mean (LastLineWins).          *)

LineStep(p, x) == p \o LineMeans(Trim(x, Blank))

\* What the lines mean after n of them.
LinesMade(f, a, n) ==
    f = [i \in 0..n |-> IF i = 0 THEN <<>>
                        ELSE LineStep(f[i - 1], a[i])]

LEMMA LinesMadeLoop ==
    ASSUME NEW a, Len(a) \in Nat
    PROVE  \E f : /\ f[0] = <<>>
                  /\ \A i \in 1..Len(a) : f[i] = LineStep(f[i - 1], a[i])
                  /\ LinesMean(a) = f[Len(a)]
  <1> DEFINE N == Len(a)
             T == {n \in 0..N : \E f : LinesMade(f, a, n)}
             made == CHOOSE f : LinesMade(f, a, N)
  <1>1. 0 \in T
    <2>1. LinesMade([i \in 0..0 |-> <<>>], a, 0)
      BY DEF LinesMade
    <2>. QED  BY <2>1
  <1>2. ASSUME NEW n \in 1..N, n - 1 \in T PROVE n \in T
    <2>1. PICK f : LinesMade(f, a, n - 1)
      BY <1>2
    <2> DEFINE g == [i \in 0..n |-> IF i = n THEN LineStep(f[n - 1], a[n]) ELSE f[i]]
               h == [i \in 0..n |-> IF i = 0 THEN <<>>
                                    ELSE LineStep(g[i - 1], a[i])]
    <2>2. \A i \in 0..(n - 1) : f[i] = IF i = 0 THEN <<>>
                                       ELSE LineStep(f[i - 1], a[i])
      BY <2>1 DEF LinesMade
    <2>3. \A i \in 0..n : g[i] = h[i]
      BY <2>2
    <2>4. g = [i \in 0..n |-> g[i]] /\ h = [i \in 0..n |-> h[i]]
      OBVIOUS
    <2>5. g = h
      <3> HIDE DEF g, h
      <3>. QED  BY <2>3, <2>4
    <2>6. LinesMade(g, a, n)
      <3> HIDE DEF g
      <3>. QED  BY <2>5 DEF LinesMade
    <2>. QED  BY <2>6
  <1>3. N \in Nat /\ N \in 0..N
    OBVIOUS
  <1>4. N \in T
    <2> HIDE DEF T, N
    <2>. QED  BY <1>1, <1>2, <1>3, UpTo
  <1>5. LinesMade(made, a, N)
    BY <1>4
  <1>6. LinesMean(a) = made[N]
    BY DEF LinesMean, LineStep, LinesMade
  <1> HIDE DEF made
  <1>7. made[0] = <<>>
    BY <1>3, <1>5 DEF LinesMade
  <1>8. \A i \in 1..N : made[i] = LineStep(made[i - 1], a[i])
    BY <1>3, <1>5 DEF LinesMade
  <1>. QED  BY <1>6, <1>7, <1>8

\* The directives a line can mean.
Directives == {SplitArgs(Trim(x, Blank)).argv : x \in Seq(Bytes)} \cup {Unreadable}

LEMMA LineMeansIs ==
    ASSUME NEW x \in Seq(Bytes)
    PROVE  LineMeans(Trim(x, Blank)) \in Seq(Directives)
  <1> DEFINE d == SplitArgs(Trim(x, Blank)).argv
  <1>1. d \in Directives /\ Unreadable \in Directives
    BY DEF Directives
  <1> HIDE DEF d
  <1>2. <<>> \in Seq(Directives) /\ <<d>> \in Seq(Directives) /\ <<Unreadable>> \in Seq(Directives)
    BY <1>1
  <1>3. LineMeans(Trim(x, Blank)) \in {<<>>, <<d>>, <<Unreadable>>}
    BY DEF LineMeans, d
  <1>. QED  BY <1>2, <1>3

\* The loop over the lines ls.
LinesLoop(f, ls) ==
    /\ f[0] = <<>>
    /\ \A i \in 1..Len(ls) : f[i] = LineStep(f[i - 1], ls[i])
    /\ LinesMean(ls) = f[Len(ls)]

LEMMA LinesAre ==
    ASSUME NEW ls \in Seq(Seq(Bytes))
    PROVE  \E f : LinesLoop(f, ls) /\ \A n \in 0..Len(ls) : f[n] \in Seq(Directives)
  <1>1. Len(ls) \in Nat /\ \A i \in 1..Len(ls) : ls[i] \in Seq(Bytes)
    BY LenProperties
  <1>2. PICK f : LinesLoop(f, ls)
    BY <1>1, LinesMadeLoop DEF LinesLoop
  <1> DEFINE N == Len(ls)
             T == {n \in 0..N : f[n] \in Seq(Directives)}
  <1>3. 0 \in T
    <2>1. 0 \in 0..N /\ f[0] = <<>> /\ <<>> \in Seq(Directives)
      BY <1>1, <1>2 DEF LinesLoop
    <2>. QED  BY <2>1
  <1>4. ASSUME NEW n \in 1..N, n - 1 \in T PROVE n \in T
    <2> DEFINE m == LineMeans(Trim(ls[n], Blank))
    <2>1. f[n] = f[n - 1] \o m
      BY <1>2 DEF LinesLoop, LineStep
    <2>2. m \in Seq(Directives) /\ f[n - 1] \in Seq(Directives)
      BY <1>1, <1>4, LineMeansIs
    <2> HIDE DEF m
    <2>3. f[n - 1] \o m \in Seq(Directives)
      BY <2>2, ConcatIs
    <2>4. n \in 0..N
      BY <1>1
    <2>. QED  BY <2>1, <2>3, <2>4
  <1>5. \A n \in 0..N : n \in T
    <2> HIDE DEF T
    <2>. QED  BY <1>1, <1>3, <1>4, UpTo
  <1>. QED  BY <1>2, <1>5

\* What lines mean is what each part of them means.
LEMMA LinesJoined ==
    ASSUME NEW a \in Seq(Seq(Bytes)), NEW b \in Seq(Seq(Bytes))
    PROVE  /\ LinesMean(a \o b) = LinesMean(a) \o LinesMean(b)
           /\ LinesMean(a) \in Seq(Directives) /\ LinesMean(b) \in Seq(Directives)
  <1> DEFINE x == a \o b
             n == Len(a)
             N == Len(b)
  <1>1. /\ x \in Seq(Seq(Bytes)) /\ n \in Nat /\ N \in Nat /\ Len(x) = n + N
        /\ \A i \in 1..n : x[i] = a[i]
        /\ \A i \in 1..N : x[n + i] = b[i]
    BY ConcatIs
  <1>2. PICK e : LinesLoop(e, a) /\ \A i \in 0..n : e[i] \in Seq(Directives)
    BY LinesAre
  <1>3. PICK f : LinesLoop(f, b) /\ \A i \in 0..N : f[i] \in Seq(Directives)
    BY LinesAre
  <1> HIDE DEF x
  <1>4. PICK g : LinesLoop(g, x) /\ \A i \in 0..Len(x) : g[i] \in Seq(Directives)
    BY <1>1, LinesAre
  <1> HIDE DEF n, N
  <1>5. /\ e[0] = <<>> /\ f[0] = <<>> /\ g[0] = <<>>
        /\ \A i \in 1..n : e[i] = LineStep(e[i - 1], a[i])
        /\ \A i \in 1..N : f[i] = LineStep(f[i - 1], b[i])
        /\ \A i \in 1..Len(x) : g[i] = LineStep(g[i - 1], x[i])
        /\ LinesMean(a) = e[n] /\ LinesMean(b) = f[N] /\ LinesMean(x) = g[Len(x)]
    BY <1>2, <1>3, <1>4 DEF LinesLoop, n, N
  <1>6. e[n] \in Seq(Directives) /\ f[N] \in Seq(Directives)
    BY <1>1, <1>2, <1>3
  <1>7. g[n] = e[n]
    <2> DEFINE T == {i \in 0..n : g[i] = e[i]}
    <2>1. 0 \in T
      BY <1>1, <1>5
    <2>2. ASSUME NEW i \in 1..n, i - 1 \in T PROVE i \in T
      <3>1. i \in 0..n /\ i \in 1..Len(x)
        BY <1>1
      <3>2. x[i] = a[i] /\ g[i - 1] = e[i - 1]
        BY <1>1, <2>2
      <3>. QED  BY <1>5, <3>1, <3>2
    <2>3. n \in 0..n
      BY <1>1
    <2>4. n \in T
      <3> HIDE DEF T
      <3>. QED  BY <1>1, <2>1, <2>2, <2>3, UpTo
    <2>. QED  BY <2>4
  <1>8. g[n + N] = e[n] \o f[N]
    <2> DEFINE p == e[n]
               T == {i \in 0..N : g[n + i] = p \o f[i]}
    <2>0. p \in Seq(Directives) /\ g[n] = p
      BY <1>6, <1>7
    <2> HIDE DEF p
    <2>1. 0 \in T
      <3>1. n + 0 = n /\ 0 \in 0..N
        BY <1>1
      <3>2. p \o <<>> = p
        BY <2>0, ConcatEmptySeq
      <3>. QED  BY <1>5, <2>0, <3>1, <3>2
    <2>2. ASSUME NEW i \in 1..N, i - 1 \in T PROVE i \in T
      <3> DEFINE m == LineMeans(Trim(b[i], Blank))
                 q == f[i - 1]
      <3>1. i \in 0..N /\ n + i \in 1..Len(x) /\ (n + i) - 1 = n + (i - 1) /\ i - 1 \in 0..N
        BY <1>1
      <3>2. g[n + i] = LineStep(g[n + (i - 1)], b[i]) /\ g[n + (i - 1)] = p \o q
        BY <1>1, <1>5, <2>2, <3>1
      <3>3. g[n + i] = (p \o q) \o m
        BY <3>2, Zenon DEF LineStep
      <3>4. f[i] = q \o m
        BY <1>5 DEF LineStep
      <3>5. m \in Seq(Directives)
        <4>1. b[i] \in Seq(Bytes)
          BY LenProperties DEF N
        <4>. QED  BY <4>1, LineMeansIs
      <3>6. q \in Seq(Directives)
        BY <1>3, <3>1
      <3> HIDE DEF m, q
      <3>7. Regroups(p, q, m)
        BY <2>0, <3>5, <3>6, Regroup, Zenon
      <3>8. g[n + i] = p \o f[i]
        BY <3>3, <3>4, <3>7, Zenon DEF Regroups
      <3>. QED  BY <3>1, <3>8
    <2>3. N \in 0..N
      BY <1>1
    <2>4. N \in T
      <3> HIDE DEF T
      <3>. QED  BY <1>1, <2>1, <2>2, <2>3, UpTo
    <2>. QED  BY <2>4 DEF p
  <1>. QED  BY <1>1, <1>5, <1>6, <1>8 DEF x

\* One line.
LEMMA LinesOne ==
    ASSUME NEW x \in Seq(Bytes)
    PROVE  LinesMean(<<x>>) = LineMeans(Trim(x, Blank))
  <1>1. <<x>> \in Seq(Seq(Bytes)) /\ Len(<<x>>) = 1 /\ <<x>>[1] = x /\ 1 \in 1..1 /\ 1 - 1 = 0
    OBVIOUS
  <1>2. PICK f : LinesLoop(f, <<x>>)
    BY <1>1, LinesAre
  <1>3. LinesMean(<<x>>) = LineStep(<<>>, x)
    BY <1>1, <1>2 DEF LinesLoop
  <1>4. LineMeans(Trim(x, Blank)) \in Seq(Directives)
    BY LineMeansIs
  <1>5. <<>> \o LineMeans(Trim(x, Blank)) = LineMeans(Trim(x, Blank))
    BY <1>4, ConcatEmptySeq
  <1>. QED  BY <1>3, <1>5 DEF LineStep

\* A line more.
LEMMA LinesMore ==
    ASSUME NEW ls \in Seq(Seq(Bytes)), NEW n \in 1..Len(ls)
    PROVE  LET a == LinesMean(SubSeq(ls, 1, n - 1))
               m == LineMeans(Trim(ls[n], Blank))
           IN  /\ LinesMean(SubSeq(ls, 1, n)) = a \o m
               /\ a \in Seq(Directives) /\ m \in Seq(Directives)
  <1> DEFINE h == SubSeq(ls, 1, n - 1)
             x == ls[n]
  <1>1. n - 1 \in 0..Len(ls) /\ Len(ls) \in Nat
    BY LenProperties
  <1>2. h \in Seq(Seq(Bytes)) /\ SubSeq(ls, 1, n) = Append(h, x)
    BY <1>1, SubSeqGrows
  <1>3. x \in Seq(Bytes)
    BY LenProperties
  <1> HIDE DEF h, x
  <1>4. Append(h, x) = h \o <<x>> /\ <<x>> \in Seq(Seq(Bytes))
    BY <1>2, <1>3, AppendIsConcat
  <1>5. /\ LinesMean(h \o <<x>>) = LinesMean(h) \o LinesMean(<<x>>)
        /\ LinesMean(h) \in Seq(Directives) /\ LinesMean(<<x>>) \in Seq(Directives)
    BY <1>2, <1>4, LinesJoined
  <1>6. LinesMean(<<x>>) = LineMeans(Trim(x, Blank))
    BY <1>3, LinesOne
  <1>. QED  BY <1>2, <1>4, <1>5, <1>6 DEF h, x

LEMMA LinesNone == LinesMean(<<>>) = <<>>
  <1>1. <<>> \in Seq(Seq(Bytes)) /\ Len(<<>>) = 0
    BY EmptySeq
  <1>2. PICK f : LinesLoop(f, <<>>)
    BY <1>1, LinesAre
  <1>. QED  BY <1>1, <1>2 DEF LinesLoop

\* The empty line that Pieces adds means nothing.
LEMMA PiecesMean ==
    ASSUME NEW s
    PROVE  LinesMean(Pieces(s, "nl")) = LinesMean(SplitLen(s, "nl"))
  <1>1. CASE s # <<>>
    BY <1>1 DEF Pieces
  <1>2. CASE s = <<>>
    <2>1. Trim(<<>>, Blank) = <<>>
      <3>1. Len(<<>>) = 0 /\ 1..0 = {}
        BY EmptySeq
      <3>. QED  BY <3>1 DEF Trim
    <2>2. LineMeans(<<>>) = <<>>
      BY DEF LineMeans, IsSkipped
    <2>3. <<>> \in Seq(Bytes)
      BY EmptySeq
    <2>4. LinesMean(<<<<>>>>) = <<>>
      BY <2>1, <2>2, <2>3, LinesOne
    <2>5. Pieces(s, "nl") = <<<<>>>> /\ SplitLen(s, "nl") = <<>>
      BY <1>2 DEF Pieces, SplitLen
    <2>. QED  BY <2>4, <2>5, LinesNone
  <1>. QED  BY <1>1, <1>2

\* The lines of the options mean what the arguments mean.
LEMMA MatchMeans ==
    ASSUME NEW o, NEW g, Match(o, g)
    PROVE  LinesMean(SplitLen(o, "nl")) = g
  <1> DEFINE text == SplitLen(o, "nl")
             N == Len(g)
  <1>1. /\ g \in Seq(Seq(Seq(Bytes))) /\ text \in Seq(Seq(Bytes)) /\ Len(text) = N
        /\ \A i \in 1..N : LineOf(text[i], g[i])
    BY DEF Match
  <1> HIDE DEF text
  <1>2. N \in Nat /\ \A i \in 1..N : g[i] \in Seq(Seq(Bytes))
    BY <1>1, LenProperties
  <1>3. ASSUME NEW i \in 1..N PROVE LineMeans(Trim(text[i], Blank)) = <<g[i]>>
    <2>1. /\ SplitArgs(Trim(text[i], Blank)) = [ok |-> TRUE, argv |-> g[i]]
          /\ ~IsSkipped(Trim(text[i], Blank))
      BY <1>1, <1>2, LineReads
    <2>2. [ok |-> TRUE, argv |-> g[i]].ok /\ [ok |-> TRUE, argv |-> g[i]].argv = g[i]
      OBVIOUS
    <2>. QED  BY <2>1, <2>2 DEF LineMeans
  <1>4. PICK f : LinesLoop(f, text)
    BY <1>1, LinesAre
  <1> DEFINE T == {n \in 0..N : f[n] = SubSeq(g, 1, n)}
  <1>5. /\ SubSeq(g, 1, 0) = <<>> /\ SubSeq(g, 1, N) = g
        /\ \A n \in 0..N : SubSeq(g, 1, n) \in Seq(Seq(Seq(Bytes)))
        /\ \A n \in 1..N : Append(SubSeq(g, 1, n - 1), g[n]) = SubSeq(g, 1, n)
    BY <1>1, SubSeqGrows
  <1> HIDE DEF N
  <1>6. 0 \in T
    <2>1. 0 \in 0..N
      BY <1>2
    <2>. QED  BY <1>4, <1>5, <2>1 DEF LinesLoop
  <1>7. ASSUME NEW n \in 1..N, n - 1 \in T PROVE n \in T
    <2> DEFINE h == SubSeq(g, 1, n - 1)
    <2>1. n \in 0..N /\ n - 1 \in 0..N
      BY <1>2
    <2>2. f[n] = f[n - 1] \o LineMeans(Trim(text[n], Blank)) /\ f[n - 1] = h
      BY <1>1, <1>4, <1>7 DEF LinesLoop, LineStep
    <2>3. Append(h, g[n]) = SubSeq(g, 1, n) /\ h \in Seq(Seq(Seq(Bytes)))
      BY <1>5, <2>1
    <2> HIDE DEF h
    <2>4. Append(h, g[n]) = h \o <<g[n]>>
      BY <1>2, <2>3, AppendIsConcat
    <2>5. f[n] = h \o <<g[n]>>
      BY <1>3, <2>2
    <2>. QED  BY <2>1, <2>3, <2>4, <2>5
  <1>8. N \in T
    <2>1. N \in 0..N
      BY <1>2
    <2> HIDE DEF T
    <2>. QED  BY <1>2, <1>6, <1>7, <2>1, UpTo
  <1>. QED  BY <1>1, <1>4, <1>5, <1>8 DEF LinesLoop, text

\* What load_server_config hands over means the file and then the arguments.
LEMMA LoadMeans ==
    ASSUME NEW f \in Files, NEW a \in ArgLists
    PROVE  LET ls == SplitLen(f.text \o <<"nl">> \o Options(a), "nl")
           IN  ls \in Seq(Seq(Bytes)) /\ LinesMean(ls) = f.means \o Meant(a)
  <1> DEFINE t == f.text
             o == Options(a)
             ls == SplitLen(Append(t, "nl") \o o, "nl")
  <1>1. t \in Seq(Bytes) /\ f.means = LinesMean(SplitLen(t, "nl"))
    BY FilesOfConfig
  <1>2. Match(o, Meant(a))
    BY ArgumentsOfConfig, MatchAll
  <1>3. o \in Seq(Bytes) /\ "nl" \in Bytes
    BY <1>2 DEF Match, Bytes, Marks
  <1> HIDE DEF t, o
  <1>4. /\ ls = Pieces(t, "nl") \o Pieces(o, "nl")
        /\ Pieces(t, "nl") \in Seq(Seq(Bytes)) /\ Pieces(o, "nl") \in Seq(Seq(Bytes))
    BY <1>1, <1>3, PiecesJoined
  <1> HIDE DEF ls
  <1>5. ls \in Seq(Seq(Bytes))
    BY <1>4, ConcatIs
  <1>6. LinesMean(ls) = LinesMean(Pieces(t, "nl")) \o LinesMean(Pieces(o, "nl"))
    BY <1>4, LinesJoined
  <1>7. LinesMean(Pieces(t, "nl")) = f.means /\ LinesMean(Pieces(o, "nl")) = Meant(a)
    BY <1>1, <1>2, PiecesMean, MatchMeans
  <1>8. Append(t, "nl") = t \o <<"nl">>
    BY <1>1, <1>3, AppendIsConcat
  <1>9. LinesMean(ls) = f.means \o Meant(a)
    BY <1>6, <1>7
  <1>. QED  BY <1>5, <1>8, <1>9 DEF ls, t, o

-----------------------------------------------------------------------------
(* What one directive does to the fields.                                  *)

Names == {"p", "l", "r", "x", "b"}

\* Whatever the fields are, it is rejected or sets the one it names to v.
Sets(d, n, v) ==
    ToLower(d[1]) = <<n>> /\ \A f : Execute(f, d) = Accept([f EXCEPT ![n] = v])

LEMMA ExecuteSets ==
    ASSUME NEW d
    PROVE  \/ \A f : Execute(f, d) = Rejected
           \/ \E n \in Names : \E v : Sets(d, n, v)
  <1> DEFINE name == ToLower(d[1])
             val == d[2]
             pair == Len(d) = 2
  <1>1. CASE pair /\ name = <<"p">>
    <2>1. Sets(d, "p", val)
      BY <1>1 DEF Sets, Execute
    <2>. QED  BY <2>1 DEF Names
  <1>2. CASE pair /\ name = <<"l">>
    <2>1. CASE val \in Unopenable
      <3>1. \A f : Execute(f, d) = Rejected
        BY <1>2, <2>1 DEF Execute
      <3>. QED  BY <3>1
    <2>2. CASE val \notin Unopenable
      <3>1. Sets(d, "l", val)
        BY <1>2, <2>2 DEF Sets, Execute
      <3>. QED  BY <3>1 DEF Names
    <2>. QED  BY <2>1, <2>2
  <1>3. CASE pair /\ name = <<"r">>
    <2> DEFINE v == YesNoToI(val)
    <2>1. CASE v = -1
      <3>1. \A f : Execute(f, d) = Rejected
        BY <1>3, <2>1 DEF Execute
      <3>. QED  BY <3>1
    <2>2. CASE v # -1
      <3>1. Sets(d, "r", v)
        BY <1>3, <2>2 DEF Sets, Execute
      <3>. QED  BY <3>1 DEF Names
    <2>. QED  BY <2>1, <2>2
  <1>4. CASE pair /\ name = <<"x">>
    <2> DEFINE v == Atoi(val)
    <2>1. CASE v \notin 0..MaxNumber
      <3>1. \A f : Execute(f, d) = Rejected
        BY <1>4, <2>1 DEF Execute
      <3>. QED  BY <3>1
    <2>2. CASE v \in 0..MaxNumber
      <3>1. Sets(d, "x", v)
        BY <1>4, <2>2 DEF Sets, Execute
      <3>. QED  BY <3>1 DEF Names
    <2>. QED  BY <2>1, <2>2
  <1>5. CASE Len(d) \in 2..(MaxBind + 1) /\ name = <<"b">>
    <2>1. Sets(d, "b", Tail(d))
      BY <1>5 DEF Sets, Execute
    <2>. QED  BY <2>1 DEF Names
  <1>6. CASE /\ ~(pair /\ name = <<"p">>) /\ ~(pair /\ name = <<"l">>)
             /\ ~(pair /\ name = <<"r">>) /\ ~(pair /\ name = <<"x">>)
             /\ ~(Len(d) \in 2..(MaxBind + 1) /\ name = <<"b">>)
    <2>1. \A f : Execute(f, d) = Rejected
      BY <1>6 DEF Execute
    <2>. QED  BY <2>1
  <1>. QED  BY <1>1, <1>2, <1>3, <1>4, <1>5, <1>6

\* A directive more.
LEMMA LastValueMore ==
    ASSUME NEW ds \in Seq(Directives), NEW d \in Directives, NEW n
    PROVE  LastValue(Append(ds, d), n) = IF ToLower(d[1]) = <<n>>
                                         THEN Execute(Defaults, d).fields[n]
                                         ELSE LastValue(ds, n)
  <1> DEFINE es == Append(ds, d)
             N == Len(ds)
             A == {i \in DOMAIN ds : ToLower(ds[i][1]) = <<n>>}
             B == {i \in DOMAIN es : ToLower(es[i][1]) = <<n>>}
  <1>1. /\ N \in Nat /\ DOMAIN ds = 1..N /\ DOMAIN es = 1..(N + 1)
        /\ \A i \in 1..N : es[i] = ds[i]
        /\ es[N + 1] = d
    <2>1. /\ es \in Seq(Directives) /\ Len(es) = N + 1
          /\ \A i \in 1..N : es[i] = ds[i]
          /\ es[N + 1] = d
      BY AppendProperties
    <2> HIDE DEF es
    <2>. QED  BY <2>1, LenProperties
  <1> HIDE DEF es, N
  <1>2. CASE ToLower(d[1]) = <<n>>
    <2>1. N + 1 \in B /\ \A i \in B : N + 1 >= i /\ i \in Int
      BY <1>1, <1>2
    <2> HIDE DEF B
    <2>2. Max(B) = N + 1
      <3>1. \A m \in B : (\A i \in B : m >= i) => m = N + 1
        BY <1>1, <2>1
      <3>. QED  BY <2>1, <3>1 DEF Max
    <2>3. LastValue(es, n) = Execute(Defaults, es[Max(B)]).fields[n]
      BY <2>1 DEF LastValue, B
    <2>. QED  BY <1>1, <1>2, <2>2, <2>3 DEF es
  <1>3. CASE ToLower(d[1]) # <<n>>
    <2>1. B = A
      <3>1. \A i \in 1..(N + 1) : i \in 1..N \/ i = N + 1
        BY <1>1
      <3>2. \A i \in 1..N : i \in 1..(N + 1)
        BY <1>1
      <3>. QED  BY <1>1, <1>3, <3>1, <3>2
    <2>2. CASE A = {}
      <3>1. LastValue(es, n) = Defaults[n] /\ LastValue(ds, n) = Defaults[n]
        BY <2>1, <2>2 DEF LastValue
      <3>. QED  BY <1>3, <3>1 DEF es
    <2>3. CASE A # {}
      <3>1. A \in SUBSET (1..N)
        BY <1>1
      <3>2. Max(A) \in A
        <4> HIDE DEF A
        <4>. QED  BY <1>1, <2>3, <3>1, Greatest
      <3>3. es[Max(A)] = ds[Max(A)]
        BY <1>1, <3>1, <3>2
      <3>4. LastValue(es, n) = Execute(Defaults, es[Max(A)]).fields[n]
        BY <2>1, <2>3 DEF LastValue
      <3>5. LastValue(ds, n) = Execute(Defaults, ds[Max(A)]).fields[n]
        BY <2>3 DEF LastValue
      <3>. QED  BY <1>3, <3>3, <3>4, <3>5 DEF es
    <2>. QED  BY <2>2, <2>3
  <1>. QED  BY <1>2, <1>3

\* The fields are what the valid directives ds make of the defaults.
FieldsHold(f, ds) ==
    /\ ds \in Seq(Directives)
    /\ DOMAIN f = Names
    /\ \A i \in DOMAIN ds : Valid(ds[i])
    /\ \A n \in Names : f[n] = LastValue(ds, n)

LEMMA DefaultsHold == FieldsHold(Defaults, <<>>)
  <1>1. <<>> \in Seq(Directives) /\ DOMAIN <<>> = {}
    BY EmptySeq
  <1>2. DOMAIN Defaults = Names
    BY DEF Defaults, Names
  <1>3. \A n \in Names : LastValue(<<>>, n) = Defaults[n]
    BY <1>1 DEF LastValue
  <1>. QED  BY <1>1, <1>2, <1>3 DEF FieldsHold

LEMMA SetsHold ==
    ASSUME NEW f, NEW ds, FieldsHold(f, ds), NEW d \in Directives, NEW k \in Names, NEW v, Sets(d, k, v)
    PROVE  FieldsHold(Execute(f, d).fields, Append(ds, d))
  <1> DEFINE g == [f EXCEPT ![k] = v]
             e == [Defaults EXCEPT ![k] = v]
             es == Append(ds, d)
  <1>1. /\ ds \in Seq(Directives) /\ DOMAIN f = Names
        /\ \A i \in DOMAIN ds : Valid(ds[i])
        /\ \A n \in Names : f[n] = LastValue(ds, n)
    BY DEF FieldsHold
  <1>2. DOMAIN Defaults = Names
    BY DEF Defaults, Names
  <1>3. DOMAIN g = Names /\ \A n \in Names : g[n] = IF n = k THEN v ELSE f[n]
    BY <1>1
  <1>4. e[k] = v
    BY <1>2
  <1> HIDE DEF g, e
  <1>5. /\ ToLower(d[1]) = <<k>>
        /\ Execute(f, d) = Accept(g) /\ Execute(Defaults, d) = Accept(e)
    BY DEF Sets, g, e
  <1>6. Accept(g).fields = g /\ Accept(e).fields = e /\ Accept(e).ok
    BY DEF Accept
  <1>7. /\ es \in Seq(Directives) /\ Len(ds) \in Nat /\ Len(es) = Len(ds) + 1
        /\ \A i \in 1..Len(ds) : es[i] = ds[i]
        /\ es[Len(ds) + 1] = d
        /\ DOMAIN ds = 1..Len(ds)
    BY <1>1, AppendProperties, LenProperties
  <1>8. \A n \in Names : LastValue(es, n) = IF n = k THEN v ELSE f[n]
    <2> SUFFICES ASSUME NEW n \in Names PROVE LastValue(es, n) = IF n = k THEN v ELSE f[n]
      OBVIOUS
    <2>1. LastValue(es, n) = IF ToLower(d[1]) = <<n>> THEN Execute(Defaults, d).fields[n]
                             ELSE LastValue(ds, n)
      BY <1>1, LastValueMore
    <2>2. <<k>> = <<n>> <=> k = n
      OBVIOUS
    <2>. QED  BY <1>1, <1>4, <1>5, <1>6, <2>1, <2>2
  <1> HIDE DEF es
  <1>9. \A i \in DOMAIN es : Valid(es[i])
    <2> SUFFICES ASSUME NEW i \in DOMAIN es PROVE Valid(es[i])
      OBVIOUS
    <2>1. i \in 1..Len(ds) \/ i = Len(ds) + 1
      BY <1>7, LenProperties
    <2>2. Valid(d)
      BY <1>5, <1>6 DEF Valid
    <2>. QED  BY <1>1, <1>7, <2>1, <2>2
  <1>. QED  BY <1>3, <1>5, <1>6, <1>7, <1>8, <1>9 DEF FieldsHold, es

\* An accepted directive counts from then on; one that is not is invalid.
LEMMA DirectiveHolds ==
    ASSUME NEW f, NEW ds, FieldsHold(f, ds), NEW d \in Directives
    PROVE  /\ Execute(f, d).ok => FieldsHold(Execute(f, d).fields, Append(ds, d))
           /\ ~Execute(f, d).ok => ~Valid(d)
  <1>1. CASE \A g : Execute(g, d) = Rejected
    <2>1. ~Rejected.ok
      BY DEF Rejected
    <2>. QED  BY <1>1, <2>1 DEF Valid
  <1>2. CASE \E k \in Names : \E v : Sets(d, k, v)
    <2>0. PICK k \in Names : \E v : Sets(d, k, v)
      BY <1>2
    <2>1. PICK v : Sets(d, k, v)
      BY <2>0
    <2>2. Execute(f, d).ok
      BY <2>1 DEF Sets, Accept
    <2>. QED  BY <2>1, <2>2, SetsHold
  <1>. QED  BY <1>1, <1>2, ExecuteSets

LEMMA UnreadableInvalid == ~Valid(Unreadable)
  <1>1. Len(Unreadable) = 1
    BY DEF Unreadable
  <1>2. Len(Unreadable) # 2 /\ Len(Unreadable) \notin 2..(MaxBind + 1)
    BY <1>1, LimitsOfConfig
  <1>3. Execute(Defaults, Unreadable) = Rejected
    BY <1>2 DEF Execute
  <1>4. ~Rejected.ok
    BY DEF Rejected
  <1>. QED  BY <1>3, <1>4 DEF Valid

\* The directives of the file and the arguments, and those of the lines done.
AllMeant == file.means \o Meant(args)
Done == LinesMean(SubSeq(lines, 1, linenum))

\* What the loop over the lines keeps: the lines mean what was given, the
\* fields hold what the lines done so far mean, and it ended early because of
\* a directive that is not valid.
Started == file \in Files /\ args \in ArgLists
SplitUp == lines \in Seq(Seq(Bytes)) /\ LinesMean(lines) = AllMeant /\ linenum \in 0..Len(lines)
Invalid == \E i \in DOMAIN AllMeant : ~Valid(AllMeant[i])

ConfigInv ==
    /\ Started /\ phase \in {"main", "lines", "loaded", "exited"}
    /\ phase = "main" => fields = Defaults /\ linenum = 0
    /\ phase # "main" => SplitUp
    /\ phase \in {"lines", "loaded"} => FieldsHold(fields, Done)
    /\ phase = "loaded" => linenum = Len(lines)
    /\ phase = "exited" => Invalid

LEMMA InitConfig == ConfigInit => ConfigInv
  BY DEF ConfigInit, ConfigInv, Started

LEMMA LoadConfig == ConfigInv /\ Load => ConfigInv'
  <1> SUFFICES ASSUME ConfigInv, Load PROVE ConfigInv'
    OBVIOUS
  <1>1. /\ Started /\ fields = Defaults /\ linenum = 0
        /\ lines' = SplitLen(file.text \o <<"nl">> \o Options(args), "nl")
        /\ phase' = "lines"
        /\ file' = file /\ args' = args /\ linenum' = linenum /\ fields' = fields
    BY DEF ConfigInv, Load
  <1>2. lines' \in Seq(Seq(Bytes)) /\ LinesMean(lines') = AllMeant
    BY <1>1, LoadMeans DEF Started, AllMeant
  <1>3. SplitUp'
    <2>1. 0 \in 0..Len(lines')
      BY <1>2, LenProperties
    <2>. QED  BY <1>1, <1>2, <2>1 DEF SplitUp, AllMeant
  <1>4. FieldsHold(fields, Done)'
    <2>1. SubSeq(lines', 1, 0) = <<>>
      BY <1>2, SubSeqGrows
    <2>2. Done' = <<>>
      BY <1>1, <2>1, LinesNone DEF Done
    <2>. QED  BY <1>1, <2>2, DefaultsHold
  <1>. QED  BY <1>1, <1>3, <1>4 DEF ConfigInv, Started

\* The line in hand, of which m is what it means, and its place.
LEMMA LineInHand ==
    ASSUME ConfigInv, More
    PROVE  LET m == LineMeans(Line)
           IN  /\ linenum + 1 \in 1..Len(lines)
               /\ LinesMean(SubSeq(lines, 1, linenum + 1)) = Done \o m
               /\ Done \in Seq(Directives) /\ m \in Seq(Directives)
               /\ FieldsHold(fields, Done) /\ SplitUp /\ Started /\ phase = "lines"
               /\ SplitArgs(Line).argv \in Directives
  <1> DEFINE n == linenum + 1
             m == LineMeans(Line)
  <1>1. /\ phase = "lines" /\ linenum < Len(lines) /\ Started /\ SplitUp /\ FieldsHold(fields, Done)
    BY DEF ConfigInv, More
  <1>2. lines \in Seq(Seq(Bytes)) /\ Len(lines) \in Nat /\ linenum \in Nat
    BY <1>1, LenProperties DEF SplitUp
  <1>3. n \in 1..Len(lines) /\ n - 1 = linenum
    BY <1>1, <1>2
  <1>4. m = LineMeans(Trim(lines[n], Blank)) /\ Line = Trim(lines[n], Blank)
    BY DEF Line
  <1>5. lines[n] \in Seq(Bytes)
    BY <1>2, <1>3, LenProperties
  <1> HIDE DEF n, m
  <1>6. /\ LinesMean(SubSeq(lines, 1, n)) = LinesMean(SubSeq(lines, 1, n - 1)) \o m
        /\ LinesMean(SubSeq(lines, 1, n - 1)) \in Seq(Directives) /\ m \in Seq(Directives)
    BY <1>2, <1>3, <1>4, LinesMore
  <1>7. SplitArgs(Line).argv \in Directives
    BY <1>4, <1>5 DEF Directives
  <1>. QED  BY <1>1, <1>3, <1>6, <1>7 DEF Done, n, m

LEMMA SkipConfig == ConfigInv /\ SkipLine => ConfigInv'
  <1> SUFFICES ASSUME ConfigInv, SkipLine PROVE ConfigInv'
    OBVIOUS
  <1>1. /\ More /\ IsSkipped(Line) /\ linenum' = linenum + 1
        /\ file' = file /\ args' = args /\ lines' = lines /\ fields' = fields /\ phase' = phase
    BY DEF SkipLine
  <1>2. /\ linenum + 1 \in 1..Len(lines)
        /\ LinesMean(SubSeq(lines, 1, linenum + 1)) = Done \o LineMeans(Line)
        /\ Done \in Seq(Directives)
        /\ FieldsHold(fields, Done) /\ SplitUp /\ Started /\ phase = "lines"
    BY <1>1, LineInHand
  <1>3. Done' = Done
    <2>1. LineMeans(Line) = <<>>
      BY <1>1 DEF LineMeans
    <2>2. Done \o <<>> = Done
      BY <1>2, ConcatEmptySeq
    <2>3. Done' = LinesMean(SubSeq(lines, 1, linenum + 1))
      BY <1>1 DEF Done
    <2>. QED  BY <1>2, <2>1, <2>2, <2>3
  <1>4. SplitUp'
    <2>1. linenum + 1 \in 0..Len(lines)
      BY <1>2
    <2>. QED  BY <1>1, <1>2, <2>1 DEF SplitUp, AllMeant
  <1>5. FieldsHold(fields', Done')
    BY <1>1, <1>2, <1>3
  <1>. QED  BY <1>1, <1>2, <1>4, <1>5 DEF ConfigInv, Started

LEMMA DirectiveConfig == ConfigInv /\ Directive => ConfigInv'
  <1> SUFFICES ASSUME ConfigInv, Directive PROVE ConfigInv'
    OBVIOUS
  <1> DEFINE d == SplitArgs(Line).argv
  <1>1. /\ More /\ ~IsSkipped(Line) /\ SplitArgs(Line).ok /\ Execute(fields, d).ok
        /\ linenum' = linenum + 1 /\ fields' = Execute(fields, d).fields
        /\ file' = file /\ args' = args /\ lines' = lines /\ phase' = phase
    BY DEF Directive, Accepted
  <1>2. /\ linenum + 1 \in 1..Len(lines)
        /\ LinesMean(SubSeq(lines, 1, linenum + 1)) = Done \o LineMeans(Line)
        /\ Done \in Seq(Directives) /\ d \in Directives
        /\ FieldsHold(fields, Done) /\ SplitUp /\ Started /\ phase = "lines"
    BY <1>1, LineInHand
  <1>3. LineMeans(Line) = <<d>>
    BY <1>1 DEF LineMeans
  <1> HIDE DEF d
  <1>4. Done' = Append(Done, d)
    <2>1. Done' = LinesMean(SubSeq(lines, 1, linenum + 1))
      BY <1>1 DEF Done
    <2>2. Append(Done, d) = Done \o <<d>>
      BY <1>2, AppendIsConcat
    <2>. QED  BY <1>2, <1>3, <2>1, <2>2
  <1>5. FieldsHold(fields', Done')
    BY <1>1, <1>2, <1>4, DirectiveHolds
  <1>6. SplitUp'
    <2>1. linenum + 1 \in 0..Len(lines)
      BY <1>2
    <2>. QED  BY <1>1, <1>2, <2>1 DEF SplitUp, AllMeant
  <1>. QED  BY <1>1, <1>2, <1>5, <1>6 DEF ConfigInv, Started

LEMMA ErrorConfig == ConfigInv /\ LoadError => ConfigInv'
  <1> SUFFICES ASSUME ConfigInv, LoadError PROVE ConfigInv'
    OBVIOUS
  <1> DEFINE d == IF SplitArgs(Line).ok THEN SplitArgs(Line).argv ELSE Unreadable
             n == linenum + 1
             a == SubSeq(lines, 1, n)
             b == SubSeq(lines, n + 1, Len(lines))
  <1>1. /\ More /\ ~IsSkipped(Line) /\ ~Accepted(Line) /\ phase' = "exited"
        /\ file' = file /\ args' = args /\ lines' = lines /\ linenum' = linenum /\ fields' = fields
    BY DEF LoadError
  <1>2. /\ n \in 1..Len(lines)
        /\ LinesMean(a) = Done \o LineMeans(Line)
        /\ Done \in Seq(Directives) /\ SplitArgs(Line).argv \in Directives
        /\ FieldsHold(fields, Done) /\ SplitUp /\ Started
    BY <1>1, LineInHand
  <1>3. LineMeans(Line) = <<d>> /\ d \in Directives
    BY <1>1, <1>2 DEF LineMeans, Directives
  <1>4. ~Valid(d)
    <2>1. CASE SplitArgs(Line).ok
      <3>1. ~Execute(fields, SplitArgs(Line).argv).ok
        BY <1>1, <2>1 DEF Accepted
      <3>. QED  BY <1>2, <2>1, <3>1, DirectiveHolds
    <2>2. CASE ~SplitArgs(Line).ok
      BY <2>2, UnreadableInvalid
    <2>. QED  BY <2>1, <2>2
  <1> HIDE DEF d
  <1>5. lines \in Seq(Seq(Bytes)) /\ n \in 0..Len(lines) /\ LinesMean(lines) = AllMeant
    BY <1>2 DEF SplitUp
  <1>6. a \in Seq(Seq(Bytes)) /\ b \in Seq(Seq(Bytes)) /\ lines = a \o b
    <2> HIDE DEF n
    <2>. QED  BY <1>5, FrontAndRest
  <1> HIDE DEF a, b, n
  <1>7. AllMeant = (Done \o <<d>>) \o LinesMean(b) /\ LinesMean(b) \in Seq(Directives)
    <2>1. LinesMean(a \o b) = LinesMean(a) \o LinesMean(b) /\ LinesMean(b) \in Seq(Directives)
      BY <1>6, LinesJoined
    <2>2. LinesMean(a) = Done \o <<d>>
      BY <1>2, <1>3
    <2>. QED  BY <1>5, <1>6, <2>1, <2>2, Zenon
  <1>8. Invalid
    <2>1. Len(Done) + 1 \in DOMAIN AllMeant /\ AllMeant[Len(Done) + 1] = d
      BY <1>2, <1>3, <1>7, FrontElement
    <2>. QED  BY <1>4, <2>1 DEF Invalid
  <1>9. Invalid' /\ SplitUp' /\ Started'
    BY <1>1, <1>2, <1>8 DEF Invalid, SplitUp, Started, AllMeant
  <1>. QED  BY <1>1, <1>9 DEF ConfigInv

LEMMA NextConfig == ConfigInv /\ [ConfigNext]_configVars => ConfigInv'
  <1> SUFFICES ASSUME ConfigInv, [ConfigNext]_configVars PROVE ConfigInv'
    OBVIOUS
  <1>1. CASE Load
    BY <1>1, LoadConfig
  <1>2. CASE SkipLine
    BY <1>2, SkipConfig
  <1>3. CASE Directive
    BY <1>3, DirectiveConfig
  <1>4. CASE LoadError
    BY <1>4, ErrorConfig
  <1>5. CASE Loaded
    BY <1>5 DEF Loaded, ConfigInv, Started, SplitUp, AllMeant, Done, Invalid
  <1>6. CASE UNCHANGED configVars
    BY <1>6 DEF configVars, ConfigInv, Started, SplitUp, AllMeant, Done, Invalid
  <1>. QED  BY <1>1, <1>2, <1>3, <1>4, <1>5, <1>6 DEF ConfigNext

LEMMA ConfigReaches == ConfigInv => OptionsReach
  <1> SUFFICES ASSUME args \in ArgLists PROVE OptionsReach
    BY DEF ConfigInv, Started
  <1>1. args \in Seq(Argument)
    BY ArgumentsOfConfig
  <1>2. Match(Options(args), Meant(args))
    BY <1>1, MatchAll
  <1>3. LET text == SplitLen(Options(args), "nl")
        IN  [i \in DOMAIN text |-> SplitArgs(Trim(text[i], Blank)).argv] = Meant(args)
    BY <1>2, MatchReads
  <1>. QED  BY <1>3 DEF OptionsReach

\* Whatever bytes the arguments of the program hold, the configuration code
\* gets them back unchanged, each with the name it was given for: joining them
\* to option lines (redd.c:177) loses nothing that splitting finds.
THEOREM OptionsGetThrough == ConfigSpec => []OptionsReach
  BY InitConfig, NextConfig, ConfigReaches, PTL DEF ConfigSpec

LEMMA ConfigWins == ConfigInv => LastLineWins
  <1> SUFFICES ASSUME ConfigInv PROVE LastLineWins
    OBVIOUS
  <1>1. ASSUME phase = "loaded"
        PROVE  /\ \A i \in DOMAIN AllMeant : Valid(AllMeant[i])
               /\ \A n \in DOMAIN Defaults : fields[n] = LastValue(AllMeant, n)
    <2>1. FieldsHold(fields, Done) /\ SplitUp /\ linenum = Len(lines)
      BY <1>1 DEF ConfigInv
    <2>2. SubSeq(lines, 1, linenum) = lines
      BY <2>1, SubSeqFull DEF SplitUp
    <2>3. Done = AllMeant
      BY <2>1, <2>2 DEF Done, SplitUp
    <2>4. DOMAIN Defaults = Names
      BY DEF Defaults, Names
    <2>. QED  BY <2>1, <2>3, <2>4 DEF FieldsHold
  <1>2. ASSUME phase = "exited" PROVE \E i \in DOMAIN AllMeant : ~Valid(AllMeant[i])
    BY <1>2 DEF ConfigInv, Invalid
  <1>. QED  BY <1>1, <1>2 DEF LastLineWins, AllMeant

\* The program starts exactly when every directive of its file and its
\* arguments is valid, and each field has the value its last directive gives
\* it (config.c:48-204, 252-289): putting the option text behind the file and
\* splitting the whole joins no two lines and loses none.
THEOREM LastDirectiveWins == ConfigSpec => []LastLineWins
  BY InitConfig, NextConfig, ConfigWins, PTL DEF ConfigSpec
=============================================================================
