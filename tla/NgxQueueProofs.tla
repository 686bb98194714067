--------------------------- MODULE NgxQueueProofs ---------------------------
(* Facts about the closed form of ngx_empty_into (NgxQueue), about the     *)
(* elements of sequences that hold none twice, and about the parts and the *)
(* concatenation of sequences.                                             *)
EXTENDS NgxQueue, SequencesExt, SequenceTheorems, FiniteSetTheorems, TLAPS

\* The number of moved elements is between 0 and the length of from.
LEMMA MovedBounds ==
    ASSUME NEW S, NEW from \in Seq(S), NEW limit \in Int
    PROVE  /\ Moved(from, limit) \in 0..Len(from)
           /\ limit >= 0 => Moved(from, limit) <= limit
  <1>1. Len(from) \in Nat
    BY LenProperties
  <1>. QED  BY <1>1 DEF Moved

\* How long the two queues are after ngx_empty_into.
LEMMA EmptyIntoLengths ==
    ASSUME NEW S, NEW from \in Seq(S), NEW to \in Seq(S), NEW limit \in Int
    PROVE  /\ EmptyFrom(from, limit) \in Seq(S)
           /\ EmptyTo(from, to, limit) \in Seq(S)
           /\ Len(EmptyFrom(from, limit)) = Len(from) - Moved(from, limit)
           /\ Len(EmptyTo(from, to, limit)) = Len(to) + Moved(from, limit)
  <1>1. /\ Len(from) \in Nat
        /\ \A i \in 1..Len(from) : from[i] \in S
    BY LenProperties
  <1> DEFINE k == Moved(from, limit)
  <1>2. k \in 0..Len(from)
    BY MovedBounds
  <1> HIDE DEF k
  <1>3. /\ SubSeq(from, 1, Len(from) - k) \in Seq(S)
        /\ Len(SubSeq(from, 1, Len(from) - k)) = Len(from) - k
    <2>1. \A i \in 1..(Len(from) - k) : from[i] \in S
      BY <1>1, <1>2
    <2>2. Len(from) - k \in Int /\ Len(from) - k >= 0
      BY <1>1, <1>2
    <2>. QED  BY <2>1, <2>2, SubSeqProperties
  <1>4. /\ SubSeq(from, Len(from) - k + 1, Len(from)) \in Seq(S)
        /\ Len(SubSeq(from, Len(from) - k + 1, Len(from))) = k
    <2>1. \A i \in (Len(from) - k + 1)..Len(from) : from[i] \in S
      BY <1>1, <1>2
    <2>2. Len(from) - k + 1 \in Int
      BY <1>1, <1>2
    <2>3. Len(SubSeq(from, Len(from) - k + 1, Len(from)))
            = IF Len(from) - k + 1 <= Len(from)
              THEN Len(from) - (Len(from) - k + 1) + 1 ELSE 0
      BY <1>1, <2>1, <2>2, SubSeqProperties
    <2>4. SubSeq(from, Len(from) - k + 1, Len(from)) \in Seq(S)
      BY <1>1, <2>1, <2>2, SubSeqProperties
    <2>. QED  BY <1>1, <1>2, <2>3, <2>4
  <1>5. /\ SubSeq(from, Len(from) - k + 1, Len(from)) \o to \in Seq(S)
        /\ Len(SubSeq(from, Len(from) - k + 1, Len(from)) \o to) = k + Len(to)
    BY <1>4, ConcatProperties
  <1>6. Len(to) \in Nat
    BY LenProperties
  <1>. QED  BY <1>1, <1>2, <1>3, <1>5, <1>6 DEF EmptyFrom, EmptyTo, k

-----------------------------------------------------------------------------
(* Sequences as sets of elements.                                          *)

LEMMA EmptyIsInjective ==
    /\ ToSet(<<>>) = {} /\ IsInjective(<<>>)
    /\ \A S : \A s \in Seq(S) : ToSet(s) = {} => s = <<>>
  <1>1. ToSet(<<>>) = {} /\ IsInjective(<<>>)
    BY EmptySeq DEF ToSet, IsInjective
  <1>2. ASSUME NEW S, NEW s \in Seq(S), s # <<>>
        PROVE  ToSet(s) # {}
    <2>1. Len(s) \in Nat \ {0} /\ DOMAIN s = 1..Len(s)
      BY <1>2, EmptySeq, LenProperties
    <2>2. s[1] \in ToSet(s)
      BY <2>1 DEF ToSet
    <2>. QED  BY <2>2
  <1>. QED  BY <1>1, <1>2

LEMMA ToSetFacts ==
    ASSUME NEW S, NEW s \in Seq(S)
    PROVE  /\ ToSet(s) \subseteq S
           /\ Len(s) \in Nat /\ DOMAIN s = 1..Len(s)
           /\ \A i \in 1..Len(s) : s[i] \in S
           /\ \A e : e \in ToSet(s) <=> \E i \in 1..Len(s) : s[i] = e
  <1>1. Len(s) \in Nat /\ DOMAIN s = 1..Len(s)
    BY LenProperties
  <1>2. \A i \in 1..Len(s) : s[i] \in S
    BY ElementOfSeq
  <1>3. \A e : e \in ToSet(s) <=> \E i \in 1..Len(s) : s[i] = e
    BY <1>1 DEF ToSet
  <1>. QED  BY <1>1, <1>2, <1>3

\* Appending adds one element.
LEMMA AppendElements ==
    ASSUME NEW S, NEW s \in Seq(S), NEW e \in S
    PROVE  /\ Append(s, e) \in Seq(S)
           /\ ToSet(Append(s, e)) = ToSet(s) \cup {e}
           /\ IsInjective(s) /\ e \notin ToSet(s) => IsInjective(Append(s, e))
  <1> DEFINE n == Len(s)
             t == Append(s, e)
  <1>1. /\ n \in Nat /\ t \in Seq(S) /\ Len(t) = n + 1
        /\ \A i \in 1..n : t[i] = s[i]
        /\ t[n + 1] = e
    BY LenProperties, AppendProperties
  <1>2. DOMAIN s = 1..n /\ DOMAIN t = 1..(n + 1)
    BY <1>1, LenProperties
  <1> HIDE DEF n, t
  <1>3. ToSet(t) = ToSet(s) \cup {e}
    BY <1>1, <1>2 DEF ToSet
  <1>4. ASSUME IsInjective(s), e \notin ToSet(s)
        PROVE  IsInjective(t)
    <2>1. \A i \in 1..n : s[i] # e
      BY <1>2, <1>4 DEF ToSet
    <2>2. \A i, j \in 1..n : s[i] = s[j] => i = j
      BY <1>2, <1>4 DEF IsInjective
    <2>3. \A i, j \in 1..(n + 1) : t[i] = t[j] => i = j
      BY <1>1, <2>1, <2>2
    <2>. QED  BY <1>2, <2>3 DEF IsInjective
  <1>. QED  BY <1>1, <1>3, <1>4 DEF t

\* The head goes, once.
LEMMA TailElements ==
    ASSUME NEW S, NEW s \in Seq(S), s # <<>>
    PROVE  /\ Head(s) \in S /\ Tail(s) \in Seq(S)
           /\ Head(s) = s[1]
           /\ ToSet(s) = {Head(s)} \cup ToSet(Tail(s))
           /\ IsInjective(s) => IsInjective(Tail(s)) /\ Head(s) \notin ToSet(Tail(s))
  <1> DEFINE n == Len(s)
             t == Tail(s)
  <1>1. /\ n \in Nat \ {0} /\ t \in Seq(S) /\ Len(t) = n - 1 /\ Head(s) \in S
        /\ \A i \in 1..(n - 1) : t[i] = s[i + 1]
    BY EmptySeq, HeadTailProperties
  <1>2. DOMAIN s = 1..n /\ DOMAIN t = 1..(n - 1)
    BY <1>1, LenProperties
  <1>3. Head(s) = s[1]
    BY <1>1
  <1> HIDE DEF n, t
  <1>4. \A i \in 1..n : i = 1 \/ (i - 1 \in 1..(n - 1) /\ s[i] = t[i - 1])
    BY <1>1
  <1>5. ToSet(s) = {s[1]} \cup ToSet(t)
    <2>1. ToSet(s) \subseteq {s[1]} \cup ToSet(t)
      BY <1>2, <1>4 DEF ToSet
    <2>2. \A i \in 1..(n - 1) : i + 1 \in 1..n
      BY <1>1
    <2>3. ToSet(t) \subseteq ToSet(s)
      BY <1>1, <1>2, <2>2 DEF ToSet
    <2>4. s[1] \in ToSet(s)
      BY <1>1, <1>2 DEF ToSet
    <2>. QED  BY <2>1, <2>3, <2>4
  <1>6. ASSUME IsInjective(s)
        PROVE  IsInjective(t) /\ s[1] \notin ToSet(t)
    <2>1. \A i, j \in 1..n : s[i] = s[j] => i = j
      BY <1>2, <1>6 DEF IsInjective
    <2>2. \A i, j \in 1..(n - 1) : t[i] = t[j] => i = j
      BY <1>1, <2>1
    <2>3. \A i \in 1..(n - 1) : t[i] # s[1]
      BY <1>1, <2>1
    <2>. QED  BY <1>2, <2>2, <2>3 DEF IsInjective, ToSet
  <1>. QED  BY <1>1, <1>3, <1>5, <1>6 DEF t

LEMMA ConcatElements ==
    ASSUME NEW S, NEW s \in Seq(S), NEW t \in Seq(S)
    PROVE  /\ s \o t \in Seq(S)
           /\ ToSet(s \o t) = ToSet(s) \cup ToSet(t)
           /\ IsInjective(s) /\ IsInjective(t) /\ ToSet(s) \cap ToSet(t) = {}
                => IsInjective(s \o t)
  <1> DEFINE m == Len(s)
             n == Len(t)
             u == s \o t
  <1>1. /\ m \in Nat /\ n \in Nat /\ u \in Seq(S) /\ Len(u) = m + n
        /\ \A i \in 1..(m + n) : u[i] = IF i <= m THEN s[i] ELSE t[i - m]
    BY LenProperties, ConcatProperties
  <1>2. DOMAIN s = 1..m /\ DOMAIN t = 1..n /\ DOMAIN u = 1..(m + n)
    BY <1>1, LenProperties
  <1> HIDE DEF m, n, u
  <1>3. /\ \A i \in 1..m : i \in 1..(m + n) /\ u[i] = s[i]
        /\ \A i \in 1..n : i + m \in 1..(m + n) /\ u[i + m] = t[i]
        /\ \A i \in 1..(m + n) : \/ i \in 1..m /\ u[i] = s[i]
                                 \/ i - m \in 1..n /\ u[i] = t[i - m]
    BY <1>1
  <1>4. ToSet(u) = ToSet(s) \cup ToSet(t)
    BY <1>2, <1>3 DEF ToSet
  <1>5. ASSUME IsInjective(s), IsInjective(t), ToSet(s) \cap ToSet(t) = {}
        PROVE  IsInjective(u)
    <2>1. /\ \A i, j \in 1..m : s[i] = s[j] => i = j
          /\ \A i, j \in 1..n : t[i] = t[j] => i = j
      BY <1>2, <1>5 DEF IsInjective
    <2>2. \A i \in 1..m, j \in 1..n : s[i] # t[j]
      BY <1>2, <1>5 DEF ToSet
    <2>3. \A i, j \in 1..(m + n) : u[i] = u[j] => i = j
      BY <1>1, <1>3, <2>1, <2>2
    <2>. QED  BY <1>2, <2>3 DEF IsInjective
  <1>. QED  BY <1>1, <1>4, <1>5 DEF u

\* Cutting a sequence in two.
LEMMA SplitElements ==
    ASSUME NEW S, NEW s \in Seq(S), NEW k \in 0..Len(s)
    PROVE  LET a == SubSeq(s, 1, k)
               b == SubSeq(s, k + 1, Len(s))
           IN  /\ a \in Seq(S) /\ b \in Seq(S)
               /\ Len(a) = k /\ Len(b) = Len(s) - k
               /\ \A i \in 1..k : a[i] = s[i]
               /\ \A i \in 1..(Len(s) - k) : b[i] = s[k + i]
               /\ ToSet(s) = ToSet(a) \cup ToSet(b)
               /\ IsInjective(s) => /\ IsInjective(a) /\ IsInjective(b)
                                    /\ ToSet(a) \cap ToSet(b) = {}
  <1> DEFINE n == Len(s)
             a == SubSeq(s, 1, k)
             b == SubSeq(s, k + 1, n)
  <1>1. n \in Nat /\ DOMAIN s = 1..n /\ k \in Nat /\ k <= n
    BY LenProperties
  <1>2. \A i \in 1..n : s[i] \in S
    BY ElementOfSeq
  <1>3. /\ a \in Seq(S) /\ Len(a) = (IF 1 <= k THEN k - 1 + 1 ELSE 0)
        /\ \A i \in 1..(k - 1 + 1) : a[i] = s[1 + i - 1]
    <2>1. k \in Int /\ 1 \in Int /\ \A i \in 1..k : s[i] \in S
      BY <1>1, <1>2
    <2>. QED  BY <2>1, SubSeqProperties
  <1>4. /\ b \in Seq(S) /\ Len(b) = (IF k + 1 <= n THEN n - (k + 1) + 1 ELSE 0)
        /\ \A i \in 1..(n - (k + 1) + 1) : b[i] = s[k + 1 + i - 1]
    <2>1. k + 1 \in Int /\ n \in Int /\ \A i \in (k + 1)..n : s[i] \in S
      BY <1>1, <1>2
    <2>. QED  BY <2>1, SubSeqProperties
  <1> HIDE DEF n, a, b
  <1>5. Len(a) = k /\ \A i \in 1..k : a[i] = s[i]
    BY <1>1, <1>3
  <1>6. Len(b) = n - k /\ \A i \in 1..(n - k) : b[i] = s[k + i]
    BY <1>1, <1>4
  <1>7. DOMAIN a = 1..k /\ DOMAIN b = 1..(n - k)
    BY <1>3, <1>4, <1>5, <1>6, LenProperties
  <1>8. \A i \in 1..n : \/ i \in 1..k /\ s[i] = a[i]
                        \/ i - k \in 1..(n - k) /\ s[i] = b[i - k]
    BY <1>1, <1>5, <1>6
  <1>9. ToSet(s) = ToSet(a) \cup ToSet(b)
    <2>1. ToSet(s) \subseteq ToSet(a) \cup ToSet(b)
      BY <1>1, <1>7, <1>8 DEF ToSet
    <2>2. \A i \in 1..k : i \in 1..n
      BY <1>1
    <2>3. \A i \in 1..(n - k) : k + i \in 1..n
      BY <1>1
    <2>4. ToSet(a) \subseteq ToSet(s)
      BY <1>1, <1>5, <1>7, <2>2 DEF ToSet
    <2>5. ToSet(b) \subseteq ToSet(s)
      BY <1>1, <1>6, <1>7, <2>3 DEF ToSet
    <2>. QED  BY <2>1, <2>4, <2>5
  <1>10. ASSUME IsInjective(s)
         PROVE  IsInjective(a) /\ IsInjective(b) /\ ToSet(a) \cap ToSet(b) = {}
    <2>1. \A i, j \in 1..n : s[i] = s[j] => i = j
      BY <1>1, <1>10 DEF IsInjective
    <2>2. \A i, j \in 1..k : a[i] = a[j] => i = j
      BY <1>1, <1>5, <2>1
    <2>3. \A i, j \in 1..(n - k) : b[i] = b[j] => i = j
      <3>1. \A i \in 1..(n - k) : k + i \in 1..n /\ b[i] = s[k + i]
        BY <1>1, <1>6
      <3>2. \A i, j \in 1..(n - k) : k + i = k + j => i = j
        BY <1>1
      <3>. QED  BY <2>1, <3>1, <3>2
    <2>4. \A i \in 1..k, j \in 1..(n - k) : a[i] # b[j]
      BY <1>1, <1>5, <1>6, <2>1
    <2>. QED  BY <1>7, <2>2, <2>3, <2>4 DEF IsInjective, ToSet
  <1>. QED  BY <1>3, <1>4, <1>5, <1>6, <1>9, <1>10 DEF n, a, b

\* A sequence without repetitions is as long as the set of its elements.
LEMMA InjectiveLength ==
    ASSUME NEW S, NEW s \in Seq(S), IsInjective(s)
    PROVE  IsFiniteSet(ToSet(s)) /\ Cardinality(ToSet(s)) = Len(s)
  <1> DEFINE n == Len(s)
  <1>1. n \in Nat /\ s \in [1..n -> S] /\ DOMAIN s = 1..n
    BY LenProperties
  <1> HIDE DEF n
  <1>2. s \in [1..n -> ToSet(s)]
    BY <1>1 DEF ToSet
  <1>3. \A a, b \in 1..n : s[a] = s[b] => a = b
    BY <1>1 DEF IsInjective
  <1>4. \A t \in ToSet(s) : \E i \in 1..n : s[i] = t
    BY <1>1 DEF ToSet
  <1>5. s \in Bijection(1..n, ToSet(s))
    BY <1>2, <1>3, <1>4 DEF Bijection, Injection, Surjection
  <1>6. ExistsBijection(1..n, ToSet(s))
    BY <1>5 DEF ExistsBijection
  <1>7. IsFiniteSet(1..n) /\ Cardinality(1..n) = n
    BY <1>1, FS_Interval
  <1>. QED  BY <1>6, <1>7, FS_Bijection DEF n

\* Taking one element out.
LEMMA RemoveAtElements ==
    ASSUME NEW S, NEW s \in Seq(S), NEW k \in 1..Len(s), IsInjective(s)
    PROVE  /\ RemoveAt(s, k) \in Seq(S)
           /\ ToSet(RemoveAt(s, k)) = ToSet(s) \ {s[k]}
           /\ IsInjective(RemoveAt(s, k))
  <1> DEFINE n == Len(s)
             a == SubSeq(s, 1, k - 1)
             b == SubSeq(s, k + 1, n)
  <1>1. n \in Nat /\ DOMAIN s = 1..n /\ k \in 1..n
    BY LenProperties
  <1>2. k - 1 \in 0..n /\ k \in 0..n
    BY <1>1
  <1>3. /\ a \in Seq(S) /\ Len(a) = k - 1 /\ IsInjective(a)
        /\ \A i \in 1..(k - 1) : a[i] = s[i]
    BY <1>2, SplitElements
  <1>4. /\ b \in Seq(S) /\ Len(b) = n - k /\ IsInjective(b)
        /\ \A i \in 1..(n - k) : b[i] = s[k + i]
    BY <1>2, SplitElements
  <1> HIDE DEF n, a, b
  <1>5. DOMAIN a = 1..(k - 1) /\ DOMAIN b = 1..(n - k)
    BY <1>3, <1>4, LenProperties
  <1>6. \A i, j \in 1..n : s[i] = s[j] => i = j
    BY <1>1 DEF IsInjective
  <1>7. /\ \A i \in 1..(k - 1) : i \in 1..n /\ i # k
        /\ \A i \in 1..(n - k) : k + i \in 1..n /\ k + i # k
        /\ \A i \in 1..(k - 1), j \in 1..(n - k) : i # k + j
        /\ \A i \in 1..n : i \in 1..(k - 1) \/ i = k \/ (i - k \in 1..(n - k) /\ k + (i - k) = i)
    BY <1>1
  <1>8. ToSet(a) \cap ToSet(b) = {}
    <2>1. ASSUME NEW i \in 1..(k - 1), NEW j \in 1..(n - k)
          PROVE  a[i] # b[j]
      <3>1. i \in 1..n /\ k + j \in 1..n /\ i # k + j
        BY <1>7
      <3>2. s[i] # s[k + j]
        BY <1>6, <3>1
      <3>. QED  BY <1>3, <1>4, <3>2
    <2>. QED  BY <1>5, <2>1 DEF ToSet
  <1>9. ToSet(a) \cup ToSet(b) = ToSet(s) \ {s[k]}
    <2>1. ToSet(a) \subseteq ToSet(s) \ {s[k]}
      <3>1. \A i \in 1..(k - 1) : i \in 1..n /\ a[i] = s[i] /\ a[i] # s[k]
        BY <1>1, <1>3, <1>6, <1>7
      <3>. QED  BY <1>1, <1>5, <3>1 DEF ToSet
    <2>2. ToSet(b) \subseteq ToSet(s) \ {s[k]}
      <3>1. \A i \in 1..(n - k) : k + i \in 1..n /\ b[i] = s[k + i] /\ b[i] # s[k]
        BY <1>1, <1>4, <1>6, <1>7
      <3>. QED  BY <1>1, <1>5, <3>1 DEF ToSet
    <2>3. ASSUME NEW i \in 1..n, i # k
          PROVE  s[i] \in ToSet(a) \cup ToSet(b)
      <3>1. CASE i \in 1..(k - 1)
        BY <1>3, <1>5, <3>1 DEF ToSet
      <3>2. CASE i - k \in 1..(n - k) /\ k + (i - k) = i
        BY <1>4, <1>5, <3>2 DEF ToSet
      <3>. QED  BY <1>7, <2>3, <3>1, <3>2
    <2>4. ToSet(s) \ {s[k]} \subseteq ToSet(a) \cup ToSet(b)
      BY <1>1, <2>3 DEF ToSet
    <2>. QED  BY <2>1, <2>2, <2>4
  <1>10. RemoveAt(s, k) = a \o b
    BY DEF RemoveAt, a, b, n
  <1>11. a \o b \in Seq(S) /\ ToSet(a \o b) = ToSet(a) \cup ToSet(b) /\ IsInjective(a \o b)
    BY <1>3, <1>4, <1>8, ConcatElements
  <1>. QED  BY <1>9, <1>10, <1>11

\* ngx_empty_into (helper.c:96) moves elements and changes none: each is in
\* one of the two queues before and after, at one place.
LEMMA EmptyIntoElements ==
    ASSUME NEW S, NEW from \in Seq(S), NEW to \in Seq(S), NEW limit \in Int
    PROVE  LET f == EmptyFrom(from, limit)
               t == EmptyTo(from, to, limit)
           IN  /\ ToSet(f) \cup ToSet(t) = ToSet(from) \cup ToSet(to)
               /\ IsInjective(from) /\ IsInjective(to) /\ ToSet(from) \cap ToSet(to) = {}
                    => IsInjective(f) /\ IsInjective(t) /\ ToSet(f) \cap ToSet(t) = {}
  <1> DEFINE k == Len(from) - Moved(from, limit)
             a == SubSeq(from, 1, k)
             b == SubSeq(from, k + 1, Len(from))
  <1>1. k \in 0..Len(from)
    <2>1. Moved(from, limit) \in 0..Len(from) /\ Len(from) \in Nat
      BY MovedBounds, LenProperties
    <2>. QED  BY <2>1
  <1>2. EmptyFrom(from, limit) = a /\ EmptyTo(from, to, limit) = b \o to
    BY DEF EmptyFrom, EmptyTo
  <1> HIDE DEF k
  <1>3. /\ a \in Seq(S) /\ b \in Seq(S)
        /\ ToSet(from) = ToSet(a) \cup ToSet(b)
        /\ IsInjective(from) => /\ IsInjective(a) /\ IsInjective(b)
                                /\ ToSet(a) \cap ToSet(b) = {}
    BY <1>1, SplitElements
  <1> HIDE DEF a, b
  <1>4. /\ ToSet(b \o to) = ToSet(b) \cup ToSet(to)
        /\ IsInjective(b) /\ IsInjective(to) /\ ToSet(b) \cap ToSet(to) = {}
             => IsInjective(b \o to)
    BY <1>3, ConcatElements
  <1>. QED  BY <1>2, <1>3, <1>4

\* A limit that is not reached moves the whole queue, in order.
LEMMA EmptyIntoAll ==
    ASSUME NEW S, NEW from \in Seq(S), NEW limit \in Nat, Len(from) <= limit
    PROVE  EmptyFrom(from, limit) = <<>> /\ EmptyTo(from, <<>>, limit) = from
  <1>1. Len(from) \in Nat
    BY LenProperties
  <1>2. Moved(from, limit) = Len(from)
    BY <1>1 DEF Moved
  <1>3. Len(from) - Moved(from, limit) = 0
    BY <1>1, <1>2
  <1>4. EmptyFrom(from, limit) = SubSeq(from, 1, 0)
    BY <1>3 DEF EmptyFrom
  <1>5. SubSeq(from, 1, 0) = <<>>
    BY SubSeqEmpty
  <1>6. EmptyTo(from, <<>>, limit) = SubSeq(from, 1, Len(from)) \o <<>>
    BY <1>3 DEF EmptyTo
  <1>7. SubSeq(from, 1, Len(from)) = from /\ from \o <<>> = from
    BY SubSeqFull, ConcatEmptySeq
  <1>. QED  BY <1>4, <1>5, <1>6, <1>7

\* A concatenation, element by element.
LEMMA ConcatIs ==
    ASSUME NEW S, NEW a \in Seq(S), NEW b \in Seq(S)
    PROVE  /\ a \o b \in Seq(S)
           /\ Len(a) \in Nat /\ Len(b) \in Nat /\ Len(a \o b) = Len(a) + Len(b)
           /\ \A i \in 1..Len(a) : (a \o b)[i] = a[i]
           /\ \A i \in 1..Len(b) : (a \o b)[Len(a) + i] = b[i]
  <1> DEFINE c == a \o b
  <1>1. Len(a) \in Nat /\ Len(b) \in Nat
    BY LenProperties
  <1>2. /\ c \in Seq(S) /\ Len(c) = Len(a) + Len(b)
        /\ \A i \in 1..(Len(a) + Len(b)) : c[i] = IF i <= Len(a) THEN a[i] ELSE b[i - Len(a)]
    BY ConcatProperties
  <1> HIDE DEF c
  <1>3. \A i \in 1..Len(a) : c[i] = a[i]
    BY <1>1, <1>2
  <1>4. \A i \in 1..Len(b) : c[Len(a) + i] = b[i]
    <2> SUFFICES ASSUME NEW i \in 1..Len(b) PROVE c[Len(a) + i] = b[i]
      OBVIOUS
    <2>1. /\ Len(a) + i \in 1..(Len(a) + Len(b)) /\ ~(Len(a) + i <= Len(a))
          /\ (Len(a) + i) - Len(a) = i
      BY <1>1
    <2>. QED  BY <1>2, <2>1
  <1>. QED  BY <1>1, <1>2, <1>3, <1>4 DEF c

\* Two sequences with an element between them.
LEMMA ConcatThree ==
    ASSUME NEW S, NEW a \in Seq(S), NEW x \in S, NEW b \in Seq(S)
    PROVE  LET c == (a \o <<x>>) \o b
           IN  /\ c \in Seq(S)
               /\ Len(c) = Len(a) + Len(b) + 1
               /\ \A i \in 1..Len(a) : c[i] = a[i]
               /\ c[Len(a) + 1] = x
               /\ \A i \in 1..Len(b) : c[Len(a) + 1 + i] = b[i]
  <1> DEFINE ax == Append(a, x)
             d == ax \o b
             c == (a \o <<x>>) \o b
  <1>0. c = d
    BY AppendIsConcat
  <1>1. Len(a) \in Nat /\ Len(b) \in Nat
    BY LenProperties
  <1>2. /\ ax \in Seq(S) /\ Len(ax) = Len(a) + 1
        /\ \A i \in 1..Len(a) : ax[i] = a[i]
        /\ ax[Len(a) + 1] = x
    BY AppendProperties
  <1> HIDE DEF ax
  <1>3. Len(d) = Len(ax) + Len(b) /\ d \in Seq(S)
    BY <1>2, ConcatIs
  <1>4. \A i \in 1..Len(ax) : d[i] = ax[i]
    BY <1>2, ConcatIs
  <1>5. \A i \in 1..Len(b) : d[Len(ax) + i] = b[i]
    BY <1>2, ConcatIs
  <1> HIDE DEF d, c
  <1>6. Len(a) + 1 \in 1..Len(ax) /\ \A i \in 1..Len(a) : i \in 1..Len(ax)
    BY <1>1, <1>2
  <1>7. d[Len(a) + 1] = x /\ \A i \in 1..Len(a) : d[i] = a[i]
    BY <1>2, <1>4, <1>6
  <1>8. \A i \in 1..Len(b) : d[Len(a) + 1 + i] = b[i]
    BY <1>2, <1>5
  <1>9. Len(d) = Len(a) + Len(b) + 1
    BY <1>1, <1>2, <1>3
  <1>. QED  BY <1>0, <1>3, <1>7, <1>8, <1>9 DEF c

\* Concatenation is associative.
LEMMA SeqAssociative ==
    ASSUME NEW S, NEW a \in Seq(S), NEW b \in Seq(S), NEW c \in Seq(S)
    PROVE  (a \o b) \o c = a \o (b \o c)
  BY ConcatAssociative

\* A function on 1..n is a sequence.
LEMMA FunctionIsSeq ==
    ASSUME NEW S, NEW n \in Nat, NEW h \in [1..n -> S]
    PROVE  h \in Seq(S) /\ Len(h) = n
  OBVIOUS

\* The beginnings of a sequence.
LEMMA SubSeqGrows ==
    ASSUME NEW S, NEW v \in Seq(S)
    PROVE  /\ SubSeq(v, 1, 0) = <<>> /\ SubSeq(v, 1, Len(v)) = v
           /\ \A n \in 0..Len(v) : SubSeq(v, 1, n) \in Seq(S) /\ Len(SubSeq(v, 1, n)) = n
           /\ \A n \in 1..Len(v) : Append(SubSeq(v, 1, n - 1), v[n]) = SubSeq(v, 1, n)
  <1>1. Len(v) \in Nat /\ \A i \in 1..Len(v) : v[i] \in S
    BY LenProperties
  <1>2. SubSeq(v, 1, 0) = <<>> /\ SubSeq(v, 1, Len(v)) = v
    BY SubSeqEmpty, SubSeqFull
  <1>3. \A n \in 0..Len(v) : /\ SubSeq(v, 1, n) \in Seq(S) /\ Len(SubSeq(v, 1, n)) = n
                             /\ \A i \in 1..n : SubSeq(v, 1, n)[i] = v[i]
    BY SplitElements
  <1>4. ASSUME NEW n \in 1..Len(v)
        PROVE  Append(SubSeq(v, 1, n - 1), v[n]) = SubSeq(v, 1, n)
    <2> DEFINE a == SubSeq(v, 1, n - 1)
               b == SubSeq(v, 1, n)
    <2>1. n - 1 \in 0..Len(v) /\ n \in 0..Len(v) /\ n \in Nat
      BY <1>1
    <2>2. a \in Seq(S) /\ Len(a) = n - 1 /\ \A i \in 1..(n - 1) : a[i] = v[i]
      BY <1>3, <2>1
    <2>3. b \in Seq(S) /\ Len(b) = n /\ \A i \in 1..n : b[i] = v[i]
      BY <1>3, <2>1
    <2>4. v[n] \in S
      BY <1>1
    <2> HIDE DEF a, b
    <2>5. /\ Append(a, v[n]) \in Seq(S) /\ Len(Append(a, v[n])) = n
          /\ \A i \in 1..(n - 1) : Append(a, v[n])[i] = a[i]
          /\ Append(a, v[n])[n] = v[n]
      BY <2>1, <2>2, <2>4, AppendProperties
    <2>6. \A i \in 1..n : Append(a, v[n])[i] = b[i]
      BY <2>1, <2>2, <2>3, <2>5
    <2>. QED  BY <2>3, <2>5, <2>6, SeqEqual DEF a, b
  <1>. QED  BY <1>2, <1>3, <1>4

\* A part of a sequence, element by element.
LEMMA SliceIs ==
    ASSUME NEW S, NEW s \in Seq(S), NEW m \in Nat \ {0}, NEW n \in Nat, m <= n + 1, n <= Len(s)
    PROVE  LET t == SubSeq(s, m, n)
           IN  t \in Seq(S) /\ Len(t) = n - m + 1 /\ \A i \in 1..(n - m + 1) : t[i] = s[m + i - 1]
  <1>1. Len(s) \in Nat /\ \A i \in 1..Len(s) : s[i] \in S
    BY LenProperties
  <1>2. \A i \in m..n : s[i] \in S
    BY <1>1
  <1>3. /\ SubSeq(s, m, n) \in Seq(S)
        /\ Len(SubSeq(s, m, n)) = IF m <= n THEN n - m + 1 ELSE 0
        /\ \A i \in 1..(n - m + 1) : SubSeq(s, m, n)[i] = s[m + i - 1]
    BY <1>2, SubSeqProperties
  <1>. QED  BY <1>3

\* Sequences that agree on a part have the same part.
LEMMA SliceSame ==
    ASSUME NEW S, NEW s \in Seq(S), NEW t \in Seq(S), NEW m \in Nat \ {0}, NEW n \in Nat,
           m <= n + 1, n <= Len(s), n <= Len(t), \A i \in m..n : s[i] = t[i]
    PROVE  SubSeq(s, m, n) = SubSeq(t, m, n)
  <1> DEFINE a == SubSeq(s, m, n)
             b == SubSeq(t, m, n)
             k == n - m + 1
  <1>1. a \in Seq(S) /\ Len(a) = k /\ \A i \in 1..k : a[i] = s[m + i - 1]
    BY SliceIs
  <1>2. b \in Seq(S) /\ Len(b) = k /\ \A i \in 1..k : b[i] = t[m + i - 1]
    BY SliceIs
  <1> HIDE DEF a, b
  <1>3. \A i \in 1..k : m + i - 1 \in m..n
    OBVIOUS
  <1>4. \A i \in 1..k : a[i] = b[i]
    BY <1>1, <1>2, <1>3
  <1> HIDE DEF k
  <1>. QED  BY <1>1, <1>2, <1>4, SeqEqual DEF a, b

\* The rest of a sequence that has become longer.
LEMMA SliceGrows ==
    ASSUME NEW S, NEW s \in Seq(S), NEW w \in Seq(S), NEW m \in 1..(Len(s) + 1)
    PROVE  SubSeq(s \o w, m, Len(s \o w)) = SubSeq(s, m, Len(s)) \o w
  <1> DEFINE x == s \o w
             a == SubSeq(x, m, Len(x))
             b == SubSeq(s, m, Len(s))
             c == b \o w
             k == Len(s) - m + 1
  <1>1. /\ x \in Seq(S) /\ Len(s) \in Nat /\ Len(w) \in Nat /\ Len(x) = Len(s) + Len(w)
        /\ \A i \in 1..Len(s) : x[i] = s[i]
        /\ \A i \in 1..Len(w) : x[Len(s) + i] = w[i]
    BY ConcatIs
  <1> HIDE DEF x
  <1>2. m \in Nat \ {0} /\ m <= Len(s) + 1 /\ m <= Len(x) + 1 /\ Len(x) \in Nat /\ k \in Nat
    BY <1>1
  <1>3. /\ a \in Seq(S) /\ Len(a) = Len(x) - m + 1
        /\ \A i \in 1..(Len(x) - m + 1) : a[i] = x[m + i - 1]
    BY <1>1, <1>2, SliceIs
  <1>4. b \in Seq(S) /\ Len(b) = k /\ \A i \in 1..k : b[i] = s[m + i - 1]
    BY <1>1, <1>2, SliceIs
  <1> HIDE DEF a, b
  <1>5. /\ c \in Seq(S) /\ Len(c) = Len(b) + Len(w)
        /\ \A i \in 1..Len(b) : c[i] = b[i]
        /\ \A i \in 1..Len(w) : c[Len(b) + i] = w[i]
    <2>1. b \in Seq(S)
      BY <1>4
    <2>2. c \in Seq(S) /\ Len(c) = Len(b) + Len(w)
      BY <2>1, ConcatIs
    <2>3. \A i \in 1..Len(b) : c[i] = b[i]
      BY <2>1, ConcatIs
    <2>4. \A i \in 1..Len(w) : c[Len(b) + i] = w[i]
      BY <2>1, ConcatIs
    <2>. QED  BY <2>2, <2>3, <2>4
  <1> HIDE DEF c
  <1>6. Len(x) - m + 1 = k + Len(w)
    BY <1>1
  <1>7. ASSUME NEW i \in 1..(k + Len(w)) PROVE a[i] = c[i]
    <2>1. a[i] = x[m + i - 1]
      BY <1>3, <1>6
    <2>2. CASE i <= k
      <3>1. m + i - 1 \in 1..Len(s) /\ i \in 1..k
        BY <1>1, <1>2, <2>2
      <3>. QED  BY <1>1, <1>4, <1>5, <2>1, <3>1
    <2>3. CASE i > k
      <3>1. i - k \in 1..Len(w) /\ Len(s) + (i - k) = m + i - 1 /\ k + (i - k) = i
        BY <1>1, <1>2, <2>3
      <3>2. x[Len(s) + (i - k)] = w[i - k]
        BY <1>1, <3>1
      <3>3. c[k + (i - k)] = w[i - k]
        BY <1>4, <1>5, <3>1
      <3> HIDE DEF k
      <3>. QED  BY <2>1, <3>1, <3>2, <3>3
    <2>. QED  BY <1>2, <2>2, <2>3
  <1>8. Len(a) = k + Len(w) /\ Len(c) = k + Len(w)
    BY <1>3, <1>4, <1>5, <1>6
  <1> HIDE DEF k
  <1>9. a = c
    BY <1>3, <1>5, <1>7, <1>8, SeqEqual
  <1>. QED  BY <1>9 DEF a, b, c, x

\* A part of what stands behind y is the same part of the whole.
LEMMA SliceBehind ==
    ASSUME NEW S, NEW y \in Seq(S), NEW o \in Seq(S), NEW m \in Nat \ {0}, NEW n \in Nat,
           m <= n + 1, n <= Len(o)
    PROVE  SubSeq(y \o o, Len(y) + m, Len(y) + n) = SubSeq(o, m, n)
  <1> DEFINE x == y \o o
             N == Len(y)
             a == SubSeq(x, N + m, N + n)
             b == SubSeq(o, m, n)
             k == n - m + 1
  <1>1. /\ x \in Seq(S) /\ N \in Nat /\ Len(o) \in Nat /\ Len(x) = N + Len(o)
        /\ \A i \in 1..Len(o) : x[N + i] = o[i]
    BY ConcatIs
  <1> HIDE DEF x, N
  <1>2. /\ N + m \in Nat \ {0} /\ N + n \in Nat /\ N + m <= (N + n) + 1 /\ N + n <= Len(x)
        /\ (N + n) - (N + m) + 1 = k
    BY <1>1
  <1>3. a \in Seq(S) /\ Len(a) = k /\ \A i \in 1..k : a[i] = x[(N + m) + i - 1]
    BY <1>1, <1>2, SliceIs
  <1>4. b \in Seq(S) /\ Len(b) = k /\ \A i \in 1..k : b[i] = o[m + i - 1]
    BY SliceIs
  <1> HIDE DEF a, b
  <1>5. ASSUME NEW i \in 1..k PROVE a[i] = b[i]
    <2>1. m + i - 1 \in 1..Len(o) /\ (N + m) + i - 1 = N + (m + i - 1)
      BY <1>1
    <2>2. x[N + (m + i - 1)] = o[m + i - 1]
      BY <1>1, <2>1
    <2>. QED  BY <1>3, <1>4, <2>1, <2>2
  <1> HIDE DEF k
  <1>6. a = b
    BY <1>3, <1>4, <1>5, SeqEqual
  <1>. QED  BY <1>6 DEF a, b, x, N

\* Appending to what stands behind k.
Joins(k, t, w) == Append(k \o t, w) = k \o Append(t, w)

LEMMA AppendBehind ==
    ASSUME NEW S, NEW k \in Seq(S), NEW t \in Seq(S), NEW w \in S
    PROVE  Joins(k, t, w)
  BY DEF Joins

\* Grouping three sequences.
Regroups(a, b, c) == (a \o b) \o c = a \o (b \o c)

LEMMA Regroup ==
    ASSUME NEW S, NEW a \in Seq(S), NEW b \in Seq(S), NEW c \in Seq(S)
    PROVE  Regroups(a, b, c)
  BY DEF Regroups

\* A sequence is its front and its rest.
LEMMA FrontAndRest ==
    ASSUME NEW S, NEW s \in Seq(S), NEW n \in 0..Len(s)
    PROVE  LET a == SubSeq(s, 1, n)
               b == SubSeq(s, n + 1, Len(s))
           IN  a \in Seq(S) /\ b \in Seq(S) /\ s = a \o b
  <1> DEFINE a == SubSeq(s, 1, n)
             b == SubSeq(s, n + 1, Len(s))
             x == a \o b
  <1>1. /\ a \in Seq(S) /\ b \in Seq(S) /\ Len(a) = n /\ Len(b) = Len(s) - n
        /\ \A i \in 1..n : a[i] = s[i]
        /\ \A i \in 1..(Len(s) - n) : b[i] = s[n + i]
    BY SplitElements
  <1> HIDE DEF a, b
  <1>2. /\ x \in Seq(S) /\ Len(x) = Len(a) + Len(b)
        /\ \A i \in 1..Len(a) : x[i] = a[i]
        /\ \A i \in 1..Len(b) : x[Len(a) + i] = b[i]
    BY <1>1, ConcatIs
  <1>3. Len(s) \in Nat
    BY LenProperties
  <1> HIDE DEF x
  <1>4. ASSUME NEW i \in 1..Len(s) PROVE x[i] = s[i]
    <2>1. CASE i \in 1..n
      BY <1>1, <1>2, <2>1
    <2>2. CASE i \notin 1..n
      <3>1. i - n \in 1..(Len(s) - n) /\ n + (i - n) = i
        BY <1>3, <2>2
      <3>2. x[n + (i - n)] = b[i - n] /\ b[i - n] = s[n + (i - n)]
        BY <1>1, <1>2, <3>1
      <3>. QED  BY <3>1, <3>2
    <2>. QED  BY <2>1, <2>2
  <1>5. Len(x) = Len(s)
    BY <1>1, <1>2, <1>3
  <1>6. x = s
    BY <1>2, <1>4, <1>5, SeqEqual
  <1>. QED  BY <1>1, <1>6 DEF a, b, x

\* An element of the front is one of the whole.
LEMMA FrontElement ==
    ASSUME NEW S, NEW a \in Seq(S), NEW d \in S, NEW b \in Seq(S)
    PROVE  LET c == (a \o <<d>>) \o b IN Len(a) + 1 \in DOMAIN c /\ c[Len(a) + 1] = d
  <1> DEFINE c == (a \o <<d>>) \o b
  <1>1. /\ c \in Seq(S) /\ Len(c) = Len(a) + Len(b) + 1 /\ c[Len(a) + 1] = d
    BY ConcatThree
  <1> HIDE DEF c
  <1>2. Len(a) \in Nat /\ Len(b) \in Nat /\ DOMAIN c = 1..Len(c)
    BY <1>1, LenProperties
  <1>3. Len(a) + 1 \in DOMAIN c
    BY <1>1, <1>2
  <1>. QED  BY <1>1, <1>3 DEF c

-----------------------------------------------------------------------------
\* ngx_empty_into (helper.c:96) neither loses, duplicates nor reorders: the
\* queue from is what it keeps followed by a part of Moved elements, and this
\* part, its newest elements in their order, stands in front of what to held.
THEOREM EmptyIntoConserves ==
    ASSUME NEW S, NEW from \in Seq(S), NEW to \in Seq(S), NEW limit \in Int
    PROVE  \E moved \in Seq(S) :
              /\ Len(moved) = Moved(from, limit)
              /\ from = EmptyFrom(from, limit) \o moved
              /\ EmptyTo(from, to, limit) = moved \o to
  <1> DEFINE n == Len(from) - Moved(from, limit)
             a == SubSeq(from, 1, n)
             b == SubSeq(from, n + 1, Len(from))
  <1>1. Len(from) \in Nat
    BY LenProperties
  <1>2. Moved(from, limit) \in 0..Len(from)
    BY MovedBounds, Zenon
  <1>3. n \in 0..Len(from) /\ Len(from) - n = Moved(from, limit)
    BY <1>1, <1>2
  <1>4. EmptyFrom(from, limit) = a /\ EmptyTo(from, to, limit) = b \o to
    BY Zenon DEF EmptyFrom, EmptyTo
  <1> HIDE DEF n
  <1>5. b \in Seq(S) /\ Len(b) = Len(from) - n
    BY <1>3, SplitElements
  <1>6. from = a \o b
    BY <1>3, FrontAndRest, Zenon
  <1>7. Len(b) = Moved(from, limit)
    BY <1>3, <1>5
  <1>. QED  BY <1>4, <1>5, <1>6, <1>7, Zenon
=============================================================================
