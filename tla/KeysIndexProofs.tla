---------------------------- MODULE KeysIndexProofs ----------------------------
(***************************************************************************)
(* What the operators of KeysIndex do, for any index, entry and text: and  *)
(* the facts about sequences, sums and FlattenSeq that this takes.         *)
(***************************************************************************)
EXTENDS KeysIndex, FiniteSets, WellFoundedInduction, TLAPS

\* A sequence, of whatever it holds.
IsSeq(s) == s \in Seq(Range(s))
IsStream(s) == IsSeq(s) /\ \A k \in DOMAIN s : IsSeq(s[k])

-------------------------------------------------------------------------------
\* Numbers and sequences

(* A set of numbers has a least one.                                          *)
LEMMA LessThanIsWellFounded == IsWellFoundedOn({ss \in Nat \X Nat : ss[1] < ss[2]}, Nat)
BY NatLessThanWellFounded DEF OpToRel

LEMMA Least ==
  ASSUME NEW S, S \subseteq Nat, S # {}
  PROVE  \E n \in S : \A m \in S : ~ (m < n)
<1> DEFINE R == {ss \in Nat \X Nat : ss[1] < ss[2]}
<1>1. IsWellFoundedOn(R, Nat)
  BY LessThanIsWellFounded
<1>2. \A m, n \in Nat : m < n => <<m, n>> \in R
  OBVIOUS
<1> HIDE DEF R
<1>3. PICK n \in S : \A m \in S : <<m, n>> \notin R
  BY <1>1, WFMin, Zenon
<1> QED
  BY <1>2, <1>3

LEMMA SeqIsSeq == ASSUME NEW S, NEW s \in Seq(S) PROVE IsSeq(s)
BY DEF IsSeq, Range

LEMMA SeqGrows ==
  ASSUME NEW S, NEW T, S \subseteq T, NEW s \in Seq(S)
  PROVE  s \in Seq(T)
OBVIOUS

LEMMA IsSeqFacts ==
  ASSUME NEW s, IsSeq(s)
  PROVE  /\ Len(s) \in Nat /\ DOMAIN s = 1..Len(s)
         /\ s = <<>> <=> Len(s) = 0
         /\ s # <<>> => /\ Head(s) = s[1] /\ IsSeq(Tail(s)) /\ Len(Tail(s)) = Len(s) - 1
                        /\ \A k \in 1..(Len(s) - 1) : Tail(s)[k] = s[k + 1]
<1> DEFINE S == Range(s)
<1>1. s \in Seq(S)
  BY DEF IsSeq
<1> HIDE DEF S
<1>2. Len(s) \in Nat /\ DOMAIN s = 1..Len(s)
  BY <1>1
<1>3. s = <<>> <=> Len(s) = 0
  BY <1>1
<1>4. ASSUME s # <<>>
      PROVE  /\ Head(s) = s[1] /\ IsSeq(Tail(s)) /\ Len(Tail(s)) = Len(s) - 1
             /\ \A k \in 1..(Len(s) - 1) : Tail(s)[k] = s[k + 1]
  <2>1. Tail(s) \in Seq(S)
    BY <1>1, <1>4
  <2>2. IsSeq(Tail(s))
    BY <2>1, SeqIsSeq
  <2> QED
    BY <1>1, <1>4, <2>2
<1> QED
  BY <1>2, <1>3, <1>4

LEMMA JoinFacts ==
  ASSUME NEW s, NEW t, IsSeq(s), IsSeq(t)
  PROVE  /\ IsSeq(s \o t) /\ Len(s \o t) = Len(s) + Len(t)
         /\ \A k \in 1..Len(s) : (s \o t)[k] = s[k]
         /\ \A k \in 1..Len(t) : (s \o t)[Len(s) + k] = t[k]
<1> DEFINE S == Range(s) \cup Range(t)
<1>1. s \in Seq(S) /\ t \in Seq(S)
  BY SeqGrows, Zenon DEF IsSeq
<1> HIDE DEF S
<1>2. s \o t \in Seq(S)
  BY <1>1
<1>3. IsSeq(s \o t)
  BY <1>2, SeqIsSeq
<1> QED
  BY <1>1, <1>3

LEMMA PartFacts ==
  ASSUME NEW s, IsSeq(s), NEW n \in 0..Len(s)
  PROVE  /\ IsSeq(SubSeq(s, 1, n)) /\ Len(SubSeq(s, 1, n)) = n
         /\ \A k \in 1..n : SubSeq(s, 1, n)[k] = s[k]
<1> DEFINE S == Range(s)
<1>1. s \in Seq(S)
  BY DEF IsSeq
<1> HIDE DEF S
<1>2. SubSeq(s, 1, n) \in Seq(S)
  BY <1>1
<1>3. IsSeq(SubSeq(s, 1, n))
  BY <1>2, SeqIsSeq
<1> QED
  BY <1>1, <1>3

LEMMA AppendFacts ==
  ASSUME NEW s, IsSeq(s), NEW e
  PROVE  /\ IsSeq(Append(s, e)) /\ Len(Append(s, e)) = Len(s) + 1
         /\ \A k \in 1..Len(s) : Append(s, e)[k] = s[k]
         /\ Append(s, e)[Len(s) + 1] = e
<1> DEFINE S == Range(s) \cup {e}
<1>1. s \in Seq(S) /\ e \in S
  BY SeqGrows, Zenon DEF IsSeq
<1> HIDE DEF S
<1>2. Append(s, e) \in Seq(S)
  BY <1>1
<1>3. IsSeq(Append(s, e))
  BY <1>2, SeqIsSeq
<1> QED
  BY <1>1, <1>3

LEMMA TupleFacts ==
  /\ IsSeq(<<>>) /\ Len(<<>>) = 0
  /\ \A a : IsSeq(<<a>>) /\ Len(<<a>>) = 1 /\ <<a>>[1] = a
  /\ \A a, b : IsSeq(<<a, b>>) /\ Len(<<a, b>>) = 2 /\ <<a, b>>[1] = a /\ <<a, b>>[2] = b
<1>1. <<>> \in Seq({})
  OBVIOUS
<1>2. ASSUME NEW a PROVE <<a>> \in Seq({a})
  OBVIOUS
<1>3. ASSUME NEW a, NEW b PROVE <<a, b>> \in Seq({a, b})
  OBVIOUS
<1>4. IsSeq(<<>>)
  BY <1>1, SeqIsSeq
<1>5. \A a : IsSeq(<<a>>)
  BY <1>2, SeqIsSeq
<1>6. \A a, b : IsSeq(<<a, b>>)
  BY <1>3, SeqIsSeq
<1> QED
  BY <1>4, <1>5, <1>6

LEMMA FourFacts ==
  \A a, b, c, d :
    LET s == <<a, b, c, d>> IN IsSeq(s) /\ Len(s) = 4 /\ s[1] = a /\ s[2] = b /\ s[3] = c /\ s[4] = d
<1>1. ASSUME NEW a, NEW b, NEW c, NEW d PROVE <<a, b, c, d>> \in Seq({a, b, c, d})
  OBVIOUS
<1>2. \A a, b, c, d : IsSeq(<<a, b, c, d>>)
  BY <1>1, SeqIsSeq
<1> QED
  BY <1>2

LEMMA FunctionIsSeq ==
  ASSUME NEW n \in Nat, NEW S, NEW f \in [1..n -> S]
  PROVE  f \in Seq(S) /\ Len(f) = n /\ DOMAIN f = 1..n
OBVIOUS

-------------------------------------------------------------------------------
\* FlattenSeq

(* What holds of the first of a row of numbers, and of each if of the one     *)
(* before, holds of all: stated of the set of those it holds of.              *)
LEMMA AllFromFirst ==
  ASSUME NEW n \in Nat, NEW Good, 1 \in Good, \A i \in 2..n : i - 1 \in Good => i \in Good
  PROVE  \A i \in 1..n : i \in Good
<1> DEFINE Bad == {i \in 1..n : i \notin Good}
<1>1. SUFFICES ASSUME Bad # {} PROVE FALSE
  OBVIOUS
<1>2. Bad \subseteq Nat
  OBVIOUS
<1> HIDE DEF Bad
<1>3. PICK i \in Bad : \A j \in Bad : ~ (j < i)
  BY <1>1, <1>2, Least
<1> USE DEF Bad
<1>4. i \in 2..n
  OBVIOUS
<1>5. i - 1 \in Good
  BY <1>3, <1>4
<1> QED
  BY <1>4, <1>5

(* It joins the sequences one after the other.                                *)
LEMMA Joined ==
  ASSUME NEW seqs, Len(seqs) \in Nat, Len(seqs) # 0
  PROVE  \E f : /\ f[1] = seqs[1]
                /\ \A i \in 2..Len(seqs) : f[i] = f[i - 1] \o seqs[i]
                /\ FlattenSeq(seqs) = f[Len(seqs)]
<1> DEFINE Joins(f, n) == f = [i \in 1..n |-> IF i = 1 THEN seqs[i] ELSE f[i - 1] \o seqs[i]]
<1>1. ASSUME NEW n \in 2..Len(seqs), NEW g, Joins(g, n - 1)
      PROVE  \E f : Joins(f, n)
  <2> DEFINE f == [i \in 1..n |-> IF i = n THEN g[n - 1] \o seqs[n] ELSE g[i]]
  <2>1. ASSUME NEW i \in 1..n
        PROVE  f[i] = IF i = 1 THEN seqs[i] ELSE f[i - 1] \o seqs[i]
    <3>1. \A j \in 1..(n - 1) : g[j] = IF j = 1 THEN seqs[j] ELSE g[j - 1] \o seqs[j]
      BY <1>1
    <3> HIDE DEF Joins
    <3>2. CASE i = n
      <4>1. n - 1 \in 1..n /\ n - 1 # n /\ n # 1 /\ n \in 1..n
        OBVIOUS
      <4>2. f[n - 1] = g[n - 1] /\ f[n] = g[n - 1] \o seqs[n]
        BY <4>1
      <4> QED
        BY <3>2, <4>1, <4>2
    <3>3. CASE i # n /\ i = 1
      BY <3>1, <3>3
    <3>4. CASE i # n /\ i # 1
      <4>1. i \in 1..(n - 1) /\ i - 1 \in 1..n /\ i - 1 # n
        BY <3>4
      <4> QED
        BY <3>1, <3>4, <4>1
    <3> QED
      BY <3>2, <3>3, <3>4
  <2>2. Joins(f, n)
    <3>1. f = [i \in 1..n |-> f[i]]
      OBVIOUS
    <3> HIDE DEF f
    <3> QED
      BY <2>1, <3>1
  <2> QED
    BY <2>2
<1> DEFINE Good == {n \in 1..Len(seqs) : \E f : Joins(f, n)}
<1>2. 1 \in Good
  <2> DEFINE f == [i \in 1..1 |-> seqs[1]]
  <2>1. Joins(f, 1)
    OBVIOUS
  <2> HIDE DEF Joins
  <2> QED
    BY <2>1
<1>3. \A n \in 2..Len(seqs) : n - 1 \in Good => n \in Good
  <2> HIDE DEF Joins
  <2> QED
    BY <1>1
<1>4. Len(seqs) \in Good
  <2> HIDE DEF Good
  <2>1. Len(seqs) \in Nat /\ Len(seqs) \in 1..Len(seqs)
    OBVIOUS
  <2>2. \A n \in 1..Len(seqs) : n \in Good
    BY <1>2, <1>3, <2>1, AllFromFirst
  <2> QED
    BY <2>1, <2>2
<1> DEFINE f == CHOOSE f : Joins(f, Len(seqs))
<1>5. Joins(f, Len(seqs))
  <2> HIDE DEF Joins
  <2> QED
    BY <1>4, Zenon
<1>6. FlattenSeq(seqs) = f[Len(seqs)]
  BY DEF FlattenSeq
<1> HIDE DEF f
<1>7. \A i \in 1..Len(seqs) : f[i] = IF i = 1 THEN seqs[i] ELSE f[i - 1] \o seqs[i]
  BY <1>5
<1>8. f[1] = seqs[1]
  BY <1>7
<1>9. ASSUME NEW i \in 2..Len(seqs) PROVE f[i] = f[i - 1] \o seqs[i]
  <2>1. i \in 1..Len(seqs) /\ i # 1
    OBVIOUS
  <2> QED
    BY <1>7, <2>1
<1> QED
  BY <1>6, <1>8, <1>9, Zenon

(* What it holds is what they hold.                                           *)
LEMMA FlattenType ==
  ASSUME NEW S, NEW seqs \in Seq(Seq(S))
  PROVE  FlattenSeq(seqs) \in Seq(S)
<1>0. Len(seqs) \in Nat /\ \A i \in 1..Len(seqs) : seqs[i] \in Seq(S)
  OBVIOUS
<1>1. CASE Len(seqs) = 0
  BY <1>1 DEF FlattenSeq
<1>2. CASE Len(seqs) # 0
  <2>1. PICK f : /\ f[1] = seqs[1]
                 /\ \A i \in 2..Len(seqs) : f[i] = f[i - 1] \o seqs[i]
                 /\ FlattenSeq(seqs) = f[Len(seqs)]
    BY <1>0, <1>2, Joined, Zenon
  <2> DEFINE Good == {i \in 1..Len(seqs) : f[i] \in Seq(S)}
  <2>2. 1 \in Good
    BY <1>0, <1>2, <2>1
  <2>3. ASSUME NEW i \in 2..Len(seqs), i - 1 \in Good PROVE i \in Good
    <3>1. i \in 1..Len(seqs)
      BY <1>0
    <3>2. f[i] = f[i - 1] \o seqs[i]
      BY <2>1
    <3>3. f[i - 1] \in Seq(S) /\ seqs[i] \in Seq(S)
      BY <1>0, <2>3, <3>1
    <3>4. f[i] \in Seq(S)
      BY <3>2, <3>3
    <3> QED
      BY <3>1, <3>4
  <2>4. Len(seqs) \in Good
    <3> HIDE DEF Good
    <3>1. \A i \in 1..Len(seqs) : i \in Good
      BY <1>0, <2>2, <2>3, AllFromFirst, Zenon
    <3> QED
      BY <1>0, <1>2, <3>1
  <2> QED
    BY <2>1, <2>4
<1> QED
  BY <1>1, <1>2

(* Of sequences of two or no elements it makes pairs.                         *)
Pairs(s, A, B) ==
  /\ IsSeq(s) /\ Len(s) % 2 = 0
  /\ \A k \in 1..Len(s) : IF k % 2 = 1 THEN s[k] \in A ELSE s[k] \in B

LEMMA JoinedPairs ==
  ASSUME NEW s, NEW t, NEW A, NEW B, Pairs(s, A, B), Pairs(t, A, B)
  PROVE  Pairs(s \o t, A, B)
<1>1. IsSeq(s) /\ IsSeq(t)
  BY DEF Pairs
<1>2. /\ IsSeq(s \o t) /\ Len(s \o t) = Len(s) + Len(t)
      /\ \A k \in 1..Len(s) : (s \o t)[k] = s[k]
      /\ \A k \in 1..Len(t) : (s \o t)[Len(s) + k] = t[k]
  BY <1>1, JoinFacts
<1>3. Len(s) \in Nat /\ Len(t) \in Nat
  BY <1>1, IsSeqFacts
<1>4. Len(s) % 2 = 0 /\ Len(t) % 2 = 0
  BY DEF Pairs
<1>5. ASSUME NEW k \in 1..Len(s \o t)
      PROVE  IF k % 2 = 1 THEN (s \o t)[k] \in A ELSE (s \o t)[k] \in B
  <2>1. CASE k <= Len(s)
    BY <1>2, <1>3, <2>1 DEF Pairs
  <2>2. CASE ~ (k <= Len(s))
    <3>0. k \in 1..(Len(s) + Len(t))
      BY <1>2
    <3>1. k - Len(s) \in 1..Len(t) /\ (k - Len(s)) % 2 = k % 2
      <4> DEFINE a == Len(s)  b == Len(t)
      <4>1. a \in Nat /\ b \in Nat /\ a % 2 = 0 /\ k \in 1..(a + b) /\ ~ (k <= a)
        BY <1>3, <1>4, <2>2, <3>0
      <4> HIDE DEF a, b
      <4>2. k - a \in 1..b /\ (k - a) % 2 = k % 2
        BY <4>1
      <4> QED
        BY <4>2 DEF a, b
    <3>2. (s \o t)[k] = t[k - Len(s)]
      <4>1. Len(s) + (k - Len(s)) = k
        BY <1>2, <1>3
      <4> QED
        BY <1>2, <3>1, <4>1
    <3> QED
      BY <3>1, <3>2 DEF Pairs
  <2> QED
    BY <2>1, <2>2
<1>6. Len(s \o t) % 2 = 0
  BY <1>2, <1>3, <1>4
<1> QED
  BY <1>2, <1>5, <1>6 DEF Pairs

LEMMA FlattenPairs ==
  ASSUME NEW A, NEW B, NEW seqs, IsSeq(seqs), \A i \in 1..Len(seqs) : Pairs(seqs[i], A, B)
  PROVE  Pairs(FlattenSeq(seqs), A, B)
<1>0. Len(seqs) \in Nat
  BY IsSeqFacts
<1>1. CASE Len(seqs) = 0
  <2>1. FlattenSeq(seqs) = <<>>
    BY <1>1, IsSeqFacts DEF FlattenSeq
  <2> QED
    BY <2>1, TupleFacts DEF Pairs
<1>2. CASE Len(seqs) # 0
  <2>1. PICK f : /\ f[1] = seqs[1]
                 /\ \A i \in 2..Len(seqs) : f[i] = f[i - 1] \o seqs[i]
                 /\ FlattenSeq(seqs) = f[Len(seqs)]
    BY <1>0, <1>2, Joined, Zenon
  <2> DEFINE Good == {i \in 1..Len(seqs) : Pairs(f[i], A, B)}
  <2>2. 1 \in Good
    BY <1>0, <1>2, <2>1
  <2>3. ASSUME NEW i \in 2..Len(seqs), i - 1 \in Good PROVE i \in Good
    <3>1. i \in 1..Len(seqs)
      BY <1>0
    <3>2. f[i] = f[i - 1] \o seqs[i]
      BY <2>1
    <3> QED
      BY <2>3, <3>1, <3>2, JoinedPairs
  <2>4. Len(seqs) \in Good
    <3> HIDE DEF Good
    <3>1. \A i \in 1..Len(seqs) : i \in Good
      BY <1>0, <2>2, <2>3, AllFromFirst, Zenon
    <3> QED
      BY <1>0, <1>2, <3>1
  <2> QED
    BY <2>1, <2>4
<1> QED
  BY <1>1, <1>2

-------------------------------------------------------------------------------
\* Sequences of sequences

LEMMA StreamFacts ==
  ASSUME NEW s, IsStream(s)
  PROVE  /\ s # <<>> => IsStream(Tail(s))
         /\ \A n \in 0..Len(s) : IsStream(SubSeq(s, 1, n))
         /\ \A t : IsStream(t) => IsStream(s \o t)
<1>1. IsSeq(s) /\ Len(s) \in Nat /\ \A k \in 1..Len(s) : IsSeq(s[k])
  BY IsSeqFacts DEF IsStream
<1>2. ASSUME s # <<>> PROVE IsStream(Tail(s))
  <2>1. IsSeq(Tail(s)) /\ DOMAIN Tail(s) = 1..(Len(s) - 1) /\ \A k \in 1..(Len(s) - 1) : Tail(s)[k] = s[k + 1]
    BY <1>1, <1>2, IsSeqFacts
  <2>2. \A k \in 1..(Len(s) - 1) : k + 1 \in 1..Len(s)
    BY <1>1
  <2> QED
    BY <1>1, <2>1, <2>2 DEF IsStream
<1>3. ASSUME NEW n \in 0..Len(s) PROVE IsStream(SubSeq(s, 1, n))
  <2> DEFINE p == SubSeq(s, 1, n)
  <2>1. IsSeq(p) /\ Len(p) = n /\ \A k \in 1..n : p[k] = s[k]
    BY <1>1, PartFacts
  <2>2. DOMAIN p = 1..n
    BY <2>1, IsSeqFacts
  <2> QED
    BY <1>1, <2>1, <2>2 DEF IsStream
<1>4. ASSUME NEW t, IsStream(t) PROVE IsStream(s \o t)
  <2>1. IsSeq(t) /\ Len(t) \in Nat /\ \A k \in 1..Len(t) : IsSeq(t[k])
    BY <1>4, IsSeqFacts DEF IsStream
  <2> DEFINE j == s \o t
  <2>2. /\ IsSeq(j) /\ Len(j) = Len(s) + Len(t)
        /\ \A k \in 1..Len(s) : j[k] = s[k]
        /\ \A k \in 1..Len(t) : j[Len(s) + k] = t[k]
    BY <1>1, <2>1, JoinFacts
  <2> HIDE DEF j
  <2>3. DOMAIN j = 1..(Len(s) + Len(t))
    BY <2>2, IsSeqFacts
  <2>4. ASSUME NEW k \in DOMAIN j PROVE IsSeq(j[k])
    <3>1. CASE k <= Len(s)
      BY <1>1, <2>2, <2>3, <3>1
    <3>2. CASE ~ (k <= Len(s))
      <4>1. k - Len(s) \in 1..Len(t) /\ Len(s) + (k - Len(s)) = k
        BY <1>1, <2>1, <2>3, <3>2
      <4> QED
        BY <2>1, <2>2, <4>1
    <3> QED
      BY <3>1, <3>2
  <2>5. IsStream(j)
    BY <2>2, <2>4 DEF IsStream
  <2> QED
    BY <2>5 DEF j
<1> QED
  BY <1>2, <1>3, <1>4

LEMMA TupleStream ==
  /\ IsStream(<<>>)
  /\ \A a : IsSeq(a) => IsStream(<<a>>)
  /\ \A a, b : IsSeq(a) /\ IsSeq(b) => IsStream(<<a, b>>)
<1>1. IsStream(<<>>)
  BY TupleFacts, IsSeqFacts DEF IsStream
<1>2. ASSUME NEW a, IsSeq(a) PROVE IsStream(<<a>>)
  <2>1. DOMAIN <<a>> = 1..1
    OBVIOUS
  <2> QED
    BY <1>2, <2>1, TupleFacts DEF IsStream
<1>3. ASSUME NEW a, NEW b, IsSeq(a), IsSeq(b) PROVE IsStream(<<a, b>>)
  <2>1. DOMAIN <<a, b>> = 1..2
    OBVIOUS
  <2> QED
    BY <1>3, <2>1, TupleFacts DEF IsStream
<1> QED
  BY <1>1, <1>2, <1>3

LEMMA StreamShape ==
  ASSUME NEW s, IsStream(s)
  PROVE  /\ Len(s) \in Nat /\ DOMAIN s = 1..Len(s) /\ (s = <<>> <=> Len(s) = 0)
         /\ \A k \in 1..Len(s) : IsSeq(s[k]) /\ Len(s[k]) \in Nat
BY IsSeqFacts DEF IsStream

LEMMA TailShape ==
  ASSUME NEW s, IsStream(s), s # <<>>
  PROVE  /\ IsStream(Tail(s)) /\ Len(Tail(s)) = Len(s) - 1
         /\ \A k \in 1..(Len(s) - 1) : Tail(s)[k] = s[k + 1]
BY IsSeqFacts, StreamFacts DEF IsStream

LEMMA SecondTailShape ==
  ASSUME NEW s, IsStream(s), s # <<>>, Tail(s) # <<>>
  PROVE  /\ IsStream(Tail(Tail(s))) /\ Len(Tail(Tail(s))) = Len(s) - 2
         /\ \A k \in 1..(Len(s) - 2) : Tail(Tail(s))[k] = s[k + 2]
<1> DEFINE t == Tail(s)  u == Tail(t)
<1>1. IsStream(t) /\ Len(t) = Len(s) - 1 /\ \A k \in 1..(Len(s) - 1) : t[k] = s[k + 1]
  BY TailShape
<1>2. t # <<>>
  OBVIOUS
<1>3. Len(s) \in Nat
  BY StreamShape
<1> HIDE DEF t
<1>4. IsStream(u) /\ Len(u) = Len(t) - 1 /\ \A k \in 1..(Len(t) - 1) : u[k] = t[k + 1]
  BY <1>1, <1>2, TailShape
<1> HIDE DEF u
<1>5. ASSUME NEW k \in 1..(Len(s) - 2) PROVE u[k] = s[k + 2]
  <2>1. k \in 1..(Len(t) - 1) /\ k + 1 \in 1..(Len(s) - 1) /\ (k + 1) + 1 = k + 2
    BY <1>1, <1>3
  <2> QED
    BY <1>1, <1>4, <2>1
<1>6. IsStream(u) /\ Len(u) = Len(s) - 2
  BY <1>1, <1>3, <1>4
<1> QED
  BY <1>5, <1>6 DEF u, t

LEMMA PartShape ==
  ASSUME NEW s, IsStream(s), NEW n \in 0..Len(s), NEW p, p = SubSeq(s, 1, n)
  PROVE  IsStream(p) /\ Len(p) = n /\ \A k \in 1..n : p[k] = s[k]
BY PartFacts, StreamFacts DEF IsStream

\* A function on the places of a sequence is a sequence.
LEMMA OnPlaces ==
  ASSUME NEW S, NEW T, NEW s \in Seq(S), NEW f, f = [i \in DOMAIN s |-> f[i]],
         \A i \in DOMAIN s : f[i] \in T
  PROVE  f \in Seq(T)
<1>1. DOMAIN s = 1..Len(s) /\ Len(s) \in Nat
  OBVIOUS
<1>2. f \in [1..Len(s) -> T]
  BY <1>1
<1> QED
  BY <1>1, <1>2, FunctionIsSeq

LEMMA WrittenType ==
  ASSUME NEW e \in EntryText
  PROVE  Written(e) \in Seq(Seq(Nat))
<1> DEFINE f == [k \in DOMAIN e |-> IF ScanAttrs(e)[k] = "WRITE" THEN <<e[k].val>> ELSE <<>>]
<1>1. e \in Seq(Field)
  BY DEF EntryText
<1>2. \A k \in DOMAIN e : f[k] \in Seq(Seq(Nat))
  <2> SUFFICES ASSUME NEW k \in DOMAIN e PROVE f[k] \in Seq(Seq(Nat))
    OBVIOUS
  <2>1. e[k] \in Field
    BY <1>1
  <2>2. e[k].val \in Seq(Nat)
    BY <2>1 DEF Field, Text
  <2> QED
    BY <2>2
<1>3. f = [k \in DOMAIN e |-> f[k]]
  OBVIOUS
<1>4. Written(e) = FlattenSeq(f)
  BY DEF Written
<1> HIDE DEF f
<1>5. f \in Seq(Seq(Seq(Nat)))
  BY <1>1, <1>2, <1>3, OnPlaces
<1> QED
  BY <1>4, <1>5, FlattenType

LEMMA JoinEmpty == \A s : IsSeq(s) => <<>> \o s = s /\ s \o <<>> = s
<1>1. ASSUME NEW s, IsSeq(s) PROVE <<>> \o s = s /\ s \o <<>> = s
  <2>1. s \in Seq(Range(s))
    BY <1>1 DEF IsSeq
  <2> QED
    BY <2>1
<1> QED
  BY <1>1

\* What is added at the end is in it.
LEMMA JoinRange ==
  ASSUME NEW s, NEW t, IsSeq(s), IsSeq(t)
  PROVE  /\ \A x \in Range(s) : x \in Range(s \o t)
         /\ \A k \in 1..Len(t) : t[k] \in Range(s \o t)
<1>1. /\ IsSeq(s \o t) /\ Len(s \o t) = Len(s) + Len(t)
      /\ \A k \in 1..Len(s) : (s \o t)[k] = s[k]
      /\ \A k \in 1..Len(t) : (s \o t)[Len(s) + k] = t[k]
  BY JoinFacts
<1>2. /\ Len(s) \in Nat /\ Len(t) \in Nat /\ DOMAIN s = 1..Len(s)
      /\ DOMAIN (s \o t) = 1..(Len(s) + Len(t))
  BY <1>1, IsSeqFacts
<1>3. ASSUME NEW x \in Range(s) PROVE x \in Range(s \o t)
  <2>1. PICK k \in DOMAIN s : x = s[k]
    BY DEF Range
  <2>2. k \in DOMAIN (s \o t) /\ (s \o t)[k] = x
    BY <1>1, <1>2, <2>1
  <2> QED
    BY <2>2 DEF Range
<1>4. ASSUME NEW k \in 1..Len(t) PROVE t[k] \in Range(s \o t)
  <2>1. Len(s) + k \in DOMAIN (s \o t) /\ (s \o t)[Len(s) + k] = t[k]
    BY <1>1, <1>2
  <2> QED
    BY <2>1 DEF Range
<1> QED
  BY <1>3, <1>4

-------------------------------------------------------------------------------
\* Where FlattenSeq puts what

\* s holds every sequence of seqs after its offset.
Lays(off, seqs, s) ==
  /\ IsSeq(s)
  /\ \A i \in 1..(Len(seqs) + 1) : off[i] \in Nat
  /\ off[1] = 0 /\ off[Len(seqs) + 1] = Len(s)
  /\ \A i \in 1..Len(seqs) :
       /\ off[i + 1] = off[i] + Len(seqs[i])
       /\ \A j \in 1..Len(seqs[i]) : s[off[i] + j] = seqs[i][j]

LEMMA FlattenLays ==
  ASSUME NEW seqs, IsSeq(seqs), \A i \in 1..Len(seqs) : IsSeq(seqs[i])
  PROVE  \E off : Lays(off, seqs, FlattenSeq(seqs))
<1>0. Len(seqs) \in Nat
  BY IsSeqFacts
<1>1. CASE Len(seqs) = 0
  <2> DEFINE off == [i \in 1..1 |-> 0]
  <2>1. FlattenSeq(seqs) = <<>> /\ IsSeq(<<>>) /\ Len(<<>>) = 0
    BY <1>1, IsSeqFacts, TupleFacts DEF FlattenSeq
  <2>2. Lays(off, seqs, <<>>)
    BY <1>1, <2>1 DEF Lays
  <2> QED
    BY <2>1, <2>2
<1>2. CASE Len(seqs) # 0
  <2>1. PICK f : /\ f[1] = seqs[1]
                 /\ \A i \in 2..Len(seqs) : f[i] = f[i - 1] \o seqs[i]
                 /\ FlattenSeq(seqs) = f[Len(seqs)]
    BY <1>0, <1>2, Joined, Zenon
  <2> DEFINE off == [i \in 1..(Len(seqs) + 1) |-> IF i = 1 THEN 0 ELSE Len(f[i - 1])]
             Upto(n) == \A i \in 1..n : /\ off[i] \in Nat /\ off[i] + Len(seqs[i]) <= Len(f[n])
                                       /\ \A j \in 1..Len(seqs[i]) : f[n][off[i] + j] = seqs[i][j]
             Good == {n \in 1..Len(seqs) :
                        /\ IsSeq(f[n]) /\ off[n + 1] = off[n] + Len(seqs[n])
                        /\ Upto(n)}
  <2>2. off[1] = 0 /\ \A i \in 1..Len(seqs) : off[i + 1] = Len(f[i])
    BY <1>0
  <2>3. \A i \in 1..Len(seqs) : IsSeq(seqs[i]) /\ Len(seqs[i]) \in Nat
    BY IsSeqFacts
  <2> HIDE DEF off
  <2>4. 1 \in Good
    <3>1. 1 \in 1..Len(seqs) /\ \A i \in 1..1 : i = 1
      BY <1>0, <1>2
    <3>2. off[1 + 1] = Len(f[1])
      BY <2>2, <3>1
    <3>3. IsSeq(f[1]) /\ off[1 + 1] = off[1] + Len(seqs[1])
      BY <2>1, <2>2, <2>3, <3>1, <3>2
    <3>4. Upto(1)
      BY <2>1, <2>2, <2>3, <3>1
    <3> QED
      BY <3>1, <3>3, <3>4
  <2>5. ASSUME NEW n \in 2..Len(seqs), n - 1 \in Good PROVE n \in Good
    <3>1. n \in 1..Len(seqs) /\ n - 1 \in 1..Len(seqs) /\ n - 1 + 1 = n /\ n \in Nat
      BY <1>0
    <3>2. f[n] = f[n - 1] \o seqs[n]
      BY <2>1
    <3>3. IsSeq(f[n - 1]) /\ Upto(n - 1) /\ IsSeq(seqs[n])
      BY <2>3, <2>5, <3>1
    <3>4. /\ IsSeq(f[n]) /\ Len(f[n]) = Len(f[n - 1]) + Len(seqs[n])
          /\ \A k \in 1..Len(f[n - 1]) : f[n][k] = f[n - 1][k]
          /\ \A k \in 1..Len(seqs[n]) : f[n][Len(f[n - 1]) + k] = seqs[n][k]
      <4> DEFINE a == f[n - 1]  b == seqs[n]  c == f[n]
      <4>1. IsSeq(a) /\ IsSeq(b) /\ c = a \o b
        BY <3>2, <3>3
      <4> HIDE DEF a, b, c
      <4>2. /\ IsSeq(c) /\ Len(c) = Len(a) + Len(b)
            /\ \A k \in 1..Len(a) : c[k] = a[k]
            /\ \A k \in 1..Len(b) : c[Len(a) + k] = b[k]
        <5>1. /\ IsSeq(a \o b) /\ Len(a \o b) = Len(a) + Len(b)
              /\ \A k \in 1..Len(a) : (a \o b)[k] = a[k]
              /\ \A k \in 1..Len(b) : (a \o b)[Len(a) + k] = b[k]
          BY <4>1, JoinFacts
        <5>2. c = a \o b
          BY <4>1
        <5> QED
          BY <5>1, <5>2
      <4> QED
        BY <4>2 DEF a, b, c
    <3>5. off[n + 1] = Len(f[n]) /\ off[n] = Len(f[n - 1]) /\ Len(f[n - 1]) \in Nat
      <4>1. off[n - 1 + 1] = Len(f[n - 1])
        BY <2>2, <3>1
      <4> QED
        BY <2>2, <3>1, <3>3, <4>1, IsSeqFacts
    <3>6. ASSUME NEW i \in 1..n
          PROVE  /\ off[i] \in Nat /\ off[i] + Len(seqs[i]) <= Len(f[n])
                 /\ \A j \in 1..Len(seqs[i]) : f[n][off[i] + j] = seqs[i][j]
      <4>1. CASE i = n
        <5> HIDE DEF Good, Upto
        <5>1. off[n] \in Nat /\ Len(seqs[n]) \in Nat /\ off[n] + Len(seqs[n]) = Len(f[n])
          BY <2>3, <3>1, <3>4, <3>5
        <5>2. \A j \in 1..Len(seqs[n]) : f[n][off[n] + j] = seqs[n][j]
          BY <3>4, <3>5
        <5> QED
          BY <4>1, <5>1, <5>2
      <4>2. CASE i # n
        <5>1. /\ off[i] \in Nat /\ off[i] + Len(seqs[i]) <= Len(f[n - 1])
              /\ \A j \in 1..Len(seqs[i]) : f[n - 1][off[i] + j] = seqs[i][j]
          BY <3>1, <3>3, <4>2
        <5>2. Len(seqs[i]) \in Nat /\ Len(seqs[n]) \in Nat
          BY <2>3, <3>1
        <5>3. ASSUME NEW j \in 1..Len(seqs[i]) PROVE f[n][off[i] + j] = seqs[i][j]
          <6>1. off[i] + j \in 1..Len(f[n - 1])
            BY <3>5, <5>1, <5>2
          <6> QED
            BY <3>4, <5>1, <6>1
        <5>4. off[i] + Len(seqs[i]) <= Len(f[n])
          <6> DEFINE a == off[i] + Len(seqs[i])  b == Len(f[n - 1])  c == Len(seqs[n])
          <6>1. Len(f[n]) = b + c /\ a \in Nat /\ b \in Nat /\ c \in Nat /\ a <= b
            BY <3>4, <3>5, <5>1, <5>2
          <6> HIDE DEF a, b, c
          <6>2. a <= Len(f[n])
            BY <6>1
          <6> QED
            BY <6>2 DEF a
        <5> QED
          BY <5>1, <5>3, <5>4
      <4> QED
        BY <4>1, <4>2
    <3> QED
      BY <3>1, <3>4, <3>5, <3>6
  <2>6. \A n \in 1..Len(seqs) : n \in Good
    <3> HIDE DEF Good
    <3> QED
      BY <1>0, <2>4, <2>5, AllFromFirst, Zenon
  <2>7. Len(seqs) \in 1..Len(seqs)
    BY <1>0, <1>2
  <2>8. /\ IsSeq(f[Len(seqs)]) /\ Upto(Len(seqs))
        /\ off[Len(seqs) + 1] = Len(f[Len(seqs)]) /\ Len(f[Len(seqs)]) \in Nat
    BY <2>2, <2>6, <2>7, IsSeqFacts
  <2>9. \A i \in 1..Len(seqs) : off[i + 1] = off[i] + Len(seqs[i])
    BY <2>6
  <2>10. \A i \in 1..(Len(seqs) + 1) : off[i] \in Nat
    <3> SUFFICES ASSUME NEW i \in 1..(Len(seqs) + 1) PROVE off[i] \in Nat
      OBVIOUS
    <3>1. CASE i = Len(seqs) + 1
      BY <2>8, <3>1
    <3>2. CASE i # Len(seqs) + 1
      <4>1. i \in 1..Len(seqs)
        BY <1>0, <3>2
      <4> QED
        BY <2>8, <4>1
    <3> QED
      BY <3>1, <3>2
  <2>11. Lays(off, seqs, f[Len(seqs)])
    BY <2>2, <2>8, <2>9, <2>10 DEF Lays
  <2> QED
    BY <2>1, <2>11
<1> QED
  BY <1>1, <1>2

(* The offsets grow, and every place belongs to one sequence.                 *)
LEMMA LaysGrow ==
  ASSUME NEW seqs, IsSeq(seqs), \A i \in 1..Len(seqs) : IsSeq(seqs[i]),
         NEW off, NEW s, Lays(off, seqs, s)
  PROVE  \A i, k \in 1..(Len(seqs) + 1) : i <= k => off[i] <= off[k]
<1>0. Len(seqs) \in Nat /\ \A i \in 1..Len(seqs) : Len(seqs[i]) \in Nat
  BY IsSeqFacts
<1> SUFFICES ASSUME NEW i \in 1..(Len(seqs) + 1)
             PROVE  \A k \in 1..(Len(seqs) + 1) : i <= k => off[i] <= off[k]
  OBVIOUS
<1> DEFINE Good == {k \in 1..(Len(seqs) + 1) : i <= k => off[i] <= off[k]}
<1>1. 1 \in Good
  BY <1>0 DEF Lays
<1>2. ASSUME NEW k \in 2..(Len(seqs) + 1), k - 1 \in Good PROVE k \in Good
  <2>1. k \in 1..(Len(seqs) + 1) /\ k - 1 \in 1..Len(seqs) /\ k - 1 + 1 = k
    BY <1>0
  <2>2. off[k] = off[k - 1] + Len(seqs[k - 1]) /\ off[k] \in Nat /\ off[k - 1] \in Nat /\ off[i] \in Nat
    <3>1. off[k - 1 + 1] = off[k - 1] + Len(seqs[k - 1])
      BY <2>1 DEF Lays
    <3>2. k - 1 \in 1..(Len(seqs) + 1)
      BY <1>0, <2>1
    <3> QED
      BY <2>1, <3>1, <3>2 DEF Lays
  <2>3. Len(seqs[k - 1]) \in Nat
    BY <1>0, <2>1
  <2>4. i <= k - 1 => off[i] <= off[k - 1]
    BY <1>2
  <2> QED
    BY <1>0, <2>1, <2>2, <2>3, <2>4
<1>3. \A k \in 1..(Len(seqs) + 1) : k \in Good
  <2>1. Len(seqs) + 1 \in Nat
    BY <1>0
  <2> HIDE DEF Good
  <2> QED
    BY <1>1, <1>2, <2>1, AllFromFirst
<1> QED
  BY <1>3

LEMMA LaysCover ==
  ASSUME NEW seqs, IsSeq(seqs), \A i \in 1..Len(seqs) : IsSeq(seqs[i]),
         NEW off, NEW s, Lays(off, seqs, s), NEW p \in 1..Len(s)
  PROVE  \E i \in 1..Len(seqs) : \E j \in 1..Len(seqs[i]) : p = off[i] + j /\ s[p] = seqs[i][j]
<1>0. Len(seqs) \in Nat /\ \A i \in 1..Len(seqs) : Len(seqs[i]) \in Nat
  BY IsSeqFacts
<1> DEFINE Past == {i \in 1..(Len(seqs) + 1) : p <= off[i]}
<1>1. Past \subseteq Nat /\ Len(seqs) + 1 \in Past
  BY <1>0 DEF Lays
<1> HIDE DEF Past
<1>2. PICK k \in Past : \A m \in Past : ~ (m < k)
  BY <1>1, Least
<1> USE DEF Past
<1>3. k # 1
  BY <1>2 DEF Lays
<1>4. k - 1 \in 1..Len(seqs) /\ k - 1 + 1 = k /\ k - 1 \in 1..(Len(seqs) + 1)
  BY <1>0, <1>3
<1>5. off[k] = off[k - 1] + Len(seqs[k - 1]) /\ off[k - 1] \in Nat /\ p <= off[k]
  <2>1. off[k - 1 + 1] = off[k - 1] + Len(seqs[k - 1])
    BY <1>4 DEF Lays
  <2> QED
    BY <1>4, <2>1 DEF Lays
<1>6. ~ (p <= off[k - 1])
  BY <1>2, <1>4
<1>7. p - off[k - 1] \in 1..Len(seqs[k - 1]) /\ p = off[k - 1] + (p - off[k - 1])
  BY <1>0, <1>4, <1>5, <1>6
<1>8. s[off[k - 1] + (p - off[k - 1])] = seqs[k - 1][p - off[k - 1]]
  BY <1>4, <1>7 DEF Lays
<1> QED
  BY <1>4, <1>7, <1>8

LEMMA LaysTwos ==
  ASSUME NEW f, IsSeq(f), \A k \in 1..Len(f) : IsSeq(f[k]) /\ Len(f[k]) = 2
  PROVE  /\ IsSeq(FlattenSeq(f)) /\ Len(FlattenSeq(f)) = 2 * Len(f)
         /\ \A k \in 1..Len(f) : /\ FlattenSeq(f)[2 * k - 1] = f[k][1]
                                  /\ FlattenSeq(f)[2 * k] = f[k][2]
<1> DEFINE p == FlattenSeq(f)  n == Len(f)
<1>0. n \in Nat
  BY IsSeqFacts
<1>1. PICK off : Lays(off, f, p)
  BY FlattenLays
<1>2. /\ IsSeq(p) /\ off[1] = 0 /\ off[n + 1] = Len(p)
      /\ \A i \in 1..n : off[i + 1] = off[i] + 2
  BY <1>1 DEF Lays
<1>3. ASSUME NEW i \in 1..n PROVE p[off[i] + 1] = f[i][1] /\ p[off[i] + 2] = f[i][2]
  <2>1. 1 \in 1..Len(f[i]) /\ 2 \in 1..Len(f[i])
    <3>1. Len(f[i]) = 2
      OBVIOUS
    <3> QED
      BY <3>1
  <2>2. \A j \in 1..Len(f[i]) : p[off[i] + j] = f[i][j]
    BY <1>1 DEF Lays
  <2> QED
    BY <2>1, <2>2
<1> HIDE DEF p, n
<1> DEFINE Good == {i \in 1..(n + 1) : off[i] = 2 * i - 2}
<1>7. 1 \in Good
  BY <1>0, <1>2
<1>8. ASSUME NEW i \in 2..(n + 1), i - 1 \in Good PROVE i \in Good
  <2>1. i - 1 \in 1..n /\ i - 1 + 1 = i /\ i \in 1..(n + 1)
    BY <1>0
  <2>2. off[i - 1 + 1] = off[i - 1] + 2 /\ off[i - 1] = 2 * (i - 1) - 2
    BY <1>2, <1>8, <2>1
  <2> QED
    BY <2>1, <2>2
<1>9. \A i \in 1..(n + 1) : i \in Good
  <2> HIDE DEF Good
  <2>1. n + 1 \in Nat
    BY <1>0
  <2> QED
    BY <1>7, <1>8, <2>1, AllFromFirst
<1>10. Len(p) = 2 * n
  <2>1. n + 1 \in Good
    BY <1>0, <1>9
  <2> QED
    BY <1>0, <1>2, <2>1
<1>11. ASSUME NEW k \in 1..n PROVE p[2 * k - 1] = f[k][1] /\ p[2 * k] = f[k][2]
  <2>1. off[k] = 2 * k - 2
    BY <1>0, <1>9
  <2>2. off[k] + 1 = 2 * k - 1 /\ off[k] + 2 = 2 * k
    BY <2>1
  <2> QED
    BY <1>3, <2>2
<1> QED
  BY <1>2, <1>10, <1>11 DEF p, n

LEMMA SameSeq ==
  ASSUME NEW s, NEW t, IsSeq(s), IsSeq(t), Len(s) = Len(t), \A k \in 1..Len(s) : s[k] = t[k]
  PROVE  s = t
<1> DEFINE S == Range(s) \cup Range(t)
<1>1. s \in Seq(S) /\ t \in Seq(S)
  BY SeqGrows, Zenon DEF IsSeq
<1> HIDE DEF S
<1> QED
  BY <1>1

LEMMA Halves ==
  ASSUME NEW n \in Nat, NEW k \in 1..(2 * n)
  PROVE  \E j \in 1..n : k = 2 * j - 1 \/ k = 2 * j
<1> DEFINE a == k \div 2  b == k % 2
<1>1. k = 2 * a + b /\ a \in Nat /\ b \in {0, 1}
  OBVIOUS
<1> HIDE DEF a, b
<1>2. CASE b = 0
  <2>1. a \in 1..n /\ k = 2 * a
    BY <1>1, <1>2
  <2> QED
    BY <2>1
<1>3. CASE b = 1
  <2>1. a + 1 \in 1..n /\ k = 2 * (a + 1) - 1
    BY <1>1, <1>3
  <2> QED
    BY <2>1
<1> QED
  BY <1>1, <1>2, <1>3

-------------------------------------------------------------------------------
\* What an update writes

LEMMA FlattenRange ==
  ASSUME NEW f, IsSeq(f), \A i \in 1..Len(f) : IsSeq(f[i])
  PROVE  IsSeq(FlattenSeq(f)) /\ Range(FlattenSeq(f)) = UNION {Range(f[i]) : i \in 1..Len(f)}
<1> DEFINE s == FlattenSeq(f)
<1>1. PICK off : Lays(off, f, s)
  BY FlattenLays
<1> HIDE DEF s
<1>0. /\ Len(f) \in Nat /\ \A i \in 1..Len(f) : Len(f[i]) \in Nat /\ DOMAIN f[i] = 1..Len(f[i])
      /\ IsSeq(s) /\ Len(s) \in Nat /\ DOMAIN s = 1..Len(s)
  BY <1>1, IsSeqFacts DEF Lays
<1>2. ASSUME NEW x \in Range(s) PROVE x \in UNION {Range(f[i]) : i \in 1..Len(f)}
  <2>1. PICK p \in 1..Len(s) : x = s[p]
    BY <1>0, Zenon DEF Range
  <2>2. PICK i \in 1..Len(f) : \E j \in 1..Len(f[i]) : s[p] = f[i][j]
    BY <1>1, LaysCover
  <2>3. x \in Range(f[i])
    BY <1>0, <2>1, <2>2, Zenon DEF Range
  <2> QED
    BY <2>3
<1>3. ASSUME NEW i \in 1..Len(f), NEW x \in Range(f[i]) PROVE x \in Range(s)
  <2>1. PICK j \in 1..Len(f[i]) : x = f[i][j]
    BY <1>0, Zenon DEF Range
  <2>2. s[off[i] + j] = x /\ off[i + 1] = off[i] + Len(f[i])
    BY <1>1, <2>1 DEF Lays
  <2>3. /\ off[i] \in Nat /\ off[i + 1] <= off[Len(f) + 1] /\ off[Len(f) + 1] = Len(s)
    <3>1. i \in 1..(Len(f) + 1) /\ i + 1 \in 1..(Len(f) + 1) /\ Len(f) + 1 \in 1..(Len(f) + 1) /\ i + 1 <= Len(f) + 1
      BY <1>0
    <3>2. off[i + 1] <= off[Len(f) + 1]
      BY <1>1, <3>1, LaysGrow
    <3> QED
      BY <1>1, <3>1, <3>2 DEF Lays
  <2>4. off[i] + j \in 1..Len(s)
    BY <1>0, <2>1, <2>2, <2>3
  <2> QED
    BY <1>0, <2>2, <2>4, Zenon DEF Range
<1> QED
  BY <1>0, <1>2, <1>3 DEF s

(* What is joined of sequences that have nothing twice, nor in common, has    *)
(* nothing twice.                                                             *)
LEMMA FlattenApart ==
  ASSUME NEW f, IsSeq(f), \A i \in 1..Len(f) : IsSeq(f[i]) /\ IsInjective(f[i]),
         \A i, k \in 1..Len(f) : i # k => Range(f[i]) \cap Range(f[k]) = {}
  PROVE  IsInjective(FlattenSeq(f))
<1> DEFINE s == FlattenSeq(f)
<1>1. PICK off : Lays(off, f, s)
  BY FlattenLays
<1> HIDE DEF s
<1>0. /\ \A i \in 1..Len(f) : DOMAIN f[i] = 1..Len(f[i])
      /\ DOMAIN s = 1..Len(s)
  BY <1>1, IsSeqFacts DEF Lays
<1>2. SUFFICES ASSUME NEW p \in 1..Len(s), NEW q \in 1..Len(s), s[p] = s[q] PROVE p = q
  BY <1>0, Zenon DEF IsInjective, s
<1> DEFINE At(x, i) == \E j \in 1..Len(f[i]) : x = off[i] + j /\ s[x] = f[i][j]
<1>11. \A i \in 1..Len(f) : IsSeq(f[i])
  OBVIOUS
<1>10. ASSUME NEW x \in 1..Len(s) PROVE \E i \in 1..Len(f) : At(x, i)
  <2>1. \E i \in 1..Len(f) : \E j \in 1..Len(f[i]) : x = off[i] + j /\ s[x] = f[i][j]
    BY <1>1, <1>11, LaysCover
  <2> QED
    BY <2>1
<1>3. PICK i \in 1..Len(f) : At(p, i)
  BY <1>10
<1>4. PICK j \in 1..Len(f[i]) : p = off[i] + j /\ s[p] = f[i][j]
  BY <1>3
<1>5. PICK k \in 1..Len(f) : At(q, k)
  BY <1>10
<1>6. PICK l \in 1..Len(f[k]) : q = off[k] + l /\ s[q] = f[k][l]
  BY <1>5
<1>7. f[i][j] \in Range(f[i]) /\ f[k][l] \in Range(f[k])
  BY <1>0, Zenon DEF Range
<1>8. i = k
  BY <1>2, <1>4, <1>6, <1>7
<1>9. j = l
  BY <1>0, <1>2, <1>4, <1>6, <1>8, Zenon DEF IsInjective
<1> QED
  BY <1>4, <1>6, <1>8, <1>9

LEMMA SingleFacts ==
  /\ Range(<<>>) = {} /\ IsInjective(<<>>)
  /\ \A x : Range(<<x>>) = {x} /\ IsInjective(<<x>>)
<1>1. \A x : Range(<<x>>) = {x}
  BY DEF Range
<1>2. \A x : IsInjective(<<x>>)
  BY DEF IsInjective
<1> QED
  BY <1>1, <1>2 DEF Range, IsInjective

(* A term with an entry, or without it.                                       *)
IsWritten(new, term, id, append) ==
  /\ new.str = term.str
  /\ Range(new.ids) = IF append THEN Range(term.ids) \cup {id} ELSE Range(term.ids) \ {id}
  /\ IsInjective(new.ids)
  /\ append \/ (term.ids # <<>> /\ term.ids # <<id>>) => new.ids # <<>>

(* The values that are written are those of the entry, each once.             *)
LEMMA WrittenValues ==
  ASSUME NEW e \in EntryText
  PROVE  Range(Written(e)) = ValuesOf(e) /\ IsInjective(Written(e))
<1> DEFINE First(k) == ~ e[k].pass /\ \A j \in 1..(k - 1) : e[j].pass \/ e[j].val # e[k].val
           f == [k \in DOMAIN e |-> IF ScanAttrs(e)[k] = "WRITE" THEN <<e[k].val>> ELSE <<>>]
<1>0. Len(e) \in Nat /\ DOMAIN e = 1..Len(e)
  BY DEF EntryText
<1>1. Written(e) = FlattenSeq(f)
  BY DEF Written
<1>2. \A k \in 1..Len(e) : f[k] = IF First(k) THEN <<e[k].val>> ELSE <<>>
  <2>1. \A k \in 1..Len(e) : (ScanAttrs(e)[k] = "WRITE") = First(k)
    BY <1>0 DEF ScanAttrs
  <2> HIDE DEF First
  <2> QED
    BY <1>0, <2>1
<1>3. IsSeq(f) /\ Len(f) = Len(e)
  <2> DEFINE S == {f[k] : k \in 1..Len(e)}
  <2>1. f \in [1..Len(e) -> S]
    BY <1>0
  <2> HIDE DEF f, S
  <2>2. f \in Seq(S) /\ Len(f) = Len(e)
    BY <1>0, <2>1, FunctionIsSeq
  <2> QED
    BY <2>2, SeqIsSeq
<1> HIDE DEF f
<1>4. ASSUME NEW k \in 1..Len(e)
      PROVE  /\ IsSeq(f[k]) /\ IsInjective(f[k])
             /\ Range(f[k]) = IF First(k) THEN {e[k].val} ELSE {}
  <2> DEFINE x == e[k].val
  <2>1. f[k] = IF First(k) THEN <<x>> ELSE <<>>
    BY <1>2
  <2> HIDE DEF x, First
  <2>2. IsSeq(<<x>>) /\ IsInjective(<<x>>) /\ Range(<<x>>) = {x}
    BY SingleFacts, TupleFacts
  <2>3. IsSeq(<<>>) /\ IsInjective(<<>>) /\ Range(<<>>) = {}
    BY SingleFacts, TupleFacts
  <2> QED
    BY <2>1, <2>2, <2>3 DEF x
<1>5. Range(FlattenSeq(f)) = UNION {Range(f[k]) : k \in 1..Len(e)}
  <2>1. \A k \in 1..Len(f) : IsSeq(f[k])
    BY <1>3, <1>4
  <2> QED
    BY <1>3, <2>1, FlattenRange
<1>6. ASSUME NEW x \in ValuesOf(e) PROVE x \in UNION {Range(f[k]) : k \in 1..Len(e)}
  <2> DEFINE S == {k \in 1..Len(e) : ~ e[k].pass /\ e[k].val = x}
  <2>1. S # {} /\ S \subseteq Nat
    BY <1>0 DEF ValuesOf
  <2> HIDE DEF S
  <2>2. PICK k \in S : \A m \in S : ~ (m < k)
    BY <2>1, Least
  <2> USE DEF S
  <2>3. k \in 1..Len(e) /\ ~ e[k].pass /\ e[k].val = x
    OBVIOUS
  <2>4. ASSUME NEW j \in 1..(k - 1) PROVE e[j].pass \/ e[j].val # e[k].val
    <3>1. j \in 1..Len(e) /\ j < k
      BY <1>0, <2>3
    <3>2. j \notin S
      BY <2>2, <3>1
    <3> QED
      BY <2>3, <3>1, <3>2
  <2>5. First(k)
    BY <2>3, <2>4
  <2>6. x \in Range(f[k])
    BY <1>4, <2>3, <2>5
  <2> QED
    BY <2>3, <2>6
<1>7. ASSUME NEW k \in 1..Len(e), NEW x \in Range(f[k]) PROVE x \in ValuesOf(e)
  <2>1. First(k) /\ x = e[k].val
    BY <1>4
  <2> QED
    BY <1>0, <2>1 DEF ValuesOf
<1>8. \A i, k \in 1..Len(f) : i # k => Range(f[i]) \cap Range(f[k]) = {}
  <2>1. ASSUME NEW i \in 1..Len(e), NEW k \in 1..Len(e), i < k, First(i), First(k)
        PROVE  e[i].val # e[k].val
    <3>1. i \in 1..(k - 1)
      BY <1>0, <2>1
    <3> QED
      BY <2>1, <3>1
  <2> HIDE DEF First
  <2>2. ASSUME NEW i \in 1..Len(e), NEW k \in 1..Len(e), i # k PROVE Range(f[i]) \cap Range(f[k]) = {}
    <3>1. i < k \/ k < i
      BY <1>0, <2>2
    <3> QED
      BY <1>4, <2>1, <3>1
  <2> QED
    BY <1>3, <2>2
<1>9. IsInjective(FlattenSeq(f))
  BY <1>3, <1>4, <1>8, FlattenApart
<1> QED
  BY <1>1, <1>5, <1>6, <1>7, <1>9

Apart(idx) ==
  /\ \A k, n \in DOMAIN idx : idx[k].str = idx[n].str => k = n
  /\ \A k \in DOMAIN idx : idx[k].ids # <<>> /\ IsInjective(idx[k].ids)

(* What an update writes: the old terms that keep a name, each with or        *)
(* without the entry, and one for each value that had none.                   *)
Writes(f, g, idx, id, e) ==
  /\ IsSeq(f) /\ Len(f) = Len(idx) /\ IsSeq(g) /\ Len(g) = Len(Written(e))
  /\ \A k \in 1..Len(idx) :
       LET has == idx[k].str \in ValuesOf(e)
       IN f[k] = IF ~ has /\ idx[k].ids = <<id>> THEN <<>> ELSE <<WriteTerm(idx[k], id, has)>>
  /\ \A j \in 1..Len(Written(e)) :
       g[j] = IF \A k \in 1..Len(idx) : idx[k].str # Written(e)[j]
              THEN <<[str |-> Written(e)[j], ids |-> <<id>>]>> ELSE <<>>

LEMMA JoinApart ==
  ASSUME NEW s, NEW t, IsSeq(s), IsSeq(t)
  PROVE  /\ Range(s \o t) = Range(s) \cup Range(t)
         /\ IsInjective(s) /\ IsInjective(t) /\ Range(s) \cap Range(t) = {} => IsInjective(s \o t)
<1> DEFINE u == s \o t
<1>1. /\ IsSeq(u) /\ Len(u) = Len(s) + Len(t)
      /\ \A k \in 1..Len(s) : u[k] = s[k]
      /\ \A k \in 1..Len(t) : u[Len(s) + k] = t[k]
  BY JoinFacts
<1> HIDE DEF u
<1>2. /\ Len(s) \in Nat /\ Len(t) \in Nat /\ DOMAIN s = 1..Len(s) /\ DOMAIN t = 1..Len(t)
      /\ DOMAIN u = 1..Len(u)
  BY <1>1, IsSeqFacts
<1>3. \A k \in 1..Len(u) : \/ k \in 1..Len(s) /\ u[k] = s[k]
                           \/ k - Len(s) \in 1..Len(t) /\ u[k] = t[k - Len(s)]
  <2> SUFFICES ASSUME NEW k \in 1..Len(u), ~ (k <= Len(s))
               PROVE  k - Len(s) \in 1..Len(t) /\ u[k] = t[k - Len(s)]
    BY <1>1, <1>2
  <2>1. k - Len(s) \in 1..Len(t) /\ Len(s) + (k - Len(s)) = k
    BY <1>1, <1>2
  <2> QED
    BY <1>1, <2>1
<1>4. (\A k \in 1..Len(s) : k \in 1..Len(u)) /\ (\A k \in 1..Len(t) : Len(s) + k \in 1..Len(u))
  BY <1>1, <1>2
<1>5. Range(u) = Range(s) \cup Range(t)
  <2>1. ASSUME NEW x \in Range(u) PROVE x \in Range(s) \cup Range(t)
    <3>1. PICK k \in 1..Len(u) : x = u[k]
      BY <1>2 DEF Range
    <3> QED
      BY <1>2, <1>3, <3>1, Zenon DEF Range
  <2>2. Range(s) \subseteq Range(u)
    BY <1>1, <1>2, <1>4, Zenon DEF Range
  <2>3. Range(t) \subseteq Range(u)
    BY <1>1, <1>2, <1>4, Zenon DEF Range
  <2> QED
    BY <2>1, <2>2, <2>3
<1>6. ASSUME IsInjective(s), IsInjective(t), Range(s) \cap Range(t) = {} PROVE IsInjective(u)
  <2>1. \A k \in 1..Len(s), n \in 1..Len(t) : s[k] # t[n]
    BY <1>2, <1>6 DEF Range
  <2>2. /\ \A k, n \in 1..Len(s) : s[k] = s[n] => k = n
        /\ \A k, n \in 1..Len(t) : t[k] = t[n] => k = n
    BY <1>2, <1>6 DEF IsInjective
  <2>3. ASSUME NEW k \in 1..Len(u), NEW n \in 1..Len(u), u[k] = u[n] PROVE k = n
    <3>1. ASSUME NEW x \in 1..Len(u)
          PROVE  \/ x \in 1..Len(s) /\ u[x] = s[x]
                 \/ \E y \in 1..Len(t) : x = Len(s) + y /\ u[x] = t[y]
      <4>1. CASE x \in 1..Len(s)
        BY <1>3, <4>1
      <4>2. CASE x \notin 1..Len(s)
        <5>1. x - Len(s) \in 1..Len(t) /\ u[x] = t[x - Len(s)]
          BY <1>3, <4>2, Zenon
        <5>2. x = Len(s) + (x - Len(s))
          BY <1>1, <1>2
        <5> QED
          BY <5>1, <5>2, Zenon
      <4> QED
        BY <4>1, <4>2
    <3>2. k \in 1..Len(s) /\ n \in 1..Len(s) /\ u[k] = s[k] /\ u[n] = s[n] => k = n
      BY <2>2, <2>3, Zenon
    <3>3. ASSUME NEW y \in 1..Len(t), NEW z \in 1..Len(t), u[k] = t[y], u[n] = t[z] PROVE y = z
      BY <2>2, <2>3, <3>3, Zenon
    <3>4. ASSUME NEW y \in 1..Len(t), k \in 1..Len(s), u[k] = s[k], u[n] = t[y] PROVE FALSE
      BY <2>1, <2>3, <3>4, Zenon
    <3>5. ASSUME NEW y \in 1..Len(t), n \in 1..Len(s), u[n] = s[n], u[k] = t[y] PROVE FALSE
      BY <2>1, <2>3, <3>5, Zenon
    <3> QED
      BY <3>1, <3>2, <3>3, <3>4, <3>5, Zenon
  <2> QED
    BY <1>2, <2>3 DEF IsInjective
<1> QED
  BY <1>5, <1>6 DEF u

LEMMA ListedIn ==
  ASSUME NEW idx, NEW str, NEW x
  PROVE  x \in ListedUnder(idx, str) <=> \E t \in Range(idx) : t.str = str /\ x \in Range(t.ids)
BY DEF ListedUnder, Range

LEMMA NoValues == ValuesOf(<<>>) = {}
<1>1. DOMAIN <<>> = {}
  OBVIOUS
<1> QED
  BY <1>1 DEF ValuesOf

-------------------------------------------------------------------------------
\* Sizes

(* A sum is made of its parts one after the other.                            *)
LEMMA TotalSteps ==
  ASSUME NEW s \in Seq(Nat)
  PROVE  \E sum \in [0..Len(s) -> Nat] :
           /\ sum[0] = 0 /\ Total(s) = sum[Len(s)]
           /\ \A n \in 1..Len(s) : sum[n] = sum[n - 1] + s[n]
<1> DEFINE Sums(f, m) == f = [n \in 0..m |-> IF n = 0 THEN 0 ELSE f[n - 1] + s[n]]
           Good == {m \in 1..(Len(s) + 1) : \E f \in [0..(m - 1) -> Nat] : Sums(f, m - 1)}
<1>0. Len(s) \in Nat /\ \A n \in 1..Len(s) : s[n] \in Nat
  OBVIOUS
<1>1. 1 \in Good
  <2> DEFINE f == [n \in 0..0 |-> 0]
  <2>1. f \in [0..(1 - 1) -> Nat] /\ Sums(f, 1 - 1)
    BY <1>0
  <2>2. 1 \in 1..(Len(s) + 1)
    BY <1>0
  <2> HIDE DEF f, Sums
  <2> QED
    BY <2>1, <2>2
<1>2. ASSUME NEW m \in 2..(Len(s) + 1), m - 1 \in Good PROVE m \in Good
  <2> DEFINE l == m - 2
  <2>0. l \in Nat /\ m = l + 2 /\ l + 1 \in 1..Len(s) /\ m - 1 - 1 = l /\ m - 1 = l + 1
    BY <1>0
  <2>1. PICK g \in [0..l -> Nat] : Sums(g, l)
    BY <1>2, <2>0
  <2> HIDE DEF l
  <2> DEFINE f == [n \in 0..(l + 1) |-> IF n = l + 1 THEN g[l] + s[l + 1] ELSE g[n]]
  <2>2. f \in [0..(l + 1) -> Nat]
    BY <1>0, <2>0
  <2>3. \A n \in 0..l : g[n] = IF n = 0 THEN 0 ELSE g[n - 1] + s[n]
    BY <2>1
  <2>4. ASSUME NEW n \in 0..(l + 1) PROVE f[n] = IF n = 0 THEN 0 ELSE f[n - 1] + s[n]
    <3>1. CASE n = l + 1
      BY <2>0, <3>1
    <3>2. CASE n # l + 1
      <4>1. n \in 0..l /\ (n # 0 => n - 1 \in 0..l)
        BY <2>0, <3>2
      <4> QED
        BY <2>0, <2>3, <3>2, <4>1
    <3> QED
      BY <3>1, <3>2
  <2>5. Sums(f, l + 1)
    <3>1. f = [n \in 0..(l + 1) |-> f[n]]
      OBVIOUS
    <3> HIDE DEF f
    <3> QED
      BY <2>4, <3>1
  <2> HIDE DEF f, Sums
  <2>6. m - 1 = l + 1 /\ m \in 1..(Len(s) + 1)
    BY <1>0, <2>0
  <2> QED
    BY <2>2, <2>5, <2>6
<1>3. Len(s) + 1 \in Good
  <2> HIDE DEF Good
  <2>1. Len(s) + 1 \in Nat /\ Len(s) + 1 \in 1..(Len(s) + 1)
    BY <1>0
  <2> QED
    BY <1>1, <1>2, <2>1, AllFromFirst
<1>4. \E f \in [0..Len(s) -> Nat] : Sums(f, Len(s))
  <2>1. Len(s) + 1 - 1 = Len(s)
    BY <1>0
  <2> HIDE DEF Sums
  <2> QED
    BY <1>3, <2>1
<1> DEFINE sum == CHOOSE f : Sums(f, Len(s))
<1>5. Sums(sum, Len(s))
  <2> HIDE DEF Sums
  <2> QED
    BY <1>4, Zenon
<1>6. Total(s) = sum[Len(s)]
  BY DEF Total
<1> HIDE DEF sum
<1>7. DOMAIN sum = 0..Len(s) /\ \A n \in 0..Len(s) : sum[n] = IF n = 0 THEN 0 ELSE sum[n - 1] + s[n]
  BY <1>5
<1>8. sum[0] = 0 /\ \A n \in 1..Len(s) : sum[n] = sum[n - 1] + s[n]
  BY <1>0, <1>7
<1>9. sum \in [0..Len(s) -> Nat]
  <2> DEFINE Fine == {m \in 1..(Len(s) + 1) : sum[m - 1] \in Nat}
  <2>1. 1 \in Fine
    BY <1>0, <1>8
  <2>2. ASSUME NEW m \in 2..(Len(s) + 1), m - 1 \in Fine PROVE m \in Fine
    <3>1. m - 1 \in 1..Len(s) /\ sum[m - 1 - 1] \in Nat /\ m \in 1..(Len(s) + 1)
      BY <1>0, <2>2
    <3>2. sum[m - 1] = sum[m - 1 - 1] + s[m - 1] /\ s[m - 1] \in Nat
      BY <1>0, <1>8, <3>1
    <3>3. sum[m - 1] \in Nat
      BY <3>1, <3>2
    <3> QED
      BY <3>1, <3>3
  <2>3. \A m \in 1..(Len(s) + 1) : m \in Fine
    <3>1. Len(s) + 1 \in Nat
      BY <1>0
    <3> HIDE DEF Fine
    <3> QED
      BY <2>1, <2>2, <3>1, AllFromFirst
  <2>4. ASSUME NEW n \in 0..Len(s) PROVE sum[n] \in Nat
    <3>1. n + 1 \in 1..(Len(s) + 1) /\ n + 1 - 1 = n
      BY <1>0
    <3>2. n + 1 \in Fine
      BY <2>3, <3>1
    <3> QED
      BY <3>1, <3>2
  <2>5. sum = [n \in 0..Len(s) |-> sum[n]]
    BY <1>5
  <2> HIDE DEF Fine, Sums
  <2> QED
    BY <2>4, <2>5
<1> QED
  BY <1>6, <1>8, <1>9

(* What adds up to as much at every step is the sum.                          *)
LEMMA TotalIs ==
  ASSUME NEW s \in Seq(Nat), NEW f, f[0] = 0, \A n \in 1..Len(s) : f[n] = f[n - 1] + s[n]
  PROVE  Total(s) = f[Len(s)]
<1>1. PICK sum \in [0..Len(s) -> Nat] :
        /\ sum[0] = 0 /\ Total(s) = sum[Len(s)]
        /\ \A n \in 1..Len(s) : sum[n] = sum[n - 1] + s[n]
  BY TotalSteps
<1> DEFINE Same == {m \in 1..(Len(s) + 1) : f[m - 1] = sum[m - 1]}
<1>2. Len(s) \in Nat
  OBVIOUS
<1>3. 1 \in Same
  BY <1>1, <1>2
<1>4. ASSUME NEW m \in 2..(Len(s) + 1), m - 1 \in Same PROVE m \in Same
  <2>1. m - 1 \in 1..Len(s) /\ f[m - 1 - 1] = sum[m - 1 - 1] /\ m \in 1..(Len(s) + 1)
    BY <1>2, <1>4
  <2> QED
    BY <1>1, <2>1
<1>5. Len(s) + 1 \in Same
  <2>1. Len(s) + 1 \in Nat /\ Len(s) + 1 \in 1..(Len(s) + 1)
    BY <1>2
  <2> HIDE DEF Same
  <2> QED
    BY <1>3, <1>4, <2>1, AllFromFirst
<1>6. Len(s) + 1 - 1 = Len(s)
  BY <1>2
<1> QED
  BY <1>1, <1>5, <1>6

SizesOf(terms) == [i \in DOMAIN terms |-> SizeOf(terms[i])]
TermsSize(terms) == Total(SizesOf(terms))

\* Sequences of one or none that are joined are no more than there were.
LEMMA FlattenShort ==
  ASSUME NEW f, IsSeq(f), \A i \in 1..Len(f) : IsSeq(f[i]) /\ Len(f[i]) <= 1
  PROVE  Len(FlattenSeq(f)) <= Len(f)
<1>1. PICK off : Lays(off, f, FlattenSeq(f))
  BY FlattenLays
<1>2. Len(f) \in Nat /\ \A i \in 1..Len(f) : Len(f[i]) \in Nat
  BY IsSeqFacts
<1> DEFINE n == Len(f)
           Good == {i \in 1..(n + 1) : off[i] <= i - 1}
<1>3. /\ n \in Nat /\ off[1] = 0 /\ off[n + 1] = Len(FlattenSeq(f))
      /\ \A i \in 1..(n + 1) : off[i] \in Nat
      /\ \A i \in 1..n : off[i + 1] = off[i] + Len(f[i])
  BY <1>1, <1>2 DEF Lays
<1> HIDE DEF n
<1>4. 1 \in Good
  BY <1>3
<1>5. ASSUME NEW i \in 2..(n + 1), i - 1 \in Good PROVE i \in Good
  <2>1. i - 1 \in 1..n /\ i - 1 + 1 = i /\ i \in 1..(n + 1)
    BY <1>3
  <2> DEFINE l == i - 1
  <2>2. l \in Nat /\ l \in 1..n /\ l \in 1..(n + 1) /\ l + 1 = i /\ off[l] <= l - 1
    BY <1>3, <1>5, <2>1
  <2> HIDE DEF l
  <2>3. off[i] = off[l] + Len(f[l]) /\ off[l] \in Nat
    BY <1>3, <2>2
  <2>4. Len(f[l]) \in Nat /\ Len(f[l]) <= 1
    BY <1>2, <2>2 DEF n
  <2>5. off[i] <= i - 1
    BY <2>2, <2>3, <2>4
  <2> QED
    BY <2>1, <2>5
<1>6. n + 1 \in Good
  <2>1. n + 1 \in Nat /\ n + 1 \in 1..(n + 1)
    BY <1>3
  <2> HIDE DEF Good
  <2> QED
    BY <1>4, <1>5, <2>1, AllFromFirst
<1>7. off[n + 1] <= n
  BY <1>3, <1>6
<1> QED
  BY <1>3, <1>7 DEF n

-------------------------------------------------------------------------------
\* What is written is read back

\* A part of a sequence that is the same at every place.
LEMMA PartIs ==
  ASSUME NEW s, IsSeq(s), NEW x, IsSeq(x), NEW p \in Nat \ {0}, NEW q,
         q = p + Len(x) - 1, q <= Len(s), \A k \in 1..Len(x) : s[p + k - 1] = x[k]
  PROVE  SubSeq(s, p, q) = x
<1>1. Len(s) \in Nat /\ Len(x) \in Nat
  BY IsSeqFacts
<1> DEFINE S == Range(s)
           r == SubSeq(s, p, q)
<1>2. s \in Seq(S)
  BY DEF IsSeq
<1> HIDE DEF S
<1>3. q \in Int /\ q - p + 1 = Len(x) /\ (q < p <=> Len(x) = 0)
  BY <1>1
<1>4. r \in Seq(S) /\ Len(r) = Len(x) /\ \A k \in 1..Len(x) : r[k] = s[p + k - 1]
  <2>1. CASE Len(x) = 0
    BY <1>1, <1>2, <1>3, <2>1
  <2>2. CASE Len(x) # 0
    BY <1>1, <1>2, <1>3, <2>2
  <2> QED
    BY <2>1, <2>2
<1>5. IsSeq(r)
  BY <1>4, SeqIsSeq
<1> HIDE DEF r
<1> QED
  BY <1>4, <1>5, SameSeq DEF r

\* A part of cells: two counts, and as many cells.
IsPart(s) == IsSeq(s) /\ s[1] \in Nat /\ s[2] \in Nat /\ Len(s) = 2 + s[1] + s[2]

(* The parts are found by the counts before them.                             *)
LEMMA PartsFound ==
  ASSUME NEW seqs, IsSeq(seqs), \A i \in 1..Len(seqs) : IsPart(seqs[i]),
         NEW cells, cells = <<Len(seqs)>> \o FlattenSeq(seqs)
  PROVE  /\ IsSeq(cells) /\ cells[1] = Len(seqs)
         /\ \A n \in 1..Len(seqs) :
              /\ PartsAt(cells)[n] \in Nat /\ PartsAt(cells)[n] >= 1
              /\ PartsAt(cells)[n] + Len(seqs[n]) - 1 <= Len(cells)
              /\ \A k \in 1..Len(seqs[n]) : cells[PartsAt(cells)[n] + k - 1] = seqs[n][k]
<1> DEFINE N == Len(seqs)
           s == FlattenSeq(seqs)
<1>1. N \in Nat /\ \A i \in 1..N : IsSeq(seqs[i]) /\ Len(seqs[i]) \in Nat
  BY IsSeqFacts DEF IsPart
<1>2. PICK off : Lays(off, seqs, s)
  BY <1>1, FlattenLays
<1>3. /\ IsSeq(s) /\ Len(s) \in Nat
      /\ \A i \in 1..(N + 1) : off[i] \in Nat /\ off[i] <= Len(s)
      /\ off[1] = 0 /\ off[N + 1] = Len(s)
      /\ \A i \in 1..N : off[i + 1] = off[i] + Len(seqs[i])
      /\ \A i \in 1..N : \A j \in 1..Len(seqs[i]) : s[off[i] + j] = seqs[i][j]
  <2>1. /\ IsSeq(s) /\ \A i \in 1..(N + 1) : off[i] \in Nat
        /\ off[1] = 0 /\ off[N + 1] = Len(s)
        /\ \A i \in 1..N : off[i + 1] = off[i] + Len(seqs[i])
        /\ \A i \in 1..N : \A j \in 1..Len(seqs[i]) : s[off[i] + j] = seqs[i][j]
    BY <1>2 DEF Lays
  <2>2. \A i, k \in 1..(N + 1) : i <= k => off[i] <= off[k]
    BY <1>1, <1>2, LaysGrow
  <2>3. ASSUME NEW i \in 1..(N + 1) PROVE off[i] <= Len(s)
    <3>1. N + 1 \in 1..(N + 1) /\ i <= N + 1
      BY <1>1
    <3>2. off[i] <= off[N + 1]
      BY <2>2, <3>1
    <3> QED
      BY <2>1, <3>2
  <2> QED
    BY <2>1, <2>3, IsSeqFacts
<1> HIDE DEF s
<1>4. /\ IsSeq(cells) /\ Len(cells) = 1 + Len(s) /\ cells[1] = N
      /\ \A k \in 1..Len(s) : cells[1 + k] = s[k]
  <2> DEFINE one == <<N>>
  <2>1. IsSeq(one) /\ Len(one) = 1 /\ one[1] = N
    BY TupleFacts
  <2>2. cells = one \o s
    BY DEF s
  <2> HIDE DEF one
  <2>3. /\ IsSeq(one \o s) /\ Len(one \o s) = Len(one) + Len(s)
        /\ \A k \in 1..Len(one) : (one \o s)[k] = one[k]
        /\ \A k \in 1..Len(s) : (one \o s)[Len(one) + k] = s[k]
    <3>1. IsSeq(one) /\ IsSeq(s)
      BY <1>3, <2>1
    <3> HIDE DEF N
    <3> QED
      BY <3>1, JoinFacts
  <2>4. 1 \in 1..Len(one)
    BY <2>1
  <2>5. cells[1] = one[1]
    BY <2>2, <2>3, <2>4
  <2>6. Len(cells) = 1 + Len(s) /\ \A k \in 1..Len(s) : cells[1 + k] = s[k]
    BY <2>1, <2>2, <2>3
  <2> QED
    BY <2>1, <2>2, <2>3, <2>5, <2>6
<1>5. ASSUME NEW i \in 1..N, NEW k \in 1..Len(seqs[i])
      PROVE  cells[off[i] + 2 + k - 1] = seqs[i][k] /\ off[i] + k <= Len(s)
  <2>1. i \in 1..(N + 1) /\ i + 1 \in 1..(N + 1)
    BY <1>1
  <2>2. off[i] \in Nat /\ off[i] + Len(seqs[i]) <= Len(s) /\ Len(seqs[i]) \in Nat
    BY <1>1, <1>3, <2>1
  <2> DEFINE j == off[i] + k
  <2>3. j \in 1..Len(s) /\ off[i] + 2 + k - 1 = 1 + j
    <3> DEFINE o == off[i]  m == Len(seqs[i])
    <3>1. o \in Nat /\ m \in Nat /\ Len(s) \in Nat /\ o + m <= Len(s) /\ k \in 1..m
      BY <1>3, <2>2
    <3> HIDE DEF o, m
    <3>2. o + k \in 1..Len(s) /\ o + 2 + k - 1 = 1 + (o + k)
      BY <3>1
    <3> QED
      BY <3>2 DEF o
  <2>4. s[j] = seqs[i][k]
    BY <1>3
  <2>5. off[i] + k <= Len(s)
    BY <2>3
  <2> HIDE DEF j
  <2>6. cells[1 + j] = s[j]
    BY <1>4, <2>3
  <2>7. cells[off[i] + 2 + k - 1] = s[j]
    BY <2>3, <2>6
  <2> QED
    BY <2>4, <2>5, <2>7
<1> DEFINE Finds(f) ==
             f = [n \in 1..cells[1] |-> IF n = 1 THEN 2 ELSE f[n - 1] + 2 + cells[f[n - 1]] + cells[f[n - 1] + 1]]
<1>6. ASSUME NEW n \in 2..N, NEW last, last = off[n - 1] + 2
      PROVE  last + 2 + cells[last] + cells[last + 1] = off[n] + 2
  <2> DEFINE l == n - 1
  <2>1. l \in 1..N /\ l + 1 = n /\ l \in 1..(N + 1) /\ last = off[l] + 2
    BY <1>1, <1>6
  <2> HIDE DEF l
  <2>2. seqs[l][1] \in Nat /\ seqs[l][2] \in Nat /\ Len(seqs[l]) = 2 + seqs[l][1] + seqs[l][2]
    BY <2>1 DEF IsPart
  <2>3. 1 \in 1..Len(seqs[l]) /\ 2 \in 1..Len(seqs[l])
    <3> DEFINE a == seqs[l][1]  b == seqs[l][2]  m == Len(seqs[l])
    <3>1. a \in Nat /\ b \in Nat /\ m = 2 + a + b
      BY <2>2
    <3> HIDE DEF a, b, m
    <3>2. 1 \in 1..m /\ 2 \in 1..m
      BY <3>1
    <3> QED
      BY <3>2 DEF m
  <2>4. off[l] \in Nat /\ off[n] = off[l] + Len(seqs[l])
    BY <1>3, <2>1
  <2>5. last = off[l] + 2 + 1 - 1 /\ last + 1 = off[l] + 2 + 2 - 1
    BY <2>1, <2>4
  <2>6. cells[last] = seqs[l][1]
    BY <1>5, <2>1, <2>3, <2>5
  <2>7. cells[last + 1] = seqs[l][2]
    BY <1>5, <2>1, <2>3, <2>5
  <2>8. /\ last = off[l] + 2 /\ off[l] \in Nat /\ off[n] = off[l] + Len(seqs[l])
        /\ Len(seqs[l]) = 2 + cells[last] + cells[last + 1]
        /\ cells[last] \in Nat /\ cells[last + 1] \in Nat
    BY <2>1, <2>2, <2>4, <2>6, <2>7
  <2> DEFINE a == cells[last]  b == cells[last + 1]  m == Len(seqs[l])  o == off[l]  p == off[n]
  <2>9. last = o + 2 /\ o \in Nat /\ p = o + m /\ m = 2 + a + b /\ a \in Nat /\ b \in Nat
    BY <2>8
  <2> HIDE DEF a, b, m, o, p
  <2>10. last + 2 + a + b = p + 2
    BY <2>9
  <2> QED
    BY <2>10 DEF a, b, p
<1>7. \E f : Finds(f)
  <2> DEFINE f == [n \in 1..N |-> off[n] + 2]
  <2>1. ASSUME NEW n \in 1..N
        PROVE  f[n] = IF n = 1 THEN 2 ELSE f[n - 1] + 2 + cells[f[n - 1]] + cells[f[n - 1] + 1]
    <3>1. CASE n = 1
      BY <1>1, <1>3, <3>1
    <3>2. CASE n # 1
      <4>1. n \in 2..N /\ n - 1 \in 1..N
        BY <1>1, <3>2
      <4>2. f[n] = off[n] + 2 /\ f[n - 1] = off[n - 1] + 2
        BY <4>1
      <4> HIDE DEF f
      <4> QED
        BY <1>6, <3>2, <4>1, <4>2
    <3> QED
      BY <3>1, <3>2
  <2>2. DOMAIN f = 1..cells[1] /\ f = [n \in 1..cells[1] |-> f[n]]
    BY <1>4
  <2> HIDE DEF f
  <2>3. \A n \in 1..cells[1] :
          f[n] = IF n = 1 THEN 2 ELSE f[n - 1] + 2 + cells[f[n - 1]] + cells[f[n - 1] + 1]
    BY <1>4, <2>1
  <2>4. Finds(f)
    BY <2>2, <2>3, Zenon
  <2> HIDE DEF Finds
  <2> QED
    BY <2>4
<1> DEFINE at == CHOOSE f : Finds(f)
<1>8. Finds(at)
  <2> HIDE DEF Finds
  <2> QED
    BY <1>7, Zenon
<1>9. PartsAt(cells) = at
  BY DEF PartsAt
<1> HIDE DEF at
<1>10. \A n \in 1..N : at[n] = IF n = 1 THEN 2 ELSE at[n - 1] + 2 + cells[at[n - 1]] + cells[at[n - 1] + 1]
  BY <1>4, <1>8
<1> HIDE DEF Finds
<1> DEFINE Good == {n \in 1..N : at[n] = off[n] + 2}
<1>11. ASSUME NEW n \in 1..N PROVE at[n] = off[n] + 2
  <2>1. 1 \in Good
    <3>1. 1 \in 1..N
      BY <1>1
    <3> QED
      BY <1>3, <1>10, <3>1
  <2>2. ASSUME NEW i \in 2..N, i - 1 \in Good PROVE i \in Good
    <3> DEFINE last == at[i - 1]
    <3>1. last = off[i - 1] + 2 /\ i \in 1..N /\ i # 1
      BY <1>1, <2>2
    <3>2. at[i] = last + 2 + cells[last] + cells[last + 1]
      BY <1>10, <3>1
    <3> HIDE DEF last
    <3> QED
      BY <1>6, <3>1, <3>2
  <2> HIDE DEF Good
  <2>3. n \in Good
    BY <1>1, <2>1, <2>2, AllFromFirst
  <2> USE DEF Good
  <2> QED
    BY <2>3
<1>12. ASSUME NEW n \in 1..N
       PROVE  /\ at[n] \in Nat /\ at[n] >= 1 /\ at[n] + Len(seqs[n]) - 1 <= Len(cells)
              /\ \A k \in 1..Len(seqs[n]) : cells[at[n] + k - 1] = seqs[n][k]
  <2>1. n \in 1..(N + 1) /\ n + 1 \in 1..(N + 1)
    BY <1>1
  <2>2. off[n] \in Nat /\ off[n] + Len(seqs[n]) <= Len(s) /\ Len(seqs[n]) \in Nat
    BY <1>1, <1>3, <2>1
  <2>3. at[n] = off[n] + 2
    BY <1>11
  <2>4. ASSUME NEW k \in 1..Len(seqs[n]) PROVE cells[at[n] + k - 1] = seqs[n][k]
    BY <1>5, <2>3
  <2>5. Len(s) \in Nat /\ Len(cells) = 1 + Len(s)
    BY <1>3, <1>4
  <2>6. at[n] \in Nat /\ at[n] >= 1 /\ at[n] + Len(seqs[n]) - 1 <= Len(cells)
    BY <2>2, <2>3, <2>5
  <2> QED
    BY <2>4, <2>6
<1> QED
  BY <1>4, <1>9, <1>12

\* u is t after s.
IsJoin(u, s, t) ==
  /\ IsSeq(u) /\ Len(u) = Len(s) + Len(t)
  /\ \A k \in 1..Len(s) : u[k] = s[k]
  /\ \A k \in 1..Len(t) : u[Len(s) + k] = t[k]

LEMMA JoinIs ==
  ASSUME NEW s, NEW t, IsSeq(s), IsSeq(t)
  PROVE  IsJoin(s \o t, s, t)
BY JoinFacts DEF IsJoin

LEMMA MadeSeq ==
  ASSUME NEW n \in Nat, NEW f, f = [i \in 1..n |-> f[i]]
  PROVE  IsSeq(f) /\ Len(f) = n /\ DOMAIN f = 1..n
<1> DEFINE S == {f[i] : i \in 1..n}
<1>1. f \in [1..n -> S]
  OBVIOUS
<1> HIDE DEF S
<1> QED
  BY <1>1, FunctionIsSeq, SeqIsSeq

\* Where a part is in cells, its two counts and what they count are read.
ReadsAs(part, a, b, x, y) ==
  \A cells, at :
    /\ IsSeq(cells) /\ at \in Nat /\ at >= 1 /\ at + Len(part) - 1 <= Len(cells)
    /\ \A k \in 1..Len(part) : cells[at + k - 1] = part[k]
    => /\ cells[at] = a /\ cells[at + 1] = b
       /\ SubSeq(cells, at + 2, at + 2 + Len(x) - 1) = x
       /\ SubSeq(cells, at + 2 + Len(x), at + 2 + Len(x) + Len(y) - 1) = y

LEMMA PartRead ==
  ASSUME NEW a \in Nat, NEW b \in Nat, NEW x, IsSeq(x), NEW y, IsSeq(y), Len(x) + Len(y) = a + b,
         NEW two, IsSeq(two), Len(two) = 2, two[1] = a, two[2] = b,
         NEW head, IsJoin(head, two, x), NEW part, IsJoin(part, head, y)
  PROVE  IsPart(part) /\ ReadsAs(part, a, b, x, y)
<1>1. IsSeq(two) /\ Len(two) = 2 /\ two[1] = a /\ two[2] = b
  OBVIOUS
<1>2. /\ Len(head) = Len(two) + Len(x)
      /\ \A k \in 1..Len(two) : head[k] = two[k]
      /\ \A k \in 1..Len(x) : head[Len(two) + k] = x[k]
  BY DEF IsJoin
<1>4. /\ IsSeq(part) /\ Len(part) = Len(head) + Len(y)
      /\ \A k \in 1..Len(head) : part[k] = head[k]
      /\ \A k \in 1..Len(y) : part[Len(head) + k] = y[k]
  BY DEF IsJoin
<1>5. Len(x) \in Nat /\ Len(y) \in Nat
  BY IsSeqFacts
<1> DEFINE m == Len(x)  n == Len(y)
<1>6. m \in Nat /\ n \in Nat /\ m + n = a + b
  BY <1>5
<1>7. Len(head) = 2 + m /\ Len(part) = 2 + m + n
  BY <1>1, <1>2, <1>4
<1>8. part[1] = a /\ part[2] = b
  <2>1. 1 \in 1..Len(two) /\ 2 \in 1..Len(two)
    BY <1>1
  <2>2. head[1] = a /\ head[2] = b
    BY <1>1, <1>2, <2>1
  <2> HIDE DEF m, n
  <2>3. 1 \in 1..Len(head) /\ 2 \in 1..Len(head)
    BY <1>6, <1>7
  <2> QED
    BY <1>4, <2>2, <2>3
<1>9. ASSUME NEW k \in 1..m PROVE part[2 + k] = x[k]
  <2>1. head[2 + k] = x[k]
    BY <1>1, <1>2
  <2> HIDE DEF m, n
  <2>2. 2 + k \in 1..Len(head)
    BY <1>6, <1>7
  <2> QED
    BY <1>4, <2>1, <2>2
<1>10. ASSUME NEW k \in 1..n PROVE part[2 + m + k] = y[k]
  BY <1>4, <1>7
<1>11. IsPart(part)
  <2>1. IsSeq(part)
    BY <1>4
  <2> HIDE DEF m, n
  <2>2. Len(part) = 2 + a + b
    BY <1>6, <1>7
  <2> QED
    BY <1>8, <2>1, <2>2 DEF IsPart
<1>12. ASSUME NEW cells, NEW at,
              IsSeq(cells), at \in Nat, at >= 1, at + Len(part) - 1 <= Len(cells),
              \A k \in 1..Len(part) : cells[at + k - 1] = part[k]
       PROVE  /\ cells[at] = a /\ cells[at + 1] = b
              /\ SubSeq(cells, at + 2, at + 2 + m - 1) = x
              /\ SubSeq(cells, at + 2 + m, at + 2 + m + n - 1) = y
  <2>1. Len(cells) \in Nat
    BY <1>12, IsSeqFacts
  <2>2. \A k \in 1..(2 + m + n) : cells[at + k - 1] = part[k]
    BY <1>7, <1>12
  <2>3. at + 2 + m + n - 1 <= Len(cells)
    <3> HIDE DEF m, n
    <3> QED
      BY <1>6, <1>7, <1>12, <2>1
  <2>4. cells[at] = a /\ cells[at + 1] = b
    <3> HIDE DEF m, n
    <3>1. 1 \in 1..(2 + m + n) /\ 2 \in 1..(2 + m + n) /\ at + 1 - 1 = at /\ at + 2 - 1 = at + 1
      BY <1>6, <1>12
    <3>2. cells[at + 1 - 1] = part[1] /\ cells[at + 2 - 1] = part[2]
      BY <2>2, <3>1
    <3> QED
      BY <1>8, <3>1, <3>2
  <2>5. SubSeq(cells, at + 2, at + 2 + m - 1) = x
    <3> DEFINE p == at + 2  q == at + 2 + m - 1
    <3>1. ASSUME NEW k \in 1..m PROVE cells[p + k - 1] = x[k]
      <4>1. cells[at + (2 + k) - 1] = part[2 + k]
        <5> HIDE DEF m, n
        <5>1. 2 + k \in 1..(2 + m + n)
          BY <1>6
        <5> QED
          BY <2>2, <5>1
      <4>2. at + (2 + k) - 1 = p + k - 1
        BY <1>6, <1>12
      <4> QED
        BY <1>9, <4>1, <4>2
    <3>2. p \in Nat \ {0} /\ q = p + m - 1 /\ q <= Len(cells)
      <4> HIDE DEF m, n
      <4> QED
        BY <1>6, <1>12, <2>1, <2>3
    <3> HIDE DEF p, q
    <3>3. SubSeq(cells, p, q) = x
      BY <1>12, <3>1, <3>2, PartIs
    <3> QED
      BY <3>3 DEF p, q
  <2>6. SubSeq(cells, at + 2 + m, at + 2 + m + n - 1) = y
    <3> DEFINE p == at + 2 + m  q == at + 2 + m + n - 1
    <3>1. ASSUME NEW k \in 1..n PROVE cells[p + k - 1] = y[k]
      <4>1. cells[at + (2 + m + k) - 1] = part[2 + m + k]
        <5> HIDE DEF m, n
        <5>1. 2 + m + k \in 1..(2 + m + n)
          BY <1>6
        <5> QED
          BY <2>2, <5>1
      <4>2. at + (2 + m + k) - 1 = p + k - 1
        BY <1>6, <1>12
      <4> QED
        BY <1>10, <4>1, <4>2
    <3>2. p \in Nat \ {0} /\ q = p + n - 1 /\ q <= Len(cells)
      <4> HIDE DEF m, n
      <4> QED
        BY <1>6, <1>12, <2>1, <2>3
    <3> HIDE DEF p, q
    <3>3. SubSeq(cells, p, q) = y
      BY <1>12, <3>1, <3>2, PartIs
    <3> QED
      BY <3>3 DEF p, q
  <2> QED
    BY <2>4, <2>5, <2>6
<1> QED
  BY <1>11, <1>12 DEF ReadsAs

LEMMA KeyFacts ==
  ASSUME NEW field, field.pass \in BOOLEAN
  PROVE  /\ IsSeq(KeyOf(field)) /\ Len(KeyOf(field)) \in Nat
         /\ KeyOf(field) = PassKey <=> field.pass
<1>1. IsSeq(PassKey) /\ Len(PassKey) = 4 /\ IsSeq(PlainKey) /\ Len(PlainKey) = 1
  BY TupleFacts, FourFacts DEF PassKey, PlainKey
<1>2. PassKey # PlainKey
  BY <1>1
<1> QED
  BY <1>1, <1>2 DEF KeyOf

(* An entry is read back as it was written.                                   *)
LEMMA EntryReadBack ==
  ASSUME NEW e \in EntryText
  PROVE  ReadEntry(WriteEntry(e)) = e
<1> DEFINE part(i) == <<Len(KeyOf(e[i])), Len(e[i].val)>> \o KeyOf(e[i]) \o e[i].val
           seqs == [i \in DOMAIN e |-> part(i)]
           cells == WriteEntry(e)
           at == PartsAt(cells)
           back == ReadEntry(cells)
<1>1. Len(e) \in Nat /\ DOMAIN e = 1..Len(e)
  BY DEF EntryText
<1>2. ASSUME NEW i \in 1..Len(e)
      PROVE  /\ e[i] = [pass |-> e[i].pass, val |-> e[i].val]
             /\ KeyOf(e[i]) = PassKey <=> e[i].pass
             /\ e[i].pass \in BOOLEAN
             /\ IsSeq(KeyOf(e[i])) /\ Len(KeyOf(e[i])) \in Nat
             /\ IsSeq(e[i].val) /\ Len(e[i].val) \in Nat
             /\ seqs[i] = part(i)
  <2>1. e[i] \in Field
    BY DEF EntryText
  <2>2. e[i].val \in Seq(Nat) /\ e[i].pass \in BOOLEAN
    BY <2>1 DEF Field, Text
  <2>3. e[i] = [pass |-> e[i].pass, val |-> e[i].val]
    BY <2>1 DEF Field
  <2>4. seqs[i] = part(i)
    BY <1>1
  <2>5. IsSeq(e[i].val)
    BY <2>2, SeqIsSeq
  <2>6. /\ IsSeq(KeyOf(e[i])) /\ Len(KeyOf(e[i])) \in Nat
        /\ KeyOf(e[i]) = PassKey <=> e[i].pass
    BY <2>2, KeyFacts
  <2>7. Len(e[i].val) \in Nat
    BY <2>5, IsSeqFacts
  <2> HIDE DEF seqs, part
  <2> QED
    BY <2>2, <2>3, <2>4, <2>5, <2>6, <2>7
<1>3. IsSeq(seqs) /\ Len(seqs) = Len(e)
  <2>1. seqs = [i \in 1..Len(e) |-> seqs[i]]
    BY <1>1
  <2> HIDE DEF seqs
  <2> QED
    BY <1>1, <2>1, MadeSeq
<1>4. cells = <<Len(seqs)>> \o FlattenSeq(seqs)
  <2>1. cells = <<Len(e)>> \o FlattenSeq(seqs)
    BY DEF WriteEntry
  <2> QED
    BY <1>3, <2>1
<1> HIDE DEF seqs, part, cells
<1>5. ASSUME NEW i \in 1..Len(e)
      PROVE  IsPart(seqs[i]) /\ ReadsAs(seqs[i], Len(KeyOf(e[i])), Len(e[i].val), KeyOf(e[i]), e[i].val)
  <2> DEFINE x == KeyOf(e[i])  y == e[i].val  p == seqs[i]  m == Len(x)  n == Len(y)
  <2>1. IsSeq(x) /\ IsSeq(y) /\ m \in Nat /\ n \in Nat /\ p = <<m, n>> \o x \o y
    <3>1. p = part(i) /\ IsSeq(x) /\ IsSeq(y) /\ m \in Nat /\ n \in Nat
      BY <1>2
    <3>2. part(i) = <<m, n>> \o x \o y
      BY DEF part
    <3> HIDE DEF part, x, y, p, m, n
    <3> QED
      BY <3>1, <3>2
  <2> DEFINE two == <<m, n>>
             head == two \o x
  <2>2. m \in Nat /\ n \in Nat /\ Len(x) + Len(y) = m + n
    <3>1. m \in Nat /\ n \in Nat
      BY <1>2
    <3> HIDE DEF x, y
    <3>2. m = Len(x) /\ n = Len(y)
      BY <3>1
    <3> QED
      BY <3>1, <3>2
  <2>3. IsSeq(two) /\ Len(two) = 2 /\ two[1] = m /\ two[2] = n
    BY TupleFacts
  <2>4. IsJoin(head, two, x)
    BY <2>1, <2>3, JoinIs
  <2>5. IsJoin(p, head, y)
    <3>1. p = head \o y
      BY <2>1
    <3>2. IsSeq(head) /\ IsSeq(y)
      BY <2>1, <2>4 DEF IsJoin
    <3> HIDE DEF p, head, y
    <3>3. IsJoin(head \o y, head, y)
      BY <3>2, JoinIs
    <3> QED
      BY <3>1, <3>3
  <2>7. IsSeq(x) /\ IsSeq(y)
    BY <2>1
  <2> HIDE DEF x, y, p, m, n, two, head
  <2>6. IsPart(p) /\ ReadsAs(p, m, n, x, y)
    BY <2>2, <2>3, <2>4, <2>5, <2>7, PartRead
  <2> QED
    BY <2>6 DEF x, y, p, m, n
<1>6. /\ IsSeq(cells) /\ cells[1] = Len(seqs)
      /\ \A n \in 1..Len(seqs) :
           /\ at[n] \in Nat /\ at[n] >= 1
           /\ at[n] + Len(seqs[n]) - 1 <= Len(cells)
           /\ \A k \in 1..Len(seqs[n]) : cells[at[n] + k - 1] = seqs[n][k]
  <2>1. \A i \in 1..Len(seqs) : IsPart(seqs[i])
    BY <1>3, <1>5
  <2> QED
    BY <1>3, <1>4, <2>1, PartsFound
<1> DEFINE key(n) == at[n] + 2
           val(n) == key(n) + cells[at[n]]
<1>7. back = [n \in 1..cells[1] |-> [pass |-> SubSeq(cells, key(n), val(n) - 1) = PassKey,
                                    val |-> SubSeq(cells, val(n), val(n) + cells[at[n] + 1] - 1)]]
  BY DEF ReadEntry
<1> HIDE DEF at, back
<1>8. ASSUME NEW n \in 1..Len(e) PROVE back[n] = e[n]
  <2> DEFINE x == KeyOf(e[n])  y == e[n].val  p == seqs[n]  a == at[n]
  <2>1. /\ IsSeq(cells) /\ a \in Nat /\ a >= 1 /\ a + Len(p) - 1 <= Len(cells)
        /\ \A k \in 1..Len(p) : cells[a + k - 1] = p[k]
    BY <1>3, <1>6
  <2>2. ReadsAs(p, Len(x), Len(y), x, y)
    BY <1>5
  <2>3. Len(x) \in Nat /\ Len(y) \in Nat
    BY <1>2
  <2>4. back[n] = [pass |-> SubSeq(cells, key(n), val(n) - 1) = PassKey,
                   val |-> SubSeq(cells, val(n), val(n) + cells[a + 1] - 1)]
    BY <1>3, <1>6, <1>7
  <2>5. e[n] = [pass |-> x = PassKey, val |-> y]
    <3>1. e[n] = [pass |-> e[n].pass, val |-> e[n].val] /\ (KeyOf(e[n]) = PassKey) = e[n].pass
      BY <1>2
    <3> QED
      BY <3>1
  <2>6. key(n) = a + 2 /\ val(n) = a + 2 + cells[a]
    OBVIOUS
  <2> HIDE DEF x, y, p, a, key, val
  <2>7. /\ cells[a] = Len(x) /\ cells[a + 1] = Len(y)
        /\ SubSeq(cells, a + 2, a + 2 + Len(x) - 1) = x
        /\ SubSeq(cells, a + 2 + Len(x), a + 2 + Len(x) + Len(y) - 1) = y
    BY <2>1, <2>2 DEF ReadsAs
  <2>8. val(n) - 1 = a + 2 + Len(x) - 1 /\ val(n) = a + 2 + Len(x) /\ val(n) + cells[a + 1] - 1 = a + 2 + Len(x) + Len(y) - 1
    BY <2>1, <2>3, <2>6, <2>7
  <2> QED
    BY <2>4, <2>5, <2>6, <2>7, <2>8
<1>9. back = [n \in 1..Len(e) |-> back[n]]
  BY <1>3, <1>6, <1>7
<1>10. back = [n \in 1..Len(e) |-> e[n]]
  BY <1>8, <1>9
<1>11. e = [n \in 1..Len(e) |-> e[n]]
  BY <1>1 DEF EntryText
<1>12. back = e
  BY <1>10, <1>11
<1> QED
  BY <1>12 DEF back, cells

-------------------------------------------------------------------------------
\* What is found

(* Two rows, one with pairs where the other has one each, or none where it has *)
(* none.                                                                      *)
Double(f, g) ==
  /\ IsSeq(f) /\ IsSeq(g) /\ Len(g) = Len(f)
  /\ \A i \in 1..Len(f) :
       /\ IsSeq(f[i]) /\ IsSeq(g[i])
       /\ (Len(f[i]) = 0 /\ Len(g[i]) = 0) \/ (Len(f[i]) = 1 /\ Len(g[i]) = 2)

LEMMA LaysDouble ==
  ASSUME NEW f, NEW g, Double(f, g)
  PROVE  /\ IsSeq(FlattenSeq(f)) /\ IsSeq(FlattenSeq(g))
         /\ Len(FlattenSeq(g)) = 2 * Len(FlattenSeq(f))
         /\ \A k \in 1..Len(FlattenSeq(f)) : \E i \in 1..Len(f) :
              /\ Len(f[i]) = 1 /\ FlattenSeq(f)[k] = f[i][1]
              /\ FlattenSeq(g)[2 * k - 1] = g[i][1] /\ FlattenSeq(g)[2 * k] = g[i][2]
         /\ f # <<>> /\ Len(f[1]) = 1 => FlattenSeq(f) # <<>> /\ FlattenSeq(f)[1] = f[1][1]
<1>0. IsSeq(g) /\ Len(g) = Len(f) /\ \A i \in 1..Len(g) : IsSeq(g[i])
  BY DEF Double
<1>11. IsSeq(f) /\ \A i \in 1..Len(f) : IsSeq(f[i])
  BY DEF Double
<1>10. ASSUME NEW i \in 1..Len(f)
       PROVE  (Len(f[i]) = 0 /\ Len(g[i]) = 0) \/ (Len(f[i]) = 1 /\ Len(g[i]) = 2)
  BY DEF Double
<1> DEFINE s == FlattenSeq(f)
           t == FlattenSeq(g)
<1>1. PICK a : Lays(a, f, s)
  BY <1>11, FlattenLays
<1>2. PICK b : Lays(b, g, t)
  BY <1>0, FlattenLays
<1>3. Len(f) \in Nat /\ IsSeq(s) /\ IsSeq(t) /\ Len(s) \in Nat /\ Len(t) \in Nat
      /\ (f = <<>> <=> Len(f) = 0) /\ (s = <<>> <=> Len(s) = 0)
  BY <1>0, <1>1, <1>2, <1>11, IsSeqFacts DEF Lays
<1> HIDE DEF s, t
<1> DEFINE Good == {i \in 1..(Len(f) + 1) : b[i] = 2 * a[i]}
<1>4. /\ \A i \in 1..(Len(f) + 1) : a[i] \in Nat /\ b[i] \in Nat
      /\ a[1] = 0 /\ b[1] = 0 /\ a[Len(f) + 1] = Len(s) /\ b[Len(f) + 1] = Len(t)
      /\ \A i \in 1..Len(f) : a[i + 1] = a[i] + Len(f[i]) /\ b[i + 1] = b[i] + Len(g[i])
  BY <1>0, <1>1, <1>2 DEF Lays
<1>9. \A i \in 1..Len(f) : /\ \A j \in 1..Len(f[i]) : s[a[i] + j] = f[i][j]
                           /\ \A j \in 1..Len(g[i]) : t[b[i] + j] = g[i][j]
  BY <1>0, <1>1, <1>2 DEF Lays
<1>5. \A i \in 1..(Len(f) + 1) : i \in Good
  <2>1. 1 \in Good
    BY <1>3, <1>4
  <2>2. ASSUME NEW i \in 2..(Len(f) + 1), i - 1 \in Good PROVE i \in Good
    <3> DEFINE l == i - 1
    <3>1. l \in 1..Len(f) /\ l + 1 = i /\ b[l] = 2 * a[l] /\ i \in 1..(Len(f) + 1) /\ l \in 1..(Len(f) + 1)
      BY <1>3, <2>2
    <3> HIDE DEF l
    <3>2. /\ b[i] = b[l] + Len(g[l]) /\ a[i] = a[l] + Len(f[l]) /\ a[l] \in Nat
          /\ (Len(f[l]) = 0 /\ Len(g[l]) = 0) \/ (Len(f[l]) = 1 /\ Len(g[l]) = 2)
      BY <1>3, <1>4, <1>10, <3>1
    <3>3. b[i] = 2 * a[i]
      <4>1. \A x \in Nat : 2 * x + 0 = 2 * (x + 0) /\ 2 * x + 2 = 2 * (x + 1)
        OBVIOUS
      <4>2. CASE Len(f[l]) = 0 /\ Len(g[l]) = 0
        BY <3>1, <3>2, <4>1, <4>2
      <4>3. CASE Len(f[l]) = 1 /\ Len(g[l]) = 2
        BY <3>1, <3>2, <4>1, <4>3
      <4> HIDE DEF Good
      <4> QED
        BY <3>2, <4>2, <4>3
    <3> QED
      BY <3>1, <3>3
  <2>3. Len(f) + 1 \in Nat
    BY <1>3
  <2> HIDE DEF Good
  <2> QED
    BY <2>1, <2>2, <2>3, AllFromFirst
<1>6. Len(t) = 2 * Len(s)
  <2>1. Len(f) + 1 \in 1..(Len(f) + 1)
    BY <1>3
  <2> QED
    BY <1>4, <1>5, <2>1
<1>7. ASSUME NEW k \in 1..Len(s)
      PROVE  \E i \in 1..Len(f) : Len(f[i]) = 1 /\ s[k] = f[i][1] /\ t[2 * k - 1] = g[i][1] /\ t[2 * k] = g[i][2]
  <2>1. PICK i \in 1..Len(f) : \E j \in 1..Len(f[i]) : k = a[i] + j /\ s[k] = f[i][j]
    BY <1>1, <1>11, LaysCover
  <2>2. Len(f[i]) = 1 /\ k = a[i] + 1 /\ s[k] = f[i][1]
    BY <1>10, <2>1
  <2>3. Len(g[i]) = 2 /\ b[i] = 2 * a[i] /\ a[i] \in Nat
    BY <1>3, <1>4, <1>5, <1>10, <2>2
  <2>4. t[b[i] + 1] = g[i][1] /\ t[b[i] + 2] = g[i][2]
    <3>1. 1 \in 1..Len(g[i]) /\ 2 \in 1..Len(g[i])
      BY <2>3
    <3>2. \A j \in 1..Len(g[i]) : t[b[i] + j] = g[i][j]
      BY <1>9
    <3> QED
      BY <3>1, <3>2, Zenon
  <2>5. b[i] + 1 = 2 * k - 1 /\ b[i] + 2 = 2 * k
    <3> DEFINE p == a[i]  q == b[i]
    <3>1. p \in Nat /\ q = 2 * p /\ k = p + 1
      BY <2>2, <2>3
    <3> HIDE DEF p, q
    <3>2. q + 1 = 2 * k - 1 /\ q + 2 = 2 * k
      BY <3>1
    <3> QED
      BY <3>2 DEF q
  <2> QED
    BY <2>2, <2>4, <2>5
<1>8. ASSUME f # <<>>, Len(f[1]) = 1 PROVE s # <<>> /\ s[1] = f[1][1]
  <2>1. 1 \in 1..Len(f)
    BY <1>3, <1>8
  <2>5. a[1] = 0 /\ a[1 + 1] = a[1] + Len(f[1])
    BY <1>4, <2>1
  <2>2. a[1] = 0 /\ a[1] + 1 = 1 /\ a[1 + 1] = 1 /\ 1 \in 1..Len(f[1]) /\ 1 + 1 = 2
    BY <1>8, <2>5
  <2>4. a[2] = 1 /\ s[a[1] + 1] = f[1][1]
    BY <1>8, <1>9, <2>1, <2>2
  <2>3. Len(s) # 0
    <3>1. 2 \in 1..(Len(f) + 1) /\ Len(f) + 1 \in 1..(Len(f) + 1) /\ 2 <= Len(f) + 1
      BY <1>3, <2>1
    <3>2. a[2] <= a[Len(f) + 1]
      BY <1>1, <1>11, <3>1, LaysGrow
    <3> QED
      BY <1>4, <2>2, <2>4, <3>2
  <2> QED
    BY <1>3, <2>2, <2>3, <2>4
<1> QED
  BY <1>3, <1>6, <1>7, <1>8 DEF s, t

LEMMA PairIs ==
  ASSUME NEW a, NEW b, NEW s, s = <<a, b>>
  PROVE  IsSeq(s) /\ Len(s) = 2 /\ s[1] = a /\ s[2] = b
BY TupleFacts

\* What is in a pair, and after something was appended.
LEMMA RangeFacts ==
  /\ \A a, b : Range(<<a, b>>) = {a, b}
  /\ \A s, e : IsSeq(s) => Range(Append(s, e)) = Range(s) \cup {e}
<1>1. ASSUME NEW a, NEW b PROVE Range(<<a, b>>) = {a, b}
  <2> DEFINE s == <<a, b>>
  <2>1. DOMAIN s = 1..2 /\ s[1] = a /\ s[2] = b
    OBVIOUS
  <2> HIDE DEF s
  <2>2. Range(s) = {a, b}
    <3>1. 1..2 = {1, 2}
      OBVIOUS
    <3> QED
      BY <2>1, <3>1 DEF Range
  <2> QED
    BY <2>2 DEF s
<1>2. ASSUME NEW s, NEW e, IsSeq(s) PROVE Range(Append(s, e)) = Range(s) \cup {e}
  <2> DEFINE t == Append(s, e)
  <2>1. /\ IsSeq(t) /\ Len(t) = Len(s) + 1 /\ Len(s) \in Nat /\ DOMAIN s = 1..Len(s)
        /\ \A k \in 1..Len(s) : t[k] = s[k]
        /\ t[Len(s) + 1] = e
    BY <1>2, AppendFacts, IsSeqFacts
  <2>2. DOMAIN t = 1..(Len(s) + 1)
    BY <2>1, IsSeqFacts
  <2> HIDE DEF t
  <2>3. /\ \A k \in 1..(Len(s) + 1) : k \in 1..Len(s) \/ k = Len(s) + 1
        /\ \A k \in 1..Len(s) : k \in 1..(Len(s) + 1)
        /\ Len(s) + 1 \in 1..(Len(s) + 1)
    BY <2>1
  <2>4. Range(t) \subseteq Range(s) \cup {e}
    BY <2>1, <2>2, <2>3 DEF Range
  <2>5. Range(s) \subseteq Range(t)
    BY <2>1, <2>2, <2>3, Zenon DEF Range
  <2>6. e \in Range(t)
    BY <2>1, <2>2, <2>3 DEF Range
  <2>7. Range(t) = Range(s) \cup {e}
    BY <2>4, <2>5, <2>6
  <2> QED
    BY <2>7 DEF t
<1> QED
  BY <1>1, <1>2

\* A row of single things, one after the other.
LEMMA LaysOnes ==
  ASSUME NEW f, IsSeq(f), \A i \in 1..Len(f) : IsSeq(f[i]) /\ Len(f[i]) = 1,
         NEW s, s = FlattenSeq(f)
  PROVE  IsSeq(s) /\ Len(s) = Len(f) /\ \A i \in 1..Len(f) : s[i] = f[i][1]
<1>0. \A i \in 1..Len(f) : IsSeq(f[i])
  OBVIOUS
<1>1. PICK a : Lays(a, f, s)
  BY <1>0, FlattenLays
<1>2. /\ IsSeq(s) /\ Len(s) \in Nat /\ Len(f) \in Nat
      /\ a[1] = 0 /\ a[Len(f) + 1] = Len(s)
      /\ \A i \in 1..Len(f) : a[i + 1] = a[i] + 1 /\ s[a[i] + 1] = f[i][1]
  <2>1. Len(s) \in Nat /\ Len(f) \in Nat /\ IsSeq(s)
    BY <1>1, IsSeqFacts DEF Lays
  <2>2. 1 \in 1..1
    OBVIOUS
  <2> QED
    BY <1>1, <2>1, <2>2 DEF Lays
<1> DEFINE Good == {i \in 1..(Len(f) + 1) : a[i] = i - 1}
<1>3. \A i \in 1..(Len(f) + 1) : i \in Good
  <2>1. 1 \in Good
    BY <1>2
  <2>2. ASSUME NEW i \in 2..(Len(f) + 1), i - 1 \in Good PROVE i \in Good
    <3> DEFINE l == i - 1
    <3>1. l \in 1..Len(f) /\ l + 1 = i /\ a[l] = l - 1 /\ i \in 1..(Len(f) + 1) /\ (l - 1) + 1 = i - 1
      BY <1>2, <2>2
    <3> HIDE DEF l
    <3>2. a[i] = i - 1
      BY <1>2, <3>1
    <3> QED
      BY <3>1, <3>2
  <2>3. Len(f) + 1 \in Nat
    BY <1>2
  <2> HIDE DEF Good
  <2> QED
    BY <2>1, <2>2, <2>3, AllFromFirst
<1>4. Len(s) = Len(f)
  <2>1. Len(f) + 1 \in 1..(Len(f) + 1) /\ (Len(f) + 1) - 1 = Len(f)
    BY <1>2
  <2> QED
    BY <1>2, <1>3, <2>1
<1>5. ASSUME NEW i \in 1..Len(f) PROVE s[i] = f[i][1]
  <2>1. i \in 1..(Len(f) + 1) /\ (i - 1) + 1 = i
    BY <1>2
  <2>2. a[i] = i - 1
    BY <1>3, <2>1
  <2> QED
    BY <1>2, <2>1, <2>2
<1> QED
  BY <1>2, <1>4, <1>5

\* A value that contains what was searched for is as long.
LEMMA ContainsAsLong ==
  ASSUME NEW str \in Seq(Nat), NEW value \in Seq(Nat), TermContains(str, value)
  PROVE  Len(str) >= Len(value)
<1>1. Len(str) \in Nat /\ Len(value) \in Nat
  OBVIOUS
<1>2. 0..(Len(str) - Len(value)) # {}
  BY DEF TermContains
<1> QED
  BY <1>1, <1>2

-------------------------------------------------------------------------------
\* A text is read back

\* parse_entry in the middle of a text: the key it has, what it reads, and the
\* fields before.
Reading(key, str, attrs) == [ok |-> TRUE, key |-> key, str |-> str, attrs |-> attrs]
IsSpace(c) == c \in {Space, Newline}
Trimmed(str) ==
  SubSeq(str, 1, CHOOSE n \in {n \in DOMAIN str : ~ IsSpace(str[n])} :
                   \A m \in {m \in DOMAIN str : ~ IsSpace(str[m])} : m <= n)
WithStr(at, str) == [at EXCEPT !.str = str]
WithKey(at, key) == [at EXCEPT !.key = key, !.str = <<>>]
FieldOf(key, val) == [pass |-> key = PassKey, val |-> val]
WithField(at, val) == [at EXCEPT !.attrs = Append(@, FieldOf(at.key, val)), !.key = <<>>, !.str = <<>>]
EndOf(at, str) == IF at.key = <<>> THEN WithKey(at, Trimmed(str)) ELSE WithField(at, Trimmed(str))
ReadOne(text, at, i) ==
  IF ~ at.ok \/ (IsSpace(text[i]) /\ at.str = <<>>) THEN at
  ELSE IF \/ text[i] = Colon /\ (at.key # <<>> \/ at.str = <<>>)
          \/ text[i] = Newline /\ at.key = <<>>
  THEN [at EXCEPT !.ok = FALSE]
  ELSE IF text[i] \in {Colon, Newline} THEN EndOf(at, at.str)
  ELSE IF i < Len(text) THEN WithStr(at, Append(at.str, text[i]))
  ELSE EndOf(at, Append(at.str, text[i]))
ReadsOn(p, text) == \A i \in 1..Len(text) : p[i] = ReadOne(text, p[i - 1], i)
Result(end) == IF end.ok /\ end.key = <<>> /\ end.str = <<>> THEN end.attrs ELSE Invalid
Parsed(end, text) ==
  IF Len(end.attrs) + (IF end.key = <<>> THEN 0 ELSE 1) > Slots(text) THEN Overrun ELSE Result(end)

\* As far as a character.
Runs(text, f, m) ==
  f = [n \in 0..m |-> IF n = 0 THEN Reading(<<>>, <<>>, <<>>) ELSE ReadOne(text, f[n - 1], n)]
Runnable(text, m) == \E f : Runs(text, f, m)

(* It reads one character after the other.                                    *)
LEMMA ParseReads ==
  ASSUME NEW text, Len(text) \in Nat
  PROVE  \E p : p[0] = Reading(<<>>, <<>>, <<>>) /\ ReadsOn(p, text) /\ ParseEntry(text) = Parsed(p[Len(text)], text)
<1> DEFINE N == Len(text)
           first == Reading(<<>>, <<>>, <<>>)
           Good == {m \in 1..(N + 1) : Runnable(text, m - 1)}
<1> HIDE DEF first
<1>1. 1 \in Good
  <2> DEFINE f == [n \in 0..0 |-> first]
  <2>1. Runs(text, f, 0)
    BY DEF Runs, first
  <2>2. 1 \in 1..(N + 1) /\ 1 - 1 = 0
    OBVIOUS
  <2>3. Runnable(text, 0)
    BY <2>1 DEF Runnable
  <2> QED
    BY <2>2, <2>3
<1>2. ASSUME NEW m \in 2..(N + 1), m - 1 \in Good PROVE m \in Good
  <2> DEFINE l == m - 2
  <2>0. l \in Nat /\ m = l + 2 /\ l + 1 \in 1..N /\ m - 1 - 1 = l /\ m - 1 = l + 1
    OBVIOUS
  <2>1. Runnable(text, l)
    <3> HIDE DEF l
    <3> QED
      BY <1>2, <2>0
  <2>2. PICK g : Runs(text, g, l)
    BY <2>1 DEF Runnable
  <2> HIDE DEF l
  <2> DEFINE f == [n \in 0..(l + 1) |-> IF n = l + 1 THEN ReadOne(text, g[l], l + 1) ELSE g[n]]
  <2>3. \A n \in 0..l : g[n] = IF n = 0 THEN first ELSE ReadOne(text, g[n - 1], n)
    BY <2>2 DEF Runs, first
  <2>4. ASSUME NEW n \in 0..(l + 1) PROVE f[n] = IF n = 0 THEN first ELSE ReadOne(text, f[n - 1], n)
    <3>1. CASE n = l + 1
      <4>1. n # 0 /\ n - 1 = l /\ l \in 0..(l + 1) /\ l # l + 1
        BY <2>0, <3>1
      <4>2. f[n] = ReadOne(text, g[l], l + 1) /\ f[l] = g[l]
        BY <3>1, <4>1
      <4> HIDE DEF f
      <4> QED
        BY <3>1, <4>1, <4>2
    <3>2. CASE n # l + 1
      <4>1. n \in 0..l /\ (n # 0 => n - 1 \in 0..(l + 1) /\ n - 1 # l + 1)
        BY <2>0, <3>2
      <4>2. f[n] = g[n] /\ (n # 0 => f[n - 1] = g[n - 1])
        BY <3>2, <4>1
      <4> HIDE DEF f
      <4>3. CASE n = 0
        BY <2>3, <4>1, <4>2, <4>3
      <4>4. CASE n # 0
        BY <2>3, <4>1, <4>2, <4>4
      <4> QED
        BY <4>3, <4>4
    <3> QED
      BY <3>1, <3>2
  <2>5. Runs(text, f, l + 1)
    <3>1. f = [n \in 0..(l + 1) |-> f[n]]
      OBVIOUS
    <3> HIDE DEF f
    <3> QED
      BY <2>4, <3>1 DEF Runs, first
  <2>6. Runnable(text, l + 1)
    BY <2>5 DEF Runnable
  <2> QED
    BY <2>0, <1>2, <2>6
<1>3. N + 1 \in Good
  <2>1. N + 1 \in Nat /\ N + 1 \in 1..(N + 1)
    OBVIOUS
  <2> HIDE DEF Good
  <2> QED
    BY <1>1, <1>2, <2>1, AllFromFirst
<1>4. \E f : Runs(text, f, N)
  <2>1. N + 1 - 1 = N
    OBVIOUS
  <2>2. N + 1 \in Good
    BY <1>3
  <2>3. Runnable(text, N + 1 - 1)
    BY <2>2
  <2> HIDE DEF N
  <2>4. Runnable(text, N)
    BY <2>1, <2>3, Zenon
  <2> QED
    BY <2>4 DEF Runnable
<1> DEFINE p == CHOOSE f : Runs(text, f, N)
<1>5. Runs(text, p, N)
  BY <1>4, Zenon
<1>6. ParseEntry(text) = Parsed(p[N], text)
  BY DEF ParseEntry, Parsed, Result, Runs, Reading, ReadOne, EndOf, WithStr, WithKey, WithField, FieldOf, Trimmed, IsSpace
<1> HIDE DEF p
<1>7. \A n \in 0..N : p[n] = IF n = 0 THEN first ELSE ReadOne(text, p[n - 1], n)
  BY <1>5 DEF Runs, first
<1>8. p[0] = first
  BY <1>7
<1>9. ASSUME NEW n \in 1..N PROVE p[n] = ReadOne(text, p[n - 1], n)
  <2>1. n \in 0..N /\ n # 0
    OBVIOUS
  <2> QED
    BY <1>7, <2>1
<1> QED
  BY <1>6, <1>8, <1>9 DEF ReadsOn, first

\* The same, field by field.
IsReading(at, key, str, attrs) ==
  /\ at = [f \in {"ok", "key", "str", "attrs"} |-> at[f]]
  /\ at.ok = TRUE /\ at.key = key /\ at.str = str /\ at.attrs = attrs

LEMMA ReadingIs ==
  ASSUME NEW at, NEW key, NEW str, NEW attrs, IsReading(at, key, str, attrs)
  PROVE  at = Reading(key, str, attrs)
<1> DEFINE names == {"ok", "key", "str", "attrs"}
           b == Reading(key, str, attrs)
<1>1. IsReading(b, key, str, attrs)
  BY DEF Reading, IsReading
<1> HIDE DEF b
<1>2. \A f \in names : at[f] = b[f]
  BY <1>1 DEF IsReading
<1>3. at = [f \in names |-> at[f]] /\ b = [f \in names |-> b[f]]
  BY <1>1 DEF IsReading
<1> HIDE DEF names
<1>4. at = b
  BY <1>2, <1>3
<1> QED
  BY <1>4 DEF b

LEMMA ReadingFacts ==
  ASSUME NEW key, NEW str, NEW attrs
  PROVE  /\ Reading(key, str, attrs).ok /\ Reading(key, str, attrs).key = key
         /\ Reading(key, str, attrs).str = str
         /\ \A x : /\ WithStr(Reading(key, str, attrs), x) = Reading(key, x, attrs)
                   /\ WithKey(Reading(key, str, attrs), x) = Reading(x, <<>>, attrs)
                   /\ WithField(Reading(key, str, attrs), x)
                        = Reading(<<>>, <<>>, Append(attrs, FieldOf(key, x)))
<1> DEFINE at == Reading(key, str, attrs)
<1>1. at.ok /\ at.key = key /\ at.str = str /\ at.attrs = attrs /\ IsReading(at, key, str, attrs)
  BY DEF Reading, IsReading
<1> HIDE DEF at
<1>2. ASSUME NEW x PROVE WithStr(at, x) = Reading(key, x, attrs)
  <2>1. IsReading(WithStr(at, x), key, x, attrs)
    BY <1>1 DEF IsReading, WithStr
  <2> QED
    BY <2>1, ReadingIs
<1>3. ASSUME NEW x PROVE WithKey(at, x) = Reading(x, <<>>, attrs)
  <2>1. IsReading(WithKey(at, x), x, <<>>, attrs)
    BY <1>1 DEF IsReading, WithKey
  <2> QED
    BY <2>1, ReadingIs
<1>4. ASSUME NEW x
      PROVE  WithField(at, x) = Reading(<<>>, <<>>, Append(attrs, FieldOf(key, x)))
  <2> DEFINE more == Append(at.attrs, FieldOf(at.key, x))
  <2>1. WithField(at, x) = [at EXCEPT !.attrs = more, !.key = <<>>, !.str = <<>>]
    BY DEF WithField
  <2>2. more = Append(attrs, FieldOf(key, x))
    BY <1>1, Zenon
  <2> HIDE DEF more
  <2>3. IsReading(WithField(at, x), <<>>, <<>>, more)
    BY <1>1, <2>1 DEF IsReading
  <2>4. WithField(at, x) = Reading(<<>>, <<>>, more)
    BY <2>3, ReadingIs
  <2> QED
    BY <2>2, <2>4, Zenon
<1> QED
  BY <1>1, <1>2, <1>3, <1>4, Zenon DEF at

\* The characters that mean something are not the same.
LEMMA MarksApart == Space # Colon /\ Space # Newline /\ Colon # Newline
BY DEF Space, Colon, Newline

\* White space before a key or a value.
LEMMA ReadsSpace ==
  ASSUME NEW text, NEW i, text[i] = Space, NEW key, NEW attrs
  PROVE  ReadOne(text, Reading(key, <<>>, attrs), i) = Reading(key, <<>>, attrs)
<1>1. IsSpace(text[i])
  BY DEF IsSpace
<1> QED
  BY <1>1, ReadingFacts DEF ReadOne

\* A character of a key or a value, but the last of the text.
LEMMA ReadsCharacter ==
  ASSUME NEW text, NEW i \in 1..Len(text), i < Len(text), NEW key, NEW str, NEW attrs,
         text[i] \notin {Colon, Newline}, str = <<>> => text[i] # Space
  PROVE  ReadOne(text, Reading(key, str, attrs), i) = Reading(key, Append(str, text[i]), attrs)
<1> DEFINE at == Reading(key, str, attrs)
<1>1. at.ok /\ at.str = str /\ WithStr(at, Append(str, text[i])) = Reading(key, Append(str, text[i]), attrs)
  BY ReadingFacts
<1>2. text[i] # Colon /\ text[i] # Newline /\ ~ (IsSpace(text[i]) /\ str = <<>>)
  BY DEF IsSpace
<1> HIDE DEF at
<1>3. ReadOne(text, at, i) = WithStr(at, Append(str, text[i]))
  BY <1>1, <1>2 DEF ReadOne
<1> QED
  BY <1>1, <1>3 DEF at

\* The colon after a key.
LEMMA ReadsColon ==
  ASSUME NEW text, NEW i, text[i] = Colon, NEW str, str # <<>>, NEW attrs
  PROVE  ReadOne(text, Reading(<<>>, str, attrs), i) = Reading(Trimmed(str), <<>>, attrs)
<1> DEFINE at == Reading(<<>>, str, attrs)
<1>1. at.ok /\ at.str = str /\ at.key = <<>> /\ WithKey(at, Trimmed(str)) = Reading(Trimmed(str), <<>>, attrs)
  BY ReadingFacts
<1>2. ~ IsSpace(text[i])
  BY MarksApart DEF IsSpace
<1> HIDE DEF at
<1>3. ReadOne(text, at, i) = EndOf(at, str)
  BY <1>1, <1>2, MarksApart DEF ReadOne
<1> QED
  BY <1>1, <1>3 DEF at, EndOf

\* The end of the line of a value.
LEMMA ReadsNewline ==
  ASSUME NEW text, NEW i, text[i] = Newline, NEW key, key # <<>>, NEW str, str # <<>>, NEW attrs
  PROVE  ReadOne(text, Reading(key, str, attrs), i)
           = Reading(<<>>, <<>>, Append(attrs, FieldOf(key, Trimmed(str))))
<1> DEFINE at == Reading(key, str, attrs)
           more == Append(attrs, FieldOf(key, Trimmed(str)))
<1>1. at.ok /\ at.str = str /\ at.key = key /\ WithField(at, Trimmed(str)) = Reading(<<>>, <<>>, more)
  BY ReadingFacts
<1> HIDE DEF at, more
<1>2. ReadOne(text, at, i) = EndOf(at, str)
  BY <1>1, MarksApart DEF ReadOne
<1>3. EndOf(at, str) = WithField(at, Trimmed(str))
  BY <1>1 DEF EndOf
<1> QED
  BY <1>1, <1>2, <1>3 DEF at, more

\* What is meant by a text.
LEMMA TextFacts ==
  ASSUME NEW w, IsSeq(w), IsText(w)
  PROVE  /\ w # <<>> /\ Len(w) \in Nat /\ Len(w) >= 1 /\ w[1] # Space /\ w[Len(w)] # Space
         /\ \A k \in 1..Len(w) : w[k] \notin {Colon, Newline}
<1>1. Len(w) \in Nat /\ DOMAIN w = 1..Len(w) /\ (w = <<>> <=> Len(w) = 0)
  BY IsSeqFacts
<1>2. w # <<>> /\ w[1] # Space /\ Last(w) # Space /\ Range(w) \cap {Colon, Newline} = {}
  BY DEF IsText
<1>3. w[Len(w)] # Space
  BY <1>2 DEF Last
<1>4. Len(w) >= 1
  BY <1>1, <1>2
<1>5. ASSUME NEW k \in 1..Len(w) PROVE w[k] \notin {Colon, Newline}
  <2>1. w[k] \in Range(w)
    BY <1>1 DEF Range
  <2> QED
    BY <1>2, <2>1
<1> QED
  BY <1>1, <1>2, <1>3, <1>4, <1>5

\* There is no white space to take off it.
LEMMA TextTrimmed ==
  ASSUME NEW w, IsSeq(w), IsText(w)
  PROVE  Trimmed(w) = w
<1>1. /\ Len(w) \in Nat /\ Len(w) >= 1 /\ w[Len(w)] # Space /\ w[Len(w)] \notin {Colon, Newline}
      /\ DOMAIN w = 1..Len(w)
  <2>1. Len(w) \in 1..Len(w)
    BY TextFacts
  <2> QED
    BY <2>1, TextFacts, IsSeqFacts
<1> DEFINE ends == {n \in DOMAIN w : ~ IsSpace(w[n])}
           last == CHOOSE n \in ends : \A m \in ends : m <= n
<1>2. Len(w) \in ends /\ \A m \in ends : m \in Nat /\ m <= Len(w)
  BY <1>1 DEF IsSpace
<1>3. last \in ends /\ \A m \in ends : m <= last
  <2> HIDE DEF ends
  <2> QED
    BY <1>2
<1>4. last = Len(w)
  <2> HIDE DEF ends, last
  <2> QED
    BY <1>1, <1>2, <1>3
<1>5. Trimmed(w) = SubSeq(w, 1, last)
  BY DEF Trimmed
<1> HIDE DEF last
<1>6. SubSeq(w, 1, Len(w)) = w
  <2>1. Len(w) \in 0..Len(w)
    BY <1>1
  <2>2. /\ IsSeq(SubSeq(w, 1, Len(w))) /\ Len(SubSeq(w, 1, Len(w))) = Len(w)
        /\ \A k \in 1..Len(w) : SubSeq(w, 1, Len(w))[k] = w[k]
    BY <2>1, PartFacts
  <2> QED
    BY <2>2, SameSeq
<1> QED
  BY <1>4, <1>5, <1>6

SpacesAt(text, a, n) == \A j \in 1..n : text[a + j] = Space

\* The spaces before a key or a value.
LEMMA ReadsSpaces ==
  ASSUME NEW text, NEW p, ReadsOn(p, text), Len(text) \in Nat, NEW a \in Nat, NEW n \in Nat,
         NEW b, b = a + n, b <= Len(text), SpacesAt(text, a, n),
         NEW key, NEW attrs, p[a] = Reading(key, <<>>, attrs)
  PROVE  p[b] = Reading(key, <<>>, attrs)
<1> DEFINE at == Reading(key, <<>>, attrs)
           Good == {m \in 1..(n + 1) : p[a + (m - 1)] = at}
<1>1. 1 \in Good
  <2>1. a + (1 - 1) = a /\ 1 \in 1..(n + 1)
    OBVIOUS
  <2> HIDE DEF at
  <2> QED
    BY <2>1 DEF at
<1>2. ASSUME NEW m \in 2..(n + 1), m - 1 \in Good PROVE m \in Good
  <2> DEFINE j == m - 1
             i == a + j
  <2>1. /\ j \in 1..n /\ i \in 1..Len(text) /\ a + ((m - 1) - 1) = i - 1 /\ a + (m - 1) = i
        /\ m \in 1..(n + 1)
    OBVIOUS
  <2>2. text[i] = Space
    BY <2>1 DEF SpacesAt
  <2> HIDE DEF i, j, at
  <2>3. p[i - 1] = at
    BY <1>2, <2>1
  <2>4. p[i] = ReadOne(text, at, i)
    BY <2>1, <2>3 DEF ReadsOn
  <2>5. ReadOne(text, at, i) = at
    BY <2>2, ReadsSpace DEF at
  <2> QED
    BY <2>1, <2>4, <2>5
<1>3. n + 1 \in Good
  <2>1. n + 1 \in Nat /\ n + 1 \in 1..(n + 1)
    OBVIOUS
  <2> HIDE DEF Good
  <2> QED
    BY <1>1, <1>2, <2>1, AllFromFirst
<1>4. a + ((n + 1) - 1) = a + n
  OBVIOUS
<1> HIDE DEF at
<1>5. p[a + ((n + 1) - 1)] = at
  BY <1>3
<1> QED
  BY <1>4, <1>5 DEF at

\* A part of a sequence and the element after it.
LEMMA PartGrows ==
  ASSUME NEW w, IsSeq(w), NEW n \in 1..Len(w)
  PROVE  Append(SubSeq(w, 1, n - 1), w[n]) = SubSeq(w, 1, n)
<1> DEFINE s == SubSeq(w, 1, n - 1)
           t == SubSeq(w, 1, n)
           u == Append(s, w[n])
<1>1. Len(w) \in Nat
  BY IsSeqFacts
<1>2. n - 1 \in 0..Len(w) /\ n \in 0..Len(w) /\ (n - 1) + 1 = n
  BY <1>1
<1>3. IsSeq(s) /\ Len(s) = n - 1 /\ \A k \in 1..(n - 1) : s[k] = w[k]
  BY <1>2, PartFacts
<1>4. IsSeq(t) /\ Len(t) = n /\ \A k \in 1..n : t[k] = w[k]
  BY <1>2, PartFacts
<1> HIDE DEF s, t
<1>5. IsSeq(u) /\ Len(u) = Len(s) + 1 /\ u[Len(s) + 1] = w[n] /\ \A k \in 1..Len(s) : u[k] = s[k]
  BY <1>3, AppendFacts
<1> HIDE DEF u
<1>6. ASSUME NEW k \in 1..n PROVE u[k] = t[k]
  <2>1. CASE k = n
    BY <1>2, <1>3, <1>4, <1>5, <2>1
  <2>2. CASE k # n
    <3>1. k \in 1..(n - 1)
      BY <2>2
    <3> QED
      BY <1>3, <1>4, <1>5, <3>1
  <2> QED
    BY <2>1, <2>2
<1>7. Len(u) = Len(t)
  BY <1>2, <1>3, <1>4, <1>5
<1>8. u = t
  BY <1>4, <1>5, <1>6, <1>7, SameSeq
<1> QED
  BY <1>8 DEF u, s, t

\* A key or a value.
LEMMA ReadsWord ==
  ASSUME NEW text, NEW p, ReadsOn(p, text), Len(text) \in Nat, NEW a \in Nat, NEW w, IsSeq(w), IsText(w),
         a + Len(w) < Len(text), \A j \in 1..Len(w) : text[a + j] = w[j],
         NEW key, NEW attrs, p[a] = Reading(key, <<>>, attrs)
  PROVE  p[a + Len(w)] = Reading(key, w, attrs)
<1> DEFINE n == Len(w)
           had(l) == SubSeq(w, 1, l)
           Good == {m \in 1..(n + 1) : p[a + (m - 1)] = Reading(key, had(m - 1), attrs)}
<1>0. n \in Nat /\ n >= 1 /\ w[1] # Space /\ \A k \in 1..n : w[k] \notin {Colon, Newline}
  BY TextFacts
<1>1. ASSUME NEW l \in 0..n PROVE IsSeq(had(l)) /\ Len(had(l)) = l /\ \A k \in 1..l : had(l)[k] = w[k]
  BY <1>1, PartFacts
<1>2. had(0) = <<>>
  <2>1. 0 \in 0..n
    BY <1>0
  <2> HIDE DEF had
  <2> QED
    BY <1>1, <2>1, IsSeqFacts
<1>3. had(n) = w
  <2>1. n \in 0..n
    BY <1>0
  <2> HIDE DEF had
  <2> QED
    BY <1>1, <2>1, SameSeq
<1>4. ASSUME NEW l \in 1..n PROVE Append(had(l - 1), w[l]) = had(l)
  BY PartGrows
<1> HIDE DEF had
<1>5. 1 \in Good
  <2>1. a + (1 - 1) = a /\ 1 \in 1..(n + 1) /\ 1 - 1 = 0
    BY <1>0
  <2> HIDE DEF n
  <2> QED
    BY <1>2, <2>1
<1>6. ASSUME NEW m \in 2..(n + 1), m - 1 \in Good PROVE m \in Good
  <2> DEFINE j == m - 1
             i == a + j
             str == had(j - 1)
  <2>1. /\ j \in 1..n /\ i \in 1..Len(text) /\ i < Len(text) /\ (m - 1) - 1 = j - 1 /\ m - 1 = j
        /\ a + (j - 1) = i - 1 /\ a + j = i /\ m \in 1..(n + 1) /\ j - 1 \in 0..n
    BY <1>0
  <2>2. text[i] = w[j]
    BY <2>1
  <2>3. str = <<>> => text[i] # Space
    <3>1. Len(str) = j - 1
      BY <1>1, <2>1
    <3>2. str = <<>> => j = 1
      <4>1. Len(<<>>) = 0
        BY TupleFacts
      <4> HIDE DEF str
      <4> QED
        BY <2>1, <3>1, <4>1
    <3> HIDE DEF str, i, j
    <3> QED
      BY <1>0, <2>2, <3>2
  <2>4. text[i] \notin {Colon, Newline}
    <3> HIDE DEF i, j
    <3> QED
      BY <1>0, <2>1, <2>2
  <2>5. Append(str, text[i]) = had(j)
    <3> HIDE DEF i, j
    <3> QED
      BY <1>4, <2>1, <2>2
  <2>6. p[i - 1] = Reading(key, str, attrs)
    <3>1. p[a + ((m - 1) - 1)] = Reading(key, had((m - 1) - 1), attrs)
      <4> HIDE DEF n
      <4> QED
        BY <1>6
    <3> HIDE DEF i, j
    <3> QED
      BY <2>1, <3>1
  <2> HIDE DEF i, j, str
  <2>7. p[i] = ReadOne(text, Reading(key, str, attrs), i)
    BY <2>1, <2>6 DEF ReadsOn
  <2>8. ReadOne(text, Reading(key, str, attrs), i) = Reading(key, Append(str, text[i]), attrs)
    BY <2>1, <2>3, <2>4, ReadsCharacter
  <2>9. p[a + (m - 1)] = Reading(key, had(m - 1), attrs)
    BY <2>1, <2>5, <2>7, <2>8
  <2> HIDE DEF n
  <2> QED
    BY <2>1, <2>9
<1>7. n + 1 \in Good
  <2>1. n + 1 \in Nat /\ n + 1 \in 1..(n + 1)
    BY <1>0
  <2> HIDE DEF Good
  <2> QED
    BY <1>5, <1>6, <2>1, AllFromFirst
<1>8. (n + 1) - 1 = n
  BY <1>0
<1>9. p[a + ((n + 1) - 1)] = Reading(key, had((n + 1) - 1), attrs)
  <2> HIDE DEF n
  <2> QED
    BY <1>7
<1> HIDE DEF n
<1> QED
  BY <1>3, <1>8, <1>9 DEF n

\* A line of the text of an entry, with n spaces before the key.
Spaces(n) == [k \in 1..n |-> Space]
Width(column, key) == IF column > Len(key) THEN column - Len(key) ELSE 0
Line(n, key, val) == Spaces(n) \o key \o <<Colon, Space>> \o val \o <<Newline>>
LineAt(text, a, n, key, val) ==
  /\ \A j \in 1..n : text[a + j] = Space
  /\ \A j \in 1..Len(key) : text[(a + n) + j] = key[j]
  /\ text[((a + n) + Len(key)) + 1] = Colon /\ text[((a + n) + Len(key)) + 2] = Space
  /\ \A j \in 1..Len(val) : text[(((a + n) + Len(key)) + 2) + j] = val[j]
  /\ text[((((a + n) + Len(key)) + 2) + Len(val)) + 1] = Newline
LineLen(n, key, val) == (((n + Len(key)) + 2) + Len(val)) + 1

LEMMA SpacesFacts ==
  ASSUME NEW n \in Nat
  PROVE  IsSeq(Spaces(n)) /\ Len(Spaces(n)) = n /\ \A k \in 1..n : Spaces(n)[k] = Space
<1> DEFINE s == Spaces(n)
<1>1. s = [k \in 1..n |-> Space]
  BY DEF Spaces
<1>2. s = [k \in 1..n |-> s[k]] /\ \A k \in 1..n : s[k] = Space
  BY <1>1
<1> HIDE DEF s
<1>3. IsSeq(s) /\ Len(s) = n
  BY <1>2, MadeSeq
<1> QED
  BY <1>2, <1>3 DEF s

LEMMA LineFacts ==
  ASSUME NEW n \in Nat, NEW key, IsSeq(key), NEW val, IsSeq(val)
  PROVE  /\ IsSeq(Line(n, key, val)) /\ Len(Line(n, key, val)) = LineLen(n, key, val)
         /\ LineAt(Line(n, key, val), 0, n, key, val)
<1> DEFINE pad == Spaces(n)  two == <<Colon, Space>>  one == <<Newline>>  l == Len(key)  m == Len(val)
           s == pad \o key
           t == s \o two
           u == t \o val
           v == u \o one
<1>1. l \in Nat /\ m \in Nat
  BY IsSeqFacts
<1>2. IsSeq(pad) /\ Len(pad) = n /\ \A k \in 1..n : pad[k] = Space
  BY SpacesFacts
<1>3. IsSeq(two) /\ Len(two) = 2 /\ two[1] = Colon /\ two[2] = Space
  BY TupleFacts
<1>4. IsSeq(one) /\ Len(one) = 1 /\ one[1] = Newline
  BY TupleFacts
<1>5. Line(n, key, val) = v
  BY DEF Line
<1> HIDE DEF pad, two, one
<1>6. IsJoin(s, pad, key)
  BY <1>2, JoinIs
<1> HIDE DEF s
<1>7. IsJoin(t, s, two)
  <2>1. IsSeq(s)
    BY <1>6 DEF IsJoin
  <2> QED
    BY <1>3, <2>1, JoinIs
<1> HIDE DEF t
<1>8. IsJoin(u, t, val)
  <2>1. IsSeq(t)
    BY <1>7 DEF IsJoin
  <2> QED
    BY <2>1, JoinIs
<1> HIDE DEF u
<1>9. IsJoin(v, u, one)
  <2>1. IsSeq(u)
    BY <1>8 DEF IsJoin
  <2> QED
    BY <1>4, <2>1, JoinIs
<1> HIDE DEF v
<1>10. Len(key) = l /\ Len(val) = m
  OBVIOUS
<1> HIDE DEF l, m
<1>11. Len(s) = n + l /\ IsSeq(s) /\ (\A k \in 1..n : s[k] = Space) /\ \A k \in 1..l : s[n + k] = key[k]
  BY <1>2, <1>6, <1>10 DEF IsJoin
<1>12. /\ Len(t) = (n + l) + 2 /\ \A k \in 1..(n + l) : t[k] = s[k]
       /\ t[(n + l) + 1] = Colon /\ t[(n + l) + 2] = Space
  <2>1. 1 \in 1..2 /\ 2 \in 1..2
    OBVIOUS
  <2> QED
    BY <1>3, <1>7, <1>11, <2>1 DEF IsJoin
<1>13. /\ Len(u) = ((n + l) + 2) + m /\ \A k \in 1..((n + l) + 2) : u[k] = t[k]
       /\ \A k \in 1..m : u[((n + l) + 2) + k] = val[k]
  BY <1>8, <1>10, <1>12 DEF IsJoin
<1>14. /\ IsSeq(v) /\ Len(v) = (((n + l) + 2) + m) + 1 /\ \A k \in 1..(((n + l) + 2) + m) : v[k] = u[k]
       /\ v[(((n + l) + 2) + m) + 1] = Newline
  <2>1. 1 \in 1..1
    OBVIOUS
  <2> QED
    BY <1>4, <1>9, <1>13, <2>1 DEF IsJoin
<1>15. ASSUME NEW j \in 1..n PROVE v[0 + j] = Space
  <2>1. j \in 1..(n + l) /\ j \in 1..((n + l) + 2) /\ j \in 1..(((n + l) + 2) + m) /\ 0 + j = j
    BY <1>1 DEF l, m
  <2> QED
    BY <1>11, <1>12, <1>13, <1>14, <2>1
<1>16. ASSUME NEW j \in 1..l PROVE v[(0 + n) + j] = key[j]
  <2> DEFINE i == n + j
  <2>1. i \in 1..(n + l) /\ i \in 1..((n + l) + 2) /\ i \in 1..(((n + l) + 2) + m) /\ (0 + n) + j = i /\ n + j = i
    BY <1>1 DEF l, m
  <2> HIDE DEF i
  <2> QED
    BY <1>11, <1>12, <1>13, <1>14, <2>1
<1>17. v[((0 + n) + l) + 1] = Colon /\ v[((0 + n) + l) + 2] = Space
  <2> DEFINE i == n + l
  <2>1. /\ i + 1 \in 1..(i + 2) /\ i + 1 \in 1..((i + 2) + m) /\ i + 2 \in 1..(i + 2) /\ i + 2 \in 1..((i + 2) + m)
        /\ (0 + n) + l = i /\ n + l = i
    BY <1>1 DEF l, m
  <2> HIDE DEF i
  <2> QED
    BY <1>12, <1>13, <1>14, <2>1
<1>18. ASSUME NEW j \in 1..m PROVE v[(((0 + n) + l) + 2) + j] = val[j]
  <2> DEFINE i == (n + l) + 2
  <2>1. i + j \in 1..(i + m) /\ ((0 + n) + l) + 2 = i /\ (n + l) + 2 = i
    BY <1>1 DEF l, m
  <2> HIDE DEF i
  <2> QED
    BY <1>13, <1>14, <2>1
<1>19. v[((((0 + n) + l) + 2) + m) + 1] = Newline
  <2>1. (0 + n) + l = n + l
    BY <1>1 DEF l, m
  <2> QED
    BY <1>14, <2>1
<1>20. LineAt(v, 0, n, key, val)
  BY <1>10, <1>15, <1>16, <1>17, <1>18, <1>19 DEF LineAt
<1>21. Len(v) = LineLen(n, key, val)
  BY <1>10, <1>14 DEF LineLen
<1> QED
  BY <1>5, <1>14, <1>20, <1>21

\* A line in the middle of a text.
LEMMA LineMoved ==
  ASSUME NEW n \in Nat, NEW key, IsSeq(key), NEW val, IsSeq(val), NEW line, LineAt(line, 0, n, key, val),
         NEW text, NEW a \in Nat, \A j \in 1..LineLen(n, key, val) : text[a + j] = line[j]
  PROVE  LineAt(text, a, n, key, val)
<1> DEFINE l == Len(key)  m == Len(val)
<1>1. l \in Nat /\ m \in Nat
  BY IsSeqFacts
<1>2. Len(key) = l /\ Len(val) = m /\ \A j \in 1..((((n + l) + 2) + m) + 1) : text[a + j] = line[j]
  BY DEF LineLen
<1>3. /\ \A j \in 1..n : line[0 + j] = Space
      /\ \A j \in 1..l : line[(0 + n) + j] = key[j]
      /\ line[((0 + n) + l) + 1] = Colon /\ line[((0 + n) + l) + 2] = Space
      /\ \A j \in 1..m : line[(((0 + n) + l) + 2) + j] = val[j]
      /\ line[((((0 + n) + l) + 2) + m) + 1] = Newline
  BY DEF LineAt
<1> HIDE DEF l, m
<1>4. l \in Nat /\ m \in Nat
  BY <1>1
<1>5. ASSUME NEW j \in 1..n PROVE text[a + j] = Space
  <2>1. j \in 1..((((n + l) + 2) + m) + 1) /\ 0 + j = j
    BY <1>4
  <2> QED
    BY <1>2, <1>3, <2>1
<1>6. ASSUME NEW j \in 1..l PROVE text[(a + n) + j] = key[j]
  <2> DEFINE i == n + j
  <2>1. i \in 1..((((n + l) + 2) + m) + 1) /\ (0 + n) + j = i /\ (a + n) + j = a + i
    BY <1>4
  <2> HIDE DEF i
  <2> QED
    BY <1>2, <1>3, <2>1
<1>7. text[((a + n) + l) + 1] = Colon /\ text[((a + n) + l) + 2] = Space
  <2> DEFINE i == (n + l) + 1  k == (n + l) + 2
  <2>1. /\ i \in 1..((((n + l) + 2) + m) + 1) /\ ((0 + n) + l) + 1 = i /\ ((a + n) + l) + 1 = a + i
        /\ k \in 1..((((n + l) + 2) + m) + 1) /\ ((0 + n) + l) + 2 = k /\ ((a + n) + l) + 2 = a + k
    BY <1>4
  <2> HIDE DEF i, k
  <2> QED
    BY <1>2, <1>3, <2>1
<1>8. ASSUME NEW j \in 1..m PROVE text[(((a + n) + l) + 2) + j] = val[j]
  <2> DEFINE i == ((n + l) + 2) + j
  <2>1. /\ i \in 1..((((n + l) + 2) + m) + 1) /\ (((0 + n) + l) + 2) + j = i
        /\ (((a + n) + l) + 2) + j = a + i
    BY <1>4
  <2> HIDE DEF i
  <2> QED
    BY <1>2, <1>3, <2>1
<1>9. text[((((a + n) + l) + 2) + m) + 1] = Newline
  <2> DEFINE i == (((n + l) + 2) + m) + 1
  <2>1. /\ i \in 1..((((n + l) + 2) + m) + 1) /\ ((((0 + n) + l) + 2) + m) + 1 = i
        /\ ((((a + n) + l) + 2) + m) + 1 = a + i
    BY <1>4
  <2> HIDE DEF i
  <2> QED
    BY <1>2, <1>3, <2>1
<1> QED
  BY <1>2, <1>5, <1>6, <1>7, <1>8, <1>9 DEF LineAt

(* A line is read as one field more.                                          *)
LEMMA ReadsLine ==
  ASSUME NEW text, NEW p, ReadsOn(p, text), Len(text) \in Nat, NEW a \in Nat, NEW n \in Nat,
         NEW key, IsSeq(key), IsText(key), NEW val, IsSeq(val), IsText(val),
         LineAt(text, a, n, key, val), a + LineLen(n, key, val) <= Len(text),
         NEW attrs, p[a] = Reading(<<>>, <<>>, attrs)
  PROVE  p[a + LineLen(n, key, val)] = Reading(<<>>, <<>>, Append(attrs, FieldOf(key, val)))
<1> DEFINE l == Len(key)  m == Len(val)
           b == a + n
           c == b + l
           d == (c + 2) + m
           none == <<>>
<1>1. l \in Nat /\ m \in Nat
  BY IsSeqFacts
<1>2. /\ b \in Nat /\ c \in Nat /\ c + 2 \in Nat /\ d \in Nat /\ a + LineLen(n, key, val) = d + 1
      /\ b <= Len(text) /\ c < Len(text) /\ c + 1 \in 1..Len(text) /\ c + 2 \in 1..Len(text)
      /\ d < Len(text) /\ d + 1 \in 1..Len(text)
      /\ (c + 1) - 1 = c /\ (c + 2) - 1 = c + 1 /\ (d + 1) - 1 = d
  <2>1. a + ((((n + l) + 2) + m) + 1) <= Len(text) /\ LineLen(n, key, val) = (((n + l) + 2) + m) + 1
    BY DEF LineLen
  <2> HIDE DEF l, m
  <2>2. l \in Nat /\ m \in Nat
    BY <1>1
  <2> QED
    BY <2>1, <2>2
<1>3. /\ \A j \in 1..n : text[a + j] = Space
      /\ \A j \in 1..l : text[b + j] = key[j]
      /\ text[c + 1] = Colon /\ text[c + 2] = Space
      /\ \A j \in 1..m : text[(c + 2) + j] = val[j]
      /\ text[d + 1] = Newline
  BY DEF LineAt
<1>4. p[b] = Reading(<<>>, <<>>, attrs)
  <2>1. b = a + n /\ b <= Len(text) /\ SpacesAt(text, a, n)
    BY <1>2, <1>3 DEF SpacesAt
  <2>2. p[a] = Reading(none, <<>>, attrs)
    OBVIOUS
  <2> HIDE DEF l, m, b, c, d, none
  <2>3. p[b] = Reading(none, <<>>, attrs)
    BY <2>1, <2>2, ReadsSpaces
  <2> QED
    BY <2>3 DEF none
<1>5. p[c] = Reading(<<>>, key, attrs)
  <2>1. b \in Nat /\ b + Len(key) < Len(text) /\ \A j \in 1..Len(key) : text[b + j] = key[j]
    BY <1>2, <1>3
  <2>2. c = b + Len(key)
    OBVIOUS
  <2>3. p[b] = Reading(none, <<>>, attrs)
    BY <1>4
  <2> HIDE DEF l, m, b, c, d, none
  <2>4. p[b + Len(key)] = Reading(none, key, attrs)
    BY <2>1, <2>3, ReadsWord
  <2> QED
    BY <2>2, <2>4 DEF none
<1> HIDE DEF b, c, d
<1>6. p[c + 1] = Reading(key, <<>>, attrs)
  <2>1. p[c + 1] = ReadOne(text, Reading(<<>>, key, attrs), c + 1)
    BY <1>2, <1>5 DEF ReadsOn
  <2>2. key # <<>> /\ Trimmed(key) = key
    BY TextFacts, TextTrimmed
  <2>3. ReadOne(text, Reading(<<>>, key, attrs), c + 1) = Reading(Trimmed(key), <<>>, attrs)
    BY <1>3, <2>2, ReadsColon
  <2> QED
    BY <2>1, <2>2, <2>3
<1>7. p[c + 2] = Reading(key, <<>>, attrs)
  <2>1. p[c + 2] = ReadOne(text, Reading(key, <<>>, attrs), c + 2)
    BY <1>2, <1>6 DEF ReadsOn
  <2>2. ReadOne(text, Reading(key, <<>>, attrs), c + 2) = Reading(key, <<>>, attrs)
    BY <1>3, ReadsSpace
  <2> QED
    BY <2>1, <2>2
<1>8. p[d] = Reading(key, val, attrs)
  <2>1. (c + 2) + Len(val) < Len(text) /\ d = (c + 2) + Len(val)
    BY <1>2 DEF d
  <2>2. \A j \in 1..Len(val) : text[(c + 2) + j] = val[j]
    BY <1>3
  <2> DEFINE e == c + 2
  <2>3. /\ e \in Nat /\ e + Len(val) < Len(text) /\ p[e] = Reading(key, <<>>, attrs)
        /\ \A j \in 1..Len(val) : text[e + j] = val[j]
    BY <1>2, <1>7, <2>1, <2>2
  <2> HIDE DEF e
  <2>4. p[e + Len(val)] = Reading(key, val, attrs)
    BY <2>3, ReadsWord
  <2> QED
    BY <2>1, <2>4 DEF e
<1>9. p[d + 1] = Reading(<<>>, <<>>, Append(attrs, FieldOf(key, val)))
  <2>1. p[d + 1] = ReadOne(text, Reading(key, val, attrs), d + 1)
    BY <1>2, <1>8 DEF ReadsOn
  <2>2. key # <<>> /\ val # <<>> /\ Trimmed(val) = val
    BY TextFacts, TextTrimmed
  <2>3. ReadOne(text, Reading(key, val, attrs), d + 1) = Reading(<<>>, <<>>, Append(attrs, FieldOf(key, Trimmed(val))))
    BY <1>3, <2>2, ReadsNewline
  <2> QED
    BY <2>1, <2>2, <2>3
<1> QED
  BY <1>2, <1>9

\* The column of the keys, as far as a field.
Wider(field, width) == IF Len(KeyOf(field)) > width THEN Len(KeyOf(field)) + 1 ELSE width
Widens(e, f, m) == f = [n \in 0..m |-> IF n = 0 THEN 0 ELSE Wider(e[n], f[n - 1])]
Widenable(e, m) == \E f : Widens(e, f, m)
LineOf(column, field) == Line(Width(column, KeyOf(field)), KeyOf(field), field.val)

LEMMA WiderFacts ==
  ASSUME NEW field, field.pass \in BOOLEAN, NEW width \in Nat
  PROVE  Wider(field, width) \in Nat
<1>1. Len(KeyOf(field)) \in Nat
  BY KeyFacts
<1> QED
  BY <1>1 DEF Wider

(* The text has a line for every field, with the keys in one column.          *)
LEMMA LinesPrinted ==
  ASSUME NEW e \in EntryText
  PROVE  \E column \in Nat : PrintEntry(e) = FlattenSeq([i \in DOMAIN e |-> LineOf(column, e[i])])
<1> DEFINE N == Len(e)
           Good == {m \in 1..(N + 1) : Widenable(e, m - 1)}
<1>0. N \in Nat /\ \A n \in 1..N : e[n].pass \in BOOLEAN
  <2>1. \A n \in 1..N : e[n] \in Field
    BY DEF EntryText
  <2> QED
    BY <2>1 DEF Field, EntryText
<1>1. 1 \in Good
  <2> DEFINE f == [n \in 0..0 |-> 0]
  <2>1. Widens(e, f, 0)
    BY DEF Widens
  <2>2. 1 \in 1..(N + 1) /\ 1 - 1 = 0
    BY <1>0
  <2>3. Widenable(e, 0)
    BY <2>1 DEF Widenable
  <2> QED
    BY <2>2, <2>3
<1>2. ASSUME NEW m \in 2..(N + 1), m - 1 \in Good PROVE m \in Good
  <2> DEFINE l == m - 2
  <2>0. l \in Nat /\ m = l + 2 /\ l + 1 \in 1..N /\ m - 1 - 1 = l /\ m - 1 = l + 1 /\ m \in 1..(N + 1)
    BY <1>0
  <2>1. Widenable(e, l)
    <3> HIDE DEF l
    <3> QED
      BY <1>2, <2>0
  <2>2. PICK g : Widens(e, g, l)
    BY <2>1 DEF Widenable
  <2> HIDE DEF l
  <2> DEFINE f == [n \in 0..(l + 1) |-> IF n = l + 1 THEN Wider(e[l + 1], g[l]) ELSE g[n]]
  <2>3. \A n \in 0..l : g[n] = IF n = 0 THEN 0 ELSE Wider(e[n], g[n - 1])
    BY <2>2 DEF Widens
  <2>4. ASSUME NEW n \in 0..(l + 1) PROVE f[n] = IF n = 0 THEN 0 ELSE Wider(e[n], f[n - 1])
    <3>1. CASE n = l + 1
      <4>1. n # 0 /\ n - 1 = l /\ l \in 0..(l + 1) /\ l # l + 1
        BY <2>0, <3>1
      <4>2. f[n] = Wider(e[l + 1], g[l]) /\ f[l] = g[l]
        BY <3>1, <4>1
      <4> HIDE DEF f
      <4> QED
        BY <3>1, <4>1, <4>2
    <3>2. CASE n # l + 1
      <4>1. n \in 0..l /\ (n # 0 => n - 1 \in 0..(l + 1) /\ n - 1 # l + 1)
        BY <2>0, <3>2
      <4>2. f[n] = g[n] /\ (n # 0 => f[n - 1] = g[n - 1])
        BY <3>2, <4>1
      <4> HIDE DEF f
      <4>3. CASE n = 0
        BY <2>3, <4>1, <4>2, <4>3
      <4>4. CASE n # 0
        BY <2>3, <4>1, <4>2, <4>4
      <4> QED
        BY <4>3, <4>4
    <3> QED
      BY <3>1, <3>2
  <2>5. Widens(e, f, l + 1)
    <3>1. f = [n \in 0..(l + 1) |-> f[n]]
      OBVIOUS
    <3> HIDE DEF f
    <3> QED
      BY <2>4, <3>1 DEF Widens
  <2>6. Widenable(e, l + 1)
    BY <2>5 DEF Widenable
  <2> QED
    BY <2>0, <1>2, <2>6
<1>3. N + 1 \in Good
  <2>1. N + 1 \in Nat /\ N + 1 \in 1..(N + 1)
    BY <1>0
  <2> HIDE DEF Good
  <2> QED
    BY <1>1, <1>2, <2>1, AllFromFirst
<1>4. \E f : Widens(e, f, N)
  <2>1. N + 1 - 1 = N
    BY <1>0
  <2>2. N + 1 \in Good
    BY <1>3
  <2>3. Widenable(e, N + 1 - 1)
    BY <2>2
  <2> HIDE DEF N
  <2>4. Widenable(e, N)
    BY <2>1, <2>3, Zenon
  <2> QED
    BY <2>4 DEF Widenable
<1> DEFINE max == CHOOSE f : Widens(e, f, N)
<1>5. Widens(e, max, N)
  BY <1>4, Zenon
<1>6. PrintEntry(e) = FlattenSeq([i \in DOMAIN e |-> LineOf(max[N], e[i])])
  BY DEF PrintEntry, Widens, Wider, LineOf, Line, Width, Spaces
<1> HIDE DEF max
<1>7. \A n \in 0..N : max[n] = IF n = 0 THEN 0 ELSE Wider(e[n], max[n - 1])
  BY <1>5 DEF Widens
<1>8. max[N] \in Nat
  <2> DEFINE Fine == {m \in 1..(N + 1) : max[m - 1] \in Nat}
  <2>1. 1 \in Fine
    BY <1>0, <1>7
  <2>2. ASSUME NEW m \in 2..(N + 1), m - 1 \in Fine PROVE m \in Fine
    <3>1. /\ m - 1 \in 1..N /\ m - 1 \in 0..N /\ m - 1 # 0 /\ m \in 1..(N + 1)
          /\ max[m - 1 - 1] \in Nat
      BY <1>0, <2>2
    <3>2. Wider(e[m - 1], max[m - 1 - 1]) \in Nat
      <4> DEFINE field == e[m - 1]
                 width == max[m - 1 - 1]
      <4>1. field.pass \in BOOLEAN /\ width \in Nat
        BY <1>0, <3>1
      <4> HIDE DEF field, width
      <4>2. Wider(field, width) \in Nat
        BY <4>1, WiderFacts
      <4> QED
        BY <4>2 DEF field, width
    <3>3. max[m - 1] = Wider(e[m - 1], max[m - 1 - 1])
      BY <1>7, <3>1
    <3> QED
      BY <3>1, <3>2, <3>3
  <2>3. N + 1 \in Fine
    <3>1. N + 1 \in Nat /\ N + 1 \in 1..(N + 1)
      BY <1>0
    <3> HIDE DEF Fine
    <3> QED
      BY <2>1, <2>2, <3>1, AllFromFirst
  <2>4. N + 1 - 1 = N
    BY <1>0
  <2>5. max[N + 1 - 1] \in Nat
    BY <2>3
  <2> HIDE DEF N
  <2> QED
    BY <2>4, <2>5, Zenon
<1> QED
  BY <1>6, <1>8

\* The two keys are texts.
LEMMA KeysAreTexts ==
  ASSUME NEW field
  PROVE  IsText(KeyOf(field))
<1> DEFINE s == PassKey
           t == PlainKey
<1>1. /\ IsSeq(s) /\ Len(s) = 4 /\ s[1] = 80 /\ s[2] = 81 /\ s[3] = 83 /\ s[4] = 83 /\ IsSeq(t) /\ Len(t) = 1 /\ t[1] = 82
  BY TupleFacts, FourFacts DEF PassKey, PlainKey
<1> HIDE DEF s, t
<1>2. ASSUME NEW u, IsSeq(u), Len(u) >= 1, \A k \in 1..Len(u) : u[k] \in {80, 81, 82, 83} PROVE IsText(u)
  <2>1. Len(u) \in Nat /\ DOMAIN u = 1..Len(u) /\ u # <<>>
    BY <1>2, IsSeqFacts
  <2>2. u[1] # Space /\ u[Len(u)] # Space
    BY <1>2, <2>1 DEF Space
  <2>3. Range(u) \subseteq {80, 81, 82, 83}
    BY <1>2, <2>1 DEF Range
  <2>4. Range(u) \cap {Colon, Newline} = {}
    BY <2>3 DEF Colon, Newline
  <2> QED
    BY <2>1, <2>2, <2>4 DEF IsText, Last
<1>3. IsText(s) /\ IsText(t)
  <2>1. ASSUME NEW k \in 1..4 PROVE s[k] \in {80, 81, 82, 83}
    <3>1. k = 1 \/ k = 2 \/ k = 3 \/ k = 4
      OBVIOUS
    <3> QED
      BY <1>1, <3>1
  <2>2. \A k \in 1..Len(s) : s[k] \in {80, 81, 82, 83}
    BY <1>1, <2>1
  <2>3. Len(s) >= 1 /\ Len(t) >= 1
    BY <1>1
  <2>4. \A k \in 1..Len(t) : t[k] \in {80, 81, 82, 83}
    BY <1>1
  <2> QED
    BY <1>1, <1>2, <2>2, <2>3, <2>4
<1> QED
  BY <1>3 DEF KeyOf, s, t

(* What the editor gets, read back, is the entry if there is memory for it.   *)
LEMMA TextReadBack ==
  ASSUME NEW e \in EntryText
  PROVE  ParseEntry(PrintEntry(e)) = IF Len(e) <= Slots(PrintEntry(e)) THEN e ELSE Overrun
<1> DEFINE N == Len(e)
           text == PrintEntry(e)
<1>1. N \in Nat /\ DOMAIN e = 1..N /\ IsSeq(e)
  BY SeqIsSeq DEF EntryText
<1>2. ASSUME NEW i \in 1..N
      PROVE  /\ IsSeq(KeyOf(e[i])) /\ IsText(KeyOf(e[i])) /\ IsSeq(e[i].val) /\ IsText(e[i].val)
             /\ FieldOf(KeyOf(e[i]), e[i].val) = e[i]
  <2>1. e[i] \in Field
    BY DEF EntryText
  <2>2. e[i].val \in Seq(Nat) /\ IsText(e[i].val) /\ e[i].pass \in BOOLEAN
    BY <2>1 DEF Field, Text
  <2>3. e[i] = [pass |-> e[i].pass, val |-> e[i].val]
    BY <2>1 DEF Field
  <2>4. IsSeq(e[i].val)
    BY <2>2, SeqIsSeq
  <2>5. IsSeq(KeyOf(e[i])) /\ (KeyOf(e[i]) = PassKey <=> e[i].pass)
    BY <2>2, KeyFacts
  <2>6. IsText(KeyOf(e[i]))
    BY KeysAreTexts
  <2>7. FieldOf(KeyOf(e[i]), e[i].val) = e[i]
    BY <2>2, <2>3, <2>5 DEF FieldOf
  <2> QED
    BY <2>2, <2>4, <2>5, <2>6, <2>7
<1>3. PICK column \in Nat : text = FlattenSeq([i \in DOMAIN e |-> LineOf(column, e[i])])
  BY LinesPrinted
<1> DEFINE lines == [i \in DOMAIN e |-> LineOf(column, e[i])]
           pad(i) == Width(column, KeyOf(e[i]))
           size(i) == LineLen(pad(i), KeyOf(e[i]), e[i].val)
<1>4. ASSUME NEW i \in 1..N
      PROVE  /\ pad(i) \in Nat /\ IsSeq(lines[i]) /\ Len(lines[i]) = size(i)
             /\ LineAt(lines[i], 0, pad(i), KeyOf(e[i]), e[i].val)
  <2>1. Len(KeyOf(e[i])) \in Nat
    BY <1>2, IsSeqFacts
  <2>2. pad(i) \in Nat
    BY <2>1 DEF Width
  <2>3. lines[i] = Line(pad(i), KeyOf(e[i]), e[i].val)
    BY <1>1 DEF LineOf
  <2> HIDE DEF lines, pad
  <2> QED
    BY <1>2, <2>2, <2>3, LineFacts
<1>5. IsSeq(lines) /\ Len(lines) = N
  <2>1. lines = [i \in 1..N |-> lines[i]]
    BY <1>1
  <2> HIDE DEF lines
  <2> QED
    BY <1>1, <2>1, MadeSeq
<1>6. text = FlattenSeq(lines)
  BY <1>3
<1> HIDE DEF text, lines, pad, size, N
<1>7. PICK off : Lays(off, lines, text)
  <2>1. \A i \in 1..Len(lines) : IsSeq(lines[i])
    BY <1>4, <1>5
  <2>2. \E off : Lays(off, lines, FlattenSeq(lines))
    BY <1>5, <2>1, FlattenLays
  <2> QED
    BY <1>6, <2>2
<1>8. /\ IsSeq(text) /\ Len(text) \in Nat /\ off[1] = 0 /\ off[N + 1] = Len(text)
      /\ \A i \in 1..(N + 1) : off[i] \in Nat /\ off[i] <= Len(text)
      /\ \A i \in 1..N : /\ off[i + 1] = off[i] + size(i)
                         /\ \A j \in 1..size(i) : text[off[i] + j] = lines[i][j]
  <2>1. /\ IsSeq(text) /\ off[1] = 0 /\ off[N + 1] = Len(text)
        /\ \A i \in 1..(N + 1) : off[i] \in Nat
    BY <1>5, <1>7 DEF Lays
  <2>2. \A i, k \in 1..(N + 1) : i <= k => off[i] <= off[k]
    <3>1. \A i \in 1..Len(lines) : IsSeq(lines[i])
      BY <1>4, <1>5
    <3> QED
      BY <1>5, <1>7, <3>1, LaysGrow
  <2>3. \A i \in 1..(N + 1) : off[i] <= Len(text)
    <3>1. N + 1 \in 1..(N + 1) /\ \A i \in 1..(N + 1) : i <= N + 1
      BY <1>1
    <3> QED
      BY <2>1, <2>2, <3>1
  <2>4. \A i \in 1..N : /\ off[i + 1] = off[i] + size(i)
                        /\ \A j \in 1..size(i) : text[off[i] + j] = lines[i][j]
    BY <1>4, <1>5, <1>7 DEF Lays
  <2>5. Len(text) \in Nat
    BY <2>1, IsSeqFacts
  <2> QED
    BY <2>1, <2>3, <2>4, <2>5
<1>9. PICK p : p[0] = Reading(<<>>, <<>>, <<>>) /\ ReadsOn(p, text) /\ ParseEntry(text) = Parsed(p[Len(text)], text)
  BY <1>8, ParseReads
<1> DEFINE had(n) == SubSeq(e, 1, n)
           Good == {i \in 1..(N + 1) : p[off[i]] = Reading(<<>>, <<>>, had(i - 1))}
<1>10. ASSUME NEW n \in 0..N PROVE IsSeq(had(n)) /\ Len(had(n)) = n /\ \A k \in 1..n : had(n)[k] = e[k]
  BY <1>1, <1>10, PartFacts DEF N
<1>11. had(0) = <<>>
  <2>1. 0 \in 0..N
    BY <1>1
  <2> HIDE DEF had
  <2> QED
    BY <1>10, <2>1, IsSeqFacts
<1>12. had(N) = e
  <2>1. N \in 0..N /\ Len(e) = N
    BY <1>1 DEF N
  <2> HIDE DEF had
  <2> QED
    BY <1>1, <1>10, <2>1, SameSeq
<1>13. ASSUME NEW l \in 1..N PROVE Append(had(l - 1), e[l]) = had(l)
  BY <1>1, PartGrows DEF N
<1> HIDE DEF had
<1>14. 1 \in Good
  <2>1. 1 \in 1..(N + 1) /\ 1 - 1 = 0
    BY <1>1
  <2> QED
    BY <1>8, <1>9, <1>11, <2>1
<1>15. ASSUME NEW m \in 2..(N + 1), m - 1 \in Good PROVE m \in Good
  <2> DEFINE l == m - 1
             a == off[l]
             n == pad(l)
             key == KeyOf(e[l])
             val == e[l].val
             attrs == had(l - 1)
             b == a + LineLen(n, key, val)
  <2>1. l \in 1..N /\ l \in 1..(N + 1) /\ l + 1 = m /\ m - 1 = l /\ m \in 1..(N + 1)
    BY <1>1
  <2>2. p[a] = Reading(<<>>, <<>>, attrs)
    BY <1>15
  <2> HIDE DEF l
  <2>3. n \in Nat /\ IsSeq(key) /\ IsText(key) /\ IsSeq(val) /\ IsText(val) /\ LineAt(lines[l], 0, n, key, val)
    BY <1>2, <1>4, <2>1
  <2>4. a \in Nat /\ (\A j \in 1..LineLen(n, key, val) : text[a + j] = lines[l][j]) /\ off[m] = b /\ b <= Len(text)
    <3>1. off[m] = off[l] + size(l) /\ off[m] <= Len(text) /\ off[l] \in Nat
      BY <1>8, <2>1
    <3>2. \A j \in 1..size(l) : text[off[l] + j] = lines[l][j]
      BY <1>8, <2>1
    <3> QED
      BY <3>1, <3>2 DEF size
  <2>5. FieldOf(key, val) = e[l] /\ Append(attrs, e[l]) = had(l)
    BY <1>2, <1>13, <2>1
  <2> HIDE DEF a, n, key, val, attrs
  <2>6. LineAt(text, a, n, key, val)
    <3> DEFINE line == lines[l]
    <3>1. LineAt(line, 0, n, key, val) /\ \A j \in 1..LineLen(n, key, val) : text[a + j] = line[j]
      BY <2>3, <2>4
    <3> HIDE DEF line
    <3> QED
      BY <2>3, <2>4, <3>1, LineMoved
  <2>7. p[b] = Reading(<<>>, <<>>, Append(attrs, FieldOf(key, val)))
    BY <1>8, <1>9, <2>2, <2>3, <2>4, <2>6, ReadsLine
  <2>8. p[off[m]] = Reading(<<>>, <<>>, had(m - 1))
    BY <2>1, <2>4, <2>5, <2>7
  <2> QED
    BY <2>1, <2>8
<1>16. N + 1 \in Good
  <2>1. N + 1 \in Nat /\ N + 1 \in 1..(N + 1)
    BY <1>1
  <2> HIDE DEF Good
  <2> QED
    BY <1>14, <1>15, <2>1, AllFromFirst
<1>17. p[Len(text)] = Reading(<<>>, <<>>, e)
  <2> DEFINE m == N + 1
  <2>1. m - 1 = N /\ off[m] = Len(text) /\ m \in Good
    BY <1>1, <1>8, <1>16
  <2> HIDE DEF m
  <2>2. p[off[m]] = Reading(<<>>, <<>>, had(m - 1))
    BY <2>1
  <2> QED
    BY <1>12, <2>1, <2>2
<1>18. Result(Reading(<<>>, <<>>, e)) = e
  BY DEF Result, Reading
<1>19. Parsed(Reading(<<>>, <<>>, e), text) = IF Len(e) <= Slots(text) THEN e ELSE Overrun
  <2> DEFINE end == Reading(<<>>, <<>>, e)
  <2>1. end.attrs = e /\ end.key = <<>>
    BY DEF Reading
  <2> HIDE DEF end
  <2>2. Len(e) \in Nat /\ Slots(text) \in Nat
    <3>1. Len(text) \in Nat /\ Len(e) \in Nat
      BY <1>1, <1>8 DEF N
    <3> QED
      BY <3>1 DEF Slots
  <2>3. Len(end.attrs) + (IF end.key = <<>> THEN 0 ELSE 1) > Slots(text) <=> ~ (Len(e) <= Slots(text))
    BY <2>1, <2>2
  <2> QED
    BY <1>18, <2>3 DEF Parsed, end
<1> QED
  BY <1>9, <1>17, <1>19 DEF text

===============================================================================
