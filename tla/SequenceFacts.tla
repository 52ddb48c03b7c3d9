---------------------------- MODULE SequenceFacts ----------------------------
(***************************************************************************)
(* Lemmas about sequences as queues: what a sequence holds, and that it    *)
(* holds nothing twice, after Append, Tail, a cut and a concatenation, and *)
(* about the sizes of the sets that counters stand for; and induction over *)
(* the natural numbers, for sets.                                          *)
(***************************************************************************)
EXTENDS Integers, Sequences, SequencesExt, SequenceTheorems, FiniteSetTheorems,
        WellFoundedInduction, TLAPS

\* A sequence holds its elements.
LEMMA RangeFacts ==
    ASSUME NEW S, NEW s \in Seq(S)
    PROVE  /\ Range(s) = {s[i] : i \in 1..Len(s)} /\ Range(s) \subseteq S
           /\ IsInjective(s) <=> \A i, j \in 1..Len(s) : s[i] = s[j] => i = j
           /\ Range(s) = {} <=> s = << >>
  <1>1. Len(s) \in Nat /\ DOMAIN s = 1..Len(s) /\ \A i \in 1..Len(s) : s[i] \in S
    BY LenProperties, ElementOfSeq
  <1>2. Range(s) = {s[i] : i \in 1..Len(s)} /\ Range(s) \subseteq S
    BY <1>1 DEF Range
  <1>3. IsInjective(s) <=> \A i, j \in 1..Len(s) : s[i] = s[j] => i = j
    BY <1>1 DEF IsInjective
  <1>4. s # << >> => 1 \in 1..Len(s)
    BY <1>1, EmptySeq
  <1>5. s = << >> => Range(s) = {}
    BY <1>1, <1>2
  <1>6. QED
    BY <1>2, <1>3, <1>4, <1>5

LEMMA SmallSequences ==
    ASSUME NEW x
    PROVE  /\ Range(<< >>) = {} /\ IsInjective(<< >>)
           /\ Range(<< x >>) = {x} /\ IsInjective(<< x >>)
  BY DEF Range, IsInjective

LEMMA AppendFacts ==
    ASSUME NEW S, NEW s \in Seq(S), NEW x \in S
    PROVE  /\ Append(s, x) \in Seq(S)
           /\ Range(Append(s, x)) = Range(s) \cup {x}
           /\ IsInjective(s) /\ x \notin Range(s) => IsInjective(Append(s, x))
  <1> DEFINE t == Append(s, x)
  <1>1. /\ t \in Seq(S) /\ Len(t) = Len(s) + 1 /\ Len(s) \in Nat
        /\ \A i \in 1..Len(s) : t[i] = s[i]
        /\ t[Len(s) + 1] = x
    BY AppendProperties, LenProperties
  <1>2. \A i \in 1..(Len(s) + 1) : i \in 1..Len(s) \/ i = Len(s) + 1
    BY <1>1
  <1>3. \A i \in 1..Len(s) : i \in 1..(Len(s) + 1) /\ i # Len(s) + 1
    BY <1>1
  <1>4. Len(s) + 1 \in 1..(Len(s) + 1)
    BY <1>1
  <1> HIDE DEF t
  <1>5. Range(s) = {s[i] : i \in 1..Len(s)} /\ Range(t) = {t[i] : i \in 1..(Len(s) + 1)}
    BY <1>1, RangeFacts
  <1>6. Range(t) = Range(s) \cup {x}
    BY <1>1, <1>2, <1>3, <1>4, <1>5
  <1>7. ASSUME IsInjective(s), x \notin Range(s) PROVE IsInjective(t)
    <2>1. \A i, j \in 1..Len(s) : s[i] = s[j] => i = j
      BY <1>7, RangeFacts
    <2>2. \A i \in 1..Len(s) : s[i] # x
      BY <1>5, <1>7
    <2>3. \A i, j \in 1..Len(t) : t[i] = t[j] => i = j
      BY <1>1, <1>2, <2>1, <2>2
    <2>4. QED
      BY <1>1, <2>3, RangeFacts
  <1>8. QED
    BY <1>1, <1>6, <1>7 DEF t

\* A part of a sequence.
LEMMA PieceFacts ==
    ASSUME NEW S, NEW s \in Seq(S), NEW a \in Nat \ {0}, NEW b \in Nat, b <= Len(s)
    PROVE  /\ SubSeq(s, a, b) \in Seq(S)
           /\ Len(SubSeq(s, a, b)) = IF a <= b THEN b - a + 1 ELSE 0
           /\ Range(SubSeq(s, a, b)) = {s[i] : i \in a..b}
           /\ IsInjective(s) => IsInjective(SubSeq(s, a, b))
  <1> DEFINE t == SubSeq(s, a, b)
             n == b - a + 1
  <1>0. Len(s) \in Nat /\ n \in Int
    BY LenProperties
  <1>1. \A i \in a..b : i \in 1..Len(s) /\ s[i] \in S
    BY <1>0, ElementOfSeq
  <1>2. /\ t \in Seq(S) /\ Len(t) = IF a <= b THEN n ELSE 0
        /\ \A i \in 1..n : t[i] = s[a + i - 1]
    BY <1>1, SubSeqProperties
  <1> HIDE DEF t
  <1>3. 1..Len(t) = 1..n
    BY <1>0, <1>2
  <1>4. Range(t) = {s[i] : i \in a..b}
    <2>1. Range(t) = {t[i] : i \in 1..n}
      BY <1>2, <1>3, RangeFacts
    <2>2. \A i \in 1..n : a + i - 1 \in a..b /\ t[i] = s[a + i - 1]
      BY <1>2
    <2>3. \A i \in a..b : i - a + 1 \in 1..n /\ t[i - a + 1] = s[i]
      <3>1. \A i \in a..b : i - a + 1 \in 1..n /\ a + (i - a + 1) - 1 = i
        OBVIOUS
      <3>2. QED
        BY <1>2, <3>1
    <2> HIDE DEF n
    <2>4. QED
      BY <2>1, <2>2, <2>3
  <1>5. ASSUME IsInjective(s) PROVE IsInjective(t)
    <2>1. \A i, j \in 1..Len(s) : s[i] = s[j] => i = j
      BY <1>5, RangeFacts
    <2>2. \A i \in 1..n : a + i - 1 \in 1..Len(s)
      BY <1>0
    <2>3. \A i, j \in 1..n : t[i] = t[j] => a + i - 1 = a + j - 1
      BY <1>2, <2>1, <2>2
    <2>4. \A i, j \in 1..n : a + i - 1 = a + j - 1 => i = j
      OBVIOUS
    <2>5. \A i, j \in 1..Len(t) : t[i] = t[j] => i = j
      BY <1>3, <2>3, <2>4
    <2>6. QED
      BY <1>2, <2>5, RangeFacts
  <1>6. QED
    BY <1>2, <1>4, <1>5 DEF t

\* A sequence cut in two.
LEMMA CutFacts ==
    ASSUME NEW S, NEW s \in Seq(S), NEW n \in Nat, n <= Len(s)
    PROVE  LET front == SubSeq(s, 1, n)
               back == SubSeq(s, n + 1, Len(s))
           IN  /\ front \in Seq(S) /\ back \in Seq(S)
               /\ Len(front) = n /\ Len(back) = Len(s) - n
               /\ Range(s) = Range(front) \cup Range(back)
               /\ IsInjective(s) => /\ IsInjective(front) /\ IsInjective(back)
                                    /\ Range(front) \cap Range(back) = {}
  <1> DEFINE front == SubSeq(s, 1, n)
             back == SubSeq(s, n + 1, Len(s))
  <1>0. Len(s) \in Nat
    BY LenProperties
  <1>1. /\ front \in Seq(S) /\ Len(front) = n /\ Range(front) = {s[i] : i \in 1..n}
        /\ IsInjective(s) => IsInjective(front)
    BY <1>0, PieceFacts
  <1>2. /\ back \in Seq(S) /\ Len(back) = Len(s) - n
        /\ Range(back) = {s[i] : i \in (n + 1)..Len(s)}
        /\ IsInjective(s) => IsInjective(back)
    <2>1. n + 1 \in Nat \ {0} /\ Len(s) <= Len(s)
      BY <1>0
    <2>2. QED
      BY <1>0, <2>1, PieceFacts
  <1>3. Range(s) = {s[i] : i \in 1..Len(s)}
    BY RangeFacts
  <1>4. /\ \A i \in 1..Len(s) : i \in 1..n \/ i \in (n + 1)..Len(s)
        /\ \A i \in 1..n : i \in 1..Len(s)
        /\ \A i \in (n + 1)..Len(s) : i \in 1..Len(s)
    BY <1>0
  <1>5. ASSUME IsInjective(s) PROVE Range(front) \cap Range(back) = {}
    <2>1. \A i, j \in 1..Len(s) : s[i] = s[j] => i = j
      BY <1>5, RangeFacts
    <2>2. \A i \in 1..n, j \in (n + 1)..Len(s) : i # j
      BY <1>0
    <2>3. \A i \in 1..n, j \in (n + 1)..Len(s) : s[i] # s[j]
      BY <1>4, <2>1, <2>2
    <2> HIDE DEF front, back
    <2>4. QED
      BY <1>1, <1>2, <2>3
  <1> HIDE DEF front, back
  <1>6. Range(s) = Range(front) \cup Range(back)
    BY <1>1, <1>2, <1>3, <1>4
  <1>7. QED
    BY <1>1, <1>2, <1>5, <1>6 DEF front, back

LEMMA HeadTailFacts ==
    ASSUME NEW S, NEW s \in Seq(S), s # << >>
    PROVE  /\ Head(s) \in S /\ Tail(s) \in Seq(S) /\ Len(Tail(s)) = Len(s) - 1
           /\ Tail(s) = << >> <=> Len(s) = 1
           /\ Range(s) = {Head(s)} \cup Range(Tail(s))
           /\ IsInjective(s) => IsInjective(Tail(s)) /\ Head(s) \notin Range(Tail(s))
  <1>0. Len(s) \in Nat /\ 1 <= Len(s)
    BY EmptySeq, LenProperties
  <1>1. Head(s) \in S /\ Tail(s) \in Seq(S) /\ Len(Tail(s)) = Len(s) - 1
    BY HeadTailProperties
  <1>2. Tail(s) = SubSeq(s, 1 + 1, Len(s))
    BY TailIsSubSeq
  <1>3. Range(SubSeq(s, 1, 1)) = {Head(s)}
    <2>1. Range(SubSeq(s, 1, 1)) = {s[i] : i \in 1..1}
      BY <1>0, PieceFacts
    <2>2. s[1] = Head(s)
      OBVIOUS
    <2>3. QED
      BY <2>1, <2>2
  <1>4. /\ Range(s) = Range(SubSeq(s, 1, 1)) \cup Range(SubSeq(s, 1 + 1, Len(s)))
        /\ IsInjective(s) => /\ IsInjective(SubSeq(s, 1 + 1, Len(s)))
                             /\ Range(SubSeq(s, 1, 1)) \cap Range(SubSeq(s, 1 + 1, Len(s))) = {}
    <2>1. 1 \in Nat
      OBVIOUS
    <2>2. QED
      BY <1>0, <2>1, CutFacts, Zenon
  <1>5. Tail(s) = << >> <=> Len(s) = 1
    <2> DEFINE t == Tail(s)
    <2>1. t \in Seq(S) /\ Len(t) = Len(s) - 1
      BY <1>1
    <2> HIDE DEF t
    <2>2. t = << >> <=> Len(t) = 0
      BY <2>1, EmptySeq
    <2>3. QED
      BY <1>0, <2>1, <2>2 DEF t
  <1>6. QED
    BY <1>1, <1>2, <1>3, <1>4, <1>5

LEMMA ConcatFacts ==
    ASSUME NEW S, NEW s \in Seq(S), NEW t \in Seq(S)
    PROVE  /\ s \o t \in Seq(S)
           /\ Range(s \o t) = Range(s) \cup Range(t)
           /\ IsInjective(s) /\ IsInjective(t) /\ Range(s) \cap Range(t) = {}
                 => IsInjective(s \o t)
  <1> DEFINE u == s \o t
             m == Len(s)
             n == Len(t)
  <1>1. /\ u \in Seq(S) /\ Len(u) = m + n /\ m \in Nat /\ n \in Nat
        /\ \A i \in 1..(m + n) : u[i] = IF i <= m THEN s[i] ELSE t[i - m]
    BY ConcatProperties, LenProperties
  <1> HIDE DEF u, m, n
  <1>2. \A i \in 1..(m + n) : \/ i \in 1..m /\ u[i] = s[i]
                              \/ i - m \in 1..n /\ u[i] = t[i - m]
    BY <1>1
  <1>3. \A i \in 1..m : i \in 1..(m + n) /\ u[i] = s[i]
    BY <1>1
  <1>4. \A i \in 1..n : m + i \in 1..(m + n) /\ u[m + i] = t[i]
    <2>1. \A i \in 1..n : m + i \in 1..(m + n) /\ ~(m + i <= m) /\ (m + i) - m = i
      BY <1>1
    <2>2. QED
      BY <1>1, <2>1
  <1>5. /\ Range(u) = {u[i] : i \in 1..(m + n)}
        /\ Range(s) = {s[i] : i \in 1..m} /\ Range(t) = {t[i] : i \in 1..n}
    BY <1>1, RangeFacts DEF m, n
  <1>6. Range(u) = Range(s) \cup Range(t)
    BY <1>2, <1>3, <1>4, <1>5
  <1>7. ASSUME IsInjective(s), IsInjective(t), Range(s) \cap Range(t) = {}
        PROVE  IsInjective(u)
    <2>1. /\ \A i, j \in 1..m : s[i] = s[j] => i = j
          /\ \A i, j \in 1..n : t[i] = t[j] => i = j
      BY <1>7, RangeFacts DEF m, n
    <2>2. \A i \in 1..m, j \in 1..n : s[i] # t[j]
      BY <1>5, <1>7
    <2>3. \A i, j \in 1..(m + n) : i - m = j - m => i = j
      BY <1>1
    <2>4. \A i, j \in 1..(m + n) : u[i] = u[j] => i = j
      BY <1>2, <2>1, <2>2, <2>3
    <2>5. QED
      BY <1>1, <2>4, RangeFacts
  <1>8. QED
    BY <1>1, <1>6, <1>7 DEF u

\* A sequence whose head, the n elements after it and the rest are taken apart.
LEMMA ShareFacts ==
    ASSUME NEW S, NEW s \in Seq(S), NEW n \in Nat, n < Len(s)
    PROVE  LET share == SubSeq(s, 2, n + 1)
               rest == SubSeq(s, n + 2, Len(s))
           IN  /\ Head(s) \in S /\ share \in Seq(S) /\ rest \in Seq(S)
               /\ Range(s) = {Head(s)} \cup Range(share) \cup Range(rest)
               /\ IsInjective(s) => /\ IsInjective(share) /\ IsInjective(rest)
                                    /\ Head(s) \notin Range(share) \cup Range(rest)
                                    /\ Range(share) \cap Range(rest) = {}
  <1> DEFINE share == SubSeq(s, 2, n + 1)
             rest == SubSeq(s, n + 2, Len(s))
  <1>0. Len(s) \in Nat /\ 1 \in 1..Len(s) /\ n + 1 \in Nat /\ n + 1 <= Len(s)
        /\ 2 \in Nat \ {0} /\ n + 2 \in Nat \ {0} /\ Len(s) <= Len(s)
    BY LenProperties
  <1>1. /\ share \in Seq(S) /\ Range(share) = {s[i] : i \in 2..(n + 1)}
        /\ IsInjective(s) => IsInjective(share)
    BY <1>0, PieceFacts
  <1>2. /\ rest \in Seq(S) /\ Range(rest) = {s[i] : i \in (n + 2)..Len(s)}
        /\ IsInjective(s) => IsInjective(rest)
    BY <1>0, PieceFacts
  <1>3. Head(s) = s[1] /\ Head(s) \in S
    BY <1>0, ElementOfSeq
  <1>4. Range(s) = {s[i] : i \in 1..Len(s)}
    BY RangeFacts
  <1>5. /\ \A i \in 1..Len(s) : i = 1 \/ i \in 2..(n + 1) \/ i \in (n + 2)..Len(s)
        /\ \A i \in 2..(n + 1) : i \in 1..Len(s) /\ i # 1
        /\ \A i \in (n + 2)..Len(s) : i \in 1..Len(s) /\ i # 1
        /\ \A i \in 2..(n + 1), j \in (n + 2)..Len(s) : i # j
    BY <1>0
  <1> HIDE DEF share, rest
  <1>6. Range(s) = {Head(s)} \cup Range(share) \cup Range(rest)
    BY <1>0, <1>1, <1>2, <1>3, <1>4, <1>5
  <1>7. ASSUME IsInjective(s)
        PROVE  /\ Head(s) \notin Range(share) \cup Range(rest)
               /\ Range(share) \cap Range(rest) = {}
    <2>1. \A i, j \in 1..Len(s) : s[i] = s[j] => i = j
      BY <1>7, RangeFacts
    <2>2. \A i \in 2..(n + 1), j \in (n + 2)..Len(s) : s[i] # s[j] /\ s[i] # s[1] /\ s[j] # s[1]
      BY <1>0, <1>5, <2>1
    <2>3. \A i \in 2..(n + 1) : s[i] # s[1]
      BY <1>0, <1>5, <2>1
    <2>4. \A j \in (n + 2)..Len(s) : s[j] # s[1]
      BY <1>0, <1>5, <2>1
    <2>5. QED
      BY <1>1, <1>2, <1>3, <2>2, <2>3, <2>4
  <1>8. QED
    BY <1>1, <1>2, <1>3, <1>6, <1>7 DEF share, rest

\* A sequence without its element i: where its elements were, and where they are.
Skip(j, i) == IF j < i THEN j ELSE j + 1
Closed(k, i) == IF k < i THEN k ELSE k - 1
LEMMA RemoveAtFacts ==
    ASSUME NEW S, NEW s \in Seq(S), NEW i \in 1..Len(s), NEW t, t = RemoveAt(s, i)
    PROVE  /\ t \in Seq(S) /\ Len(t) = Len(s) - 1
           /\ \A j \in 1..Len(t) : t[j] = s[Skip(j, i)]
           /\ \A j \in 1..Len(t) : Skip(j, i) \in 1..Len(s) \ {i}
           /\ \A k \in 1..Len(s) \ {i} : Closed(k, i) \in 1..Len(t)
           /\ \A k \in 1..Len(s) \ {i} : t[Closed(k, i)] = s[k]
  <1> DEFINE front == SubSeq(s, 1, i - 1)
             back == SubSeq(s, i + 1, Len(s))
             m == i - 1
             n == Len(s) - i
  <1>0. Len(s) \in Nat /\ m \in Nat /\ n \in Nat /\ m + n = Len(s) - 1 /\ i = m + 1 /\ i \in Nat /\ i <= Len(s)
    BY LenProperties
  <1>1. /\ front \in Seq(S) /\ Len(front) = m
        /\ \A j \in 1..m : front[j] = s[j]
    <2>1. \A j \in 1..(i - 1) : j \in 1..Len(s) /\ s[j] \in S
      BY <1>0, ElementOfSeq
    <2>2. QED
      BY <1>0, <2>1, SubSeqProperties
  <1>2. /\ back \in Seq(S) /\ Len(back) = n
        /\ \A j \in 1..n : back[j] = s[(i + 1) + j - 1]
    <2>1. \A j \in (i + 1)..Len(s) : j \in 1..Len(s) /\ s[j] \in S
      BY <1>0, ElementOfSeq
    <2>2. i + 1 \in Int /\ Len(s) \in Int /\ Len(s) - (i + 1) + 1 = n
      BY <1>0
    <2>3. back \in Seq(S) /\ Len(back) = n
      <3>1. i + 1 \in Nat \ {0} /\ Len(s) <= Len(s)
        BY <1>0
      <3>2. back \in Seq(S) /\ Len(back) = IF i + 1 <= Len(s) THEN Len(s) - (i + 1) + 1 ELSE 0
        BY <1>0, <3>1, PieceFacts
      <3>3. CASE i + 1 <= Len(s)
        BY <2>2, <3>2, <3>3
      <3>4. CASE ~(i + 1 <= Len(s))
        <4>1. n = 0
          <5>1. \A a, b \in Nat : a <= b /\ ~(a + 1 <= b) => b - a = 0
            OBVIOUS
          <5>2. QED
            BY <1>0, <3>4, <5>1
        <4>2. QED
          BY <3>2, <3>4, <4>1
      <3>5. QED
        BY <3>3, <3>4
    <2>4. \A j \in 1..(Len(s) - (i + 1) + 1) : back[j] = s[(i + 1) + j - 1]
      BY <2>1, <2>2, SubSeqProperties DEF back
    <2>5. QED
      BY <2>2, <2>3, <2>4
  <1>3. t = front \o back
    BY DEF RemoveAt
  <1> HIDE DEF front, back, m, n
  <1>4. /\ t \in Seq(S) /\ Len(t) = m + n
        /\ \A j \in 1..(m + n) : t[j] = IF j <= m THEN front[j] ELSE back[j - m]
    <2>1. /\ front \o back \in Seq(S) /\ Len(front \o back) = Len(front) + Len(back)
          /\ \A j \in 1..(Len(front) + Len(back)) : (front \o back)[j] =
                IF j <= Len(front) THEN front[j] ELSE back[j - Len(front)]
      BY <1>1, <1>2, ConcatProperties
    <2>2. QED
      BY <1>1, <1>2, <1>3, <2>1
  <1>5. ASSUME NEW j \in 1..Len(t)
        PROVE  /\ t[j] = s[Skip(j, i)]
               /\ Skip(j, i) \in 1..Len(s) \ {i}
    <2>1. CASE j < i
      <3>1. j \in 1..m /\ j <= m /\ j \in 1..(m + n) /\ j \in 1..Len(s) \ {i}
        BY <1>0, <1>4, <2>1
      <3>2. QED
        BY <1>1, <1>4, <2>1, <3>1 DEF Skip
    <2>2. CASE ~(j < i)
      <3>1. /\ ~(j <= m) /\ j \in 1..(m + n) /\ j - m \in 1..n
            /\ (i + 1) + (j - m) - 1 = j + 1 /\ j + 1 \in 1..Len(s) \ {i}
        BY <1>0, <1>4, <2>2
      <3>2. QED
        BY <1>2, <1>4, <2>2, <3>1 DEF Skip
    <2>3. QED
      BY <2>1, <2>2
  <1>6. ASSUME NEW k \in 1..Len(s) \ {i}
        PROVE  /\ Closed(k, i) \in 1..Len(t)
               /\ t[Closed(k, i)] = s[k]
    <2>1. CASE k < i
      <3>1. k \in 1..Len(t)
        BY <1>0, <1>4, <2>1
      <3>2. QED
        BY <1>5, <2>1, <3>1 DEF Skip, Closed
    <2>2. CASE ~(k < i)
      <3>1. k - 1 \in 1..Len(t) /\ ~(k - 1 < i) /\ (k - 1) + 1 = k
        BY <1>0, <1>4, <2>2
      <3>2. t[k - 1] = s[(k - 1) + 1]
        BY <1>5, <3>1 DEF Skip
      <3>3. QED
        BY <2>2, <3>1, <3>2 DEF Closed
    <2>3. QED
      BY <2>1, <2>2
  <1>7. QED
    BY <1>0, <1>4, <1>5, <1>6

\* A counter goes up and down with its set.
LEMMA OneMore ==
    ASSUME NEW S, NEW T, IsFiniteSet(S), NEW x, x \notin S, T = S \cup {x}
    PROVE  Cardinality(T) = Cardinality(S) + 1
  BY FS_AddElement

LEMMA OneLess ==
    ASSUME NEW S, NEW T, IsFiniteSet(S), NEW x \in S, T = S \ {x}
    PROVE  IsFiniteSet(T) /\ Cardinality(T) = Cardinality(S) - 1
  BY FS_RemoveElement

\* A set of numbers has a least one.
LEMMA LeastElement ==
    ASSUME NEW T \in SUBSET Nat, T # {}
    PROVE  \E m \in T : \A k \in T : m <= k
  <1>1. \E R : IsWellFoundedOn(R, Nat) /\ \A x, y \in Nat : x < y => <<x, y>> \in R
    <2> DEFINE R == OpToRel(<, Nat)
    <2>1. IsWellFoundedOn(R, Nat)
      BY NatLessThanWellFounded
    <2>2. R = {ss \in Nat \X Nat : ss[1] < ss[2]}
      BY DEF OpToRel
    <2>3. \A x, y \in Nat : x < y => <<x, y>> \in R
      BY <2>2
    <2> HIDE DEF R
    <2>4. QED
      BY <2>1, <2>3
  <1>2. PICK R : IsWellFoundedOn(R, Nat) /\ \A x, y \in Nat : x < y => <<x, y>> \in R
    BY <1>1
  <1>3. PICK m \in T : \A k \in T : ~(<<k, m>> \in R)
    <2>1. IsWellFoundedOn(R, Nat)
      BY <1>2
    <2>2. T \subseteq Nat
      OBVIOUS
    <2>3. QED
      BY <2>1, <2>2, WFMin, Zenon
  <1>4. \A k \in T : ~(k < m)
    BY <1>2, <1>3
  <1>5. \A k \in T : m <= k
    BY <1>4
  <1>6. QED
    BY <1>5

\* Two functions that begin alike, and go on alike, are alike.
LEMMA SameFunction ==
    ASSUME NEW m \in Nat, NEW n \in Nat, NEW f, NEW g, f[m] = g[m],
           \A i \in (m+1)..n : f[i-1] = g[i-1] => f[i] = g[i]
    PROVE  \A i \in m..n : f[i] = g[i]
  <1> DEFINE T == {i \in m..n : f[i] # g[i]}
  <1>1. T \in SUBSET Nat
    OBVIOUS
  <1>2. ASSUME T # {} PROVE FALSE
    <2>1. PICK k \in T : \A i \in T : k <= i
      <3> HIDE DEF T
      <3>1. QED
        BY <1>1, <1>2, LeastElement
    <2>2. k \in m..n /\ f[k] # g[k]
      OBVIOUS
    <2>3. k # m
      BY <2>2
    <2>4. k \in (m+1)..n /\ k - 1 \in m..n
      BY <2>2, <2>3
    <2>5. k - 1 \notin T
      <3>1. ~(k <= k - 1)
        BY <2>2
      <3>2. QED
        BY <2>1, <3>1
    <2>6. f[k-1] = g[k-1]
      BY <2>4, <2>5
    <2>7. QED
      BY <2>2, <2>4, <2>6
  <1>3. QED
    BY <1>2

=============================================================================
