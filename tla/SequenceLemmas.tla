---------------------------- MODULE SequenceLemmas ----------------------------
(***************************************************************************)
(* Facts about numbers and sequences that the proofs share.                *)
(***************************************************************************)
EXTENDS Integers, SequencesExt, SequenceTheorems, WellFoundedInduction, TLAPS

LEMMA LeastExists ==
  ASSUME NEW S \in SUBSET Nat, S # {}
  PROVE  \E least \in S : \A n \in S : least <= n
  <1>1. PICK least \in S : \A n \in S : << n, least >> \notin OpToRel(<, Nat)
    BY NatLessThanWellFounded, WFMin, Zenon
  <1>2. ASSUME NEW n \in S, n < least
        PROVE  FALSE
    <2>1. << n, least >> \in OpToRel(<, Nat)
      BY <1>2 DEF OpToRel
    <2>2. QED
      BY <1>1, <2>1, Zenon
  <1>3. QED
    BY <1>2

LEMMA MinIsMember ==
  ASSUME NEW S \in SUBSET Nat, S # {}
  PROVE  Min(S) \in S /\ \A n \in S : Min(S) <= n
  BY LeastExists DEF Min

LEMMA MaxIsMember ==
  ASSUME NEW S \in SUBSET Nat, S # {}, NEW bound \in Nat, \A n \in S : n <= bound
  PROVE  Max(S) \in S /\ \A n \in S : n <= Max(S)
  <1> DEFINE Bounds == {b \in Nat : \A n \in S : n <= b}
  <1>1. PICK least \in Bounds : \A b \in Bounds : least <= b
    BY LeastExists
  <1>2. least \in Nat /\ \A n \in S : n \in Nat /\ n <= least
    BY <1>1
  <1>3. ASSUME least \notin S
        PROVE  FALSE
    <2>1. \A n \in S : n <= least - 1
      BY <1>2, <1>3
    <2>2. least - 1 \in Nat
      <3>1. PICK n \in S : n \in Nat /\ n <= least - 1
        BY <1>2, <2>1
      <3>2. QED
        BY <1>2, <3>1
    <2>3. QED
      BY <1>1, <1>2, <2>1, <2>2
  <1>4. \E m \in S : \A n \in S : m >= n
    BY <1>2, <1>3
  <1>5. Max(S) \in S /\ \A n \in S : Max(S) >= n
    BY <1>4 DEF Max
  <1>6. QED
    BY <1>2, <1>5

\* Induction, for a set of numbers.
LEMMA SetInduction ==
  ASSUME NEW S, 0 \in S, \A n \in Nat : n \in S => n + 1 \in S
  PROVE  Nat \subseteq S
  <1> SUFFICES ASSUME Nat \ S # {}
               PROVE  FALSE
    OBVIOUS
  <1>1. PICK least \in Nat \ S : \A n \in Nat \ S : least <= n
    BY LeastExists
  <1>2. least - 1 \in Nat /\ least - 1 \in S
    BY <1>1
  <1>3. QED
    BY <1>1, <1>2

-----------------------------------------------------------------------------
(* FlattenSeq, by the prefixes of its result *)

Nothing == << >>

Then(s, t) == s \o t

LEMMA NothingIsSeq ==
  ASSUME NEW S
  PROVE  /\ Nothing \in Seq(S) /\ Len(Nothing) = 0
         /\ \A s \in Seq(S) : Then(Nothing, s) = s /\ (Len(s) = 0 => s = Nothing)
  BY EmptySeq, ConcatEmptySeq DEF Nothing, Then

LEMMA ThenProperties ==
  ASSUME NEW S, NEW s \in Seq(S), NEW t \in Seq(S)
  PROVE  /\ Then(s, t) \in Seq(S) /\ Len(Then(s, t)) = Len(s) + Len(t)
         /\ \A i \in 1 .. Len(s) : Then(s, t)[i] = s[i]
         /\ \A i \in 1 .. Len(t) : Then(s, t)[Len(s) + i] = t[i]
  BY ConcatProperties DEF Then

\* pre[k] is the concatenation of the first k of seqs, up to n of them.
ArePrefixes(pre, seqs, n) ==
  pre[0] = Nothing /\ \A k \in 0 .. n - 1 : pre[k + 1] = Then(pre[k], seqs[k + 1])

LEMMA PrefixesExist ==
  ASSUME NEW S, NEW seqs \in Seq(Seq(S))
  PROVE  \E pre \in [0 .. Len(seqs) -> Seq(S)] : ArePrefixes(pre, seqs, Len(seqs))
  <1> DEFINE Exists == {n \in Nat : n <= Len(seqs) => \E pre \in [0 .. n -> Seq(S)] : ArePrefixes(pre, seqs, n)}
  <1>1. 0 \in Exists
    <2> DEFINE pre == [k \in 0 .. 0 |-> Nothing]
    <2>1. Nothing \in Seq(S)
      BY NothingIsSeq
    <2>2. pre \in [0 .. 0 -> Seq(S)] /\ ArePrefixes(pre, seqs, 0)
      BY <2>1 DEF ArePrefixes
    <2>3. QED
      BY <2>2
  <1>2. ASSUME NEW n \in Nat, n \in Exists
        PROVE  n + 1 \in Exists
    <2> SUFFICES ASSUME n + 1 <= Len(seqs)
                 PROVE  \E pre \in [0 .. n + 1 -> Seq(S)] : ArePrefixes(pre, seqs, n + 1)
      OBVIOUS
    <2>1. PICK old \in [0 .. n -> Seq(S)] : ArePrefixes(old, seqs, n)
      BY <1>2
    <2> DEFINE last == Then(old[n], seqs[n + 1])
               pre == [k \in 0 .. n + 1 |-> IF k = n + 1 THEN last ELSE old[k]]
    <2>2. last \in Seq(S)
      <3>1. old[n] \in Seq(S) /\ seqs[n + 1] \in Seq(S)
        BY ElementOfSeq
      <3>2. QED
        BY <3>1, ThenProperties
    <2>3. pre \in [0 .. n + 1 -> Seq(S)]
      <3> HIDE DEF last
      <3>1. QED
        BY <2>2
    <2>4. pre[n + 1] = last /\ \A k \in 0 .. n : pre[k] = old[k]
      <3> HIDE DEF last
      <3>1. QED
        OBVIOUS
    <2>5. old[0] = Nothing /\ \A k \in 0 .. n - 1 : old[k + 1] = Then(old[k], seqs[k + 1])
      BY <2>1 DEF ArePrefixes
    <2>6. ArePrefixes(pre, seqs, n + 1)
      <3> HIDE DEF pre
      <3>1. pre[0] = Nothing /\ pre[n + 1] = Then(pre[n], seqs[n + 1])
        BY <2>4, <2>5
      <3>2. \A k \in 0 .. n - 1 : pre[k + 1] = Then(pre[k], seqs[k + 1])
        BY <2>4, <2>5
      <3>3. QED
        BY <3>1, <3>2 DEF ArePrefixes
    <2>7. QED
      BY <2>3, <2>6
  <1>3. Nat \subseteq Exists
    <2> HIDE DEF Exists
    <2>1. QED
      BY <1>1, <1>2, SetInduction
  <1>4. QED
    BY <1>3

LEMMA PrefixesAreUnique ==
  ASSUME NEW seqs, NEW n \in Nat, NEW pre, NEW other, ArePrefixes(pre, seqs, n), ArePrefixes(other, seqs, n)
  PROVE  \A k \in 0 .. n : pre[k] = other[k]
  <1> DEFINE Same == {k \in Nat : k <= n => pre[k] = other[k]}
  <1>1. 0 \in Same
    BY DEF ArePrefixes
  <1>2. ASSUME NEW k \in Nat, k \in Same
        PROVE  k + 1 \in Same
    <2> SUFFICES ASSUME k + 1 <= n
                 PROVE  pre[k + 1] = other[k + 1]
      OBVIOUS
    <2>1. k \in 0 .. n - 1 /\ pre[k] = other[k]
      BY <1>2
    <2>2. QED
      BY <2>1 DEF ArePrefixes
  <1>3. Nat \subseteq Same
    <2> HIDE DEF Same
    <2>1. QED
      BY <1>1, <1>2, SetInduction
  <1>4. QED
    BY <1>3

\* FlattenSeq is the last prefix.
LEMMA FlattenIsLastPrefix ==
  ASSUME NEW S, NEW seqs \in Seq(Seq(S)), NEW pre, ArePrefixes(pre, seqs, Len(seqs))
  PROVE  FlattenSeq(seqs) = pre[Len(seqs)]
  <1> DEFINE n == Len(seqs)
             IsFlatten(f) == f = [i \in 1 .. n |-> IF i = 1 THEN seqs[i] ELSE Then(f[i - 1], seqs[i])]
             flatten == CHOOSE f : IsFlatten(f)
  <1>1. CASE n = 0
    <2>1. seqs = Nothing
      BY <1>1, NothingIsSeq
    <2>2. QED
      BY <1>1, <2>1 DEF FlattenSeq, ArePrefixes
  <1>2. CASE n # 0
    <2>1. FlattenSeq(seqs) = flatten[n]
      BY <1>2 DEF FlattenSeq, Then
    <2>2. PICK known \in [0 .. n -> Seq(S)] : ArePrefixes(known, seqs, n)
      BY PrefixesExist
    <2>3. IsFlatten([i \in 1 .. n |-> known[i]])
      <3>1. n \in Nat /\ n > 0 /\ seqs[1] \in Seq(S)
        BY <1>2, ElementOfSeq
      <3>2. known[1] = seqs[1]
        <4>1. known[0 + 1] = Then(Nothing, seqs[0 + 1])
          BY <2>2, <3>1 DEF ArePrefixes
        <4>2. QED
          BY <3>1, <4>1, NothingIsSeq
      <3>3. ASSUME NEW i \in 1 .. n, i # 1
            PROVE  known[i] = Then(known[i - 1], seqs[i])
        <4>1. i - 1 \in 0 .. n - 1 /\ (i - 1) + 1 = i
          OBVIOUS
        <4>2. QED
          BY <2>2, <4>1 DEF ArePrefixes
      <3>4. QED
        BY <3>2, <3>3
    <2>4. IsFlatten(flatten)
      <3> HIDE DEF IsFlatten
      <3>1. QED
        BY <2>3, Zenon
    <2> DEFINE other == [i \in 0 .. n |-> IF i = 0 THEN Nothing ELSE flatten[i]]
    <2>5. ArePrefixes(other, seqs, n)
      <3>1. \A i \in 1 .. n : flatten[i] = IF i = 1 THEN seqs[i] ELSE Then(flatten[i - 1], seqs[i])
        <4> HIDE DEF flatten
        <4>1. QED
          BY <2>4
      <3>2. Then(Nothing, seqs[1]) = seqs[1]
        BY <1>2, ElementOfSeq, NothingIsSeq
      <3> HIDE DEF flatten
      <3>3. other[0] = Nothing /\ \A i \in 1 .. n : other[i] = flatten[i]
        OBVIOUS
      <3> HIDE DEF other
      <3>4. ASSUME NEW k \in 0 .. n - 1
            PROVE  other[k + 1] = Then(other[k], seqs[k + 1])
        <4>1. CASE k = 0
          BY <1>2, <3>1, <3>2, <3>3, <4>1
        <4>2. CASE k # 0
          <5>1. k \in 1 .. n /\ k + 1 \in 1 .. n /\ (k + 1) - 1 = k /\ k + 1 # 1
            BY <4>2
          <5>2. QED
            BY <3>1, <3>3, <5>1
        <4>3. QED
          BY <4>1, <4>2
      <3>5. QED
        BY <3>3, <3>4 DEF ArePrefixes
    <2>6. n \in Nat /\ other[n] = flatten[n]
      <3> HIDE DEF flatten
      <3>1. QED
        BY <1>2
    <2>7. \A k \in 0 .. n : pre[k] = other[k]
      <3> HIDE DEF other, flatten
      <3>1. n \in Nat /\ ArePrefixes(pre, seqs, n)
        BY <2>6
      <3> HIDE DEF n
      <3>2. QED
        BY <2>5, <3>1, PrefixesAreUnique
    <2>8. QED
      <3> HIDE DEF other, flatten
      <3>1. QED
        BY <2>1, <2>6, <2>7
  <1>3. QED
    BY <1>1, <1>2

\* pre has all the prefixes of seqs, a sequence of sequences over S.
HasPrefixes(pre, seqs, S) ==
  /\ seqs \in Seq(Seq(S))
  /\ pre \in [0 .. Len(seqs) -> Seq(S)]
  /\ ArePrefixes(pre, seqs, Len(seqs))

\* t begins with s.
Begins(t, s) == Len(s) <= Len(t) /\ \A i \in 1 .. Len(s) : t[i] = s[i]

LEMMA NextPrefix ==
  ASSUME NEW S, NEW seqs, NEW pre, HasPrefixes(pre, seqs, S), NEW k \in 0 .. Len(seqs) - 1
  PROVE  /\ pre[k] \in Seq(S) /\ pre[k + 1] \in Seq(S) /\ seqs[k + 1] \in Seq(S)
         /\ pre[k + 1] = Then(pre[k], seqs[k + 1])
  <1>1. seqs \in Seq(Seq(S)) /\ Len(seqs) \in Nat /\ pre \in [0 .. Len(seqs) -> Seq(S)]
    BY DEF HasPrefixes
  <1>2. pre[k] \in Seq(S) /\ pre[k + 1] \in Seq(S)
    <2>1. k \in 0 .. Len(seqs) /\ k + 1 \in 0 .. Len(seqs)
      BY <1>1
    <2>2. \A j \in 0 .. Len(seqs) : pre[j] \in Seq(S)
      BY <1>1
    <2>3. QED
      BY <2>1, <2>2
  <1>3. seqs[k + 1] \in Seq(S)
    <2> DEFINE T == Seq(S)
    <2> HIDE DEF T
    <2>1. seqs \in Seq(T) /\ k + 1 \in 1 .. Len(seqs)
      BY <1>1 DEF T
    <2>2. seqs[k + 1] \in T
      BY <2>1, ElementOfSeq
    <2>3. QED
      BY <2>2 DEF T
  <1>4. pre[k + 1] = Then(pre[k], seqs[k + 1])
    BY DEF HasPrefixes, ArePrefixes
  <1>5. QED
    BY <1>2, <1>3, <1>4

\* Longer prefixes begin with the shorter ones.
LEMMA PrefixesExtend ==
  ASSUME NEW S, NEW seqs, NEW pre, HasPrefixes(pre, seqs, S),
         NEW k \in 0 .. Len(seqs), NEW m \in k .. Len(seqs)
  PROVE  Begins(pre[m], pre[k])
  <1> DEFINE Longer == {j \in Nat : j \in k .. Len(seqs) => Begins(pre[j], pre[k])}
  <1>1. Len(seqs) \in Nat /\ pre[k] \in Seq(S)
    BY DEF HasPrefixes
  <1>2. Begins(pre[k], pre[k])
    BY <1>1 DEF Begins
  <1>3. ASSUME NEW j \in Nat, j \in Longer
        PROVE  j + 1 \in Longer
    <2> SUFFICES ASSUME j \in k .. Len(seqs) - 1, Begins(pre[j], pre[k])
                 PROVE  Begins(pre[j + 1], pre[k])
      BY <1>1, <1>2, <1>3
    <2> DEFINE longer == pre[j + 1]
               old == pre[j]
               next == seqs[j + 1]
               first == pre[k]
    <2>1. j \in 0 .. Len(seqs) - 1
      OBVIOUS
    <2>2. old \in Seq(S) /\ longer \in Seq(S) /\ next \in Seq(S) /\ longer = Then(old, next)
      BY <2>1, NextPrefix
    <2>3. first \in Seq(S) /\ Begins(old, first)
      BY <1>1
    <2> HIDE DEF longer, old, next, first
    <2>4. Len(longer) = Len(old) + Len(next) /\ \A i \in 1 .. Len(old) : longer[i] = old[i]
      BY <2>2, ThenProperties
    <2>5. Len(first) \in Nat /\ Len(old) \in Nat /\ Len(next) \in Nat
      BY <2>2, <2>3
    <2>6. Begins(longer, first)
      BY <2>3, <2>4, <2>5 DEF Begins
    <2>7. QED
      BY <2>6 DEF longer, first
  <1>4. 0 \in Longer
    BY <1>2
  <1>5. Nat \subseteq Longer
    <2> HIDE DEF Longer
    <2>1. QED
      BY <1>3, <1>4, SetInduction
  <1>6. QED
    BY <1>1, <1>5

\* upto has the length of old and next, and in whole, next follows old.
Follows(whole, upto, old, next) ==
  /\ Len(old) \in Nat /\ Len(upto) = Len(old) + Len(next) /\ Len(upto) <= Len(whole)
  /\ \A i \in 1 .. Len(next) : whole[Len(old) + i] = next[i]

\* The elements of the sequence k + 1 follow the prefix k in the concatenation.
LEMMA FlattenHasSequence ==
  ASSUME NEW S, NEW seqs, NEW pre, HasPrefixes(pre, seqs, S), NEW k \in 0 .. Len(seqs) - 1
  PROVE  Follows(FlattenSeq(seqs), pre[k + 1], pre[k], seqs[k + 1])
  <1> DEFINE whole == FlattenSeq(seqs)
             old == pre[k]
             upto == pre[k + 1]
             next == seqs[k + 1]
  <1>1. whole = pre[Len(seqs)]
    BY FlattenIsLastPrefix DEF HasPrefixes
  <1>2. /\ Len(seqs) \in Nat /\ k \in 0 .. Len(seqs) - 1
        /\ k + 1 \in 0 .. Len(seqs) /\ Len(seqs) \in k + 1 .. Len(seqs)
    BY DEF HasPrefixes
  <1>3. old \in Seq(S) /\ next \in Seq(S)
    BY NextPrefix
  <1>4. upto = Then(old, next)
    BY NextPrefix
  <1>5. Begins(whole, upto)
    BY <1>1, <1>2, PrefixesExtend
  <1> HIDE DEF whole, old, upto, next
  <1>6. Len(Then(old, next)) = Len(old) + Len(next)
    BY <1>3, ThenProperties
  <1>7. \A i \in 1 .. Len(next) : Then(old, next)[Len(old) + i] = next[i]
    BY <1>3, ThenProperties
  <1>8. Len(upto) = Len(old) + Len(next) /\ \A i \in 1 .. Len(next) : upto[Len(old) + i] = next[i]
    BY <1>4, <1>6, <1>7, Zenon
  <1>9. Len(old) \in Nat /\ Len(next) \in Nat
    BY <1>3
  <1>10. Len(upto) <= Len(whole) /\ \A i \in 1 .. Len(next) : whole[Len(old) + i] = next[i]
    BY <1>5, <1>8, <1>9 DEF Begins
  <1>11. Follows(whole, upto, old, next)
    BY <1>8, <1>9, <1>10 DEF Follows
  <1>12. QED
    BY <1>11 DEF whole, old, upto, next
-----------------------------------------------------------------------------
(* Slices *)

LEMMA Slice ==
  ASSUME NEW S, NEW s \in Seq(S), NEW i \in 1 .. Len(s) + 1, NEW j \in i - 1 .. Len(s)
  PROVE  /\ SubSeq(s, i, j) \in Seq(S)
         /\ Len(SubSeq(s, i, j)) = j - i + 1
         /\ \A k \in 1 .. j - i + 1 : SubSeq(s, i, j)[k] = s[i + k - 1]
  <1>1. \A k \in i .. j : s[k] \in S
    BY ElementOfSeq
  <1>2. /\ SubSeq(s, i, j) \in Seq(S)
        /\ Len(SubSeq(s, i, j)) = IF i <= j THEN j - i + 1 ELSE 0
        /\ \A k \in 1 .. j - i + 1 : SubSeq(s, i, j)[k] = s[i + k - 1]
    BY <1>1, SubSeqProperties
  <1>3. QED
    BY <1>2

\* Two slices of s, the second of which begins where the first one ends.
LEMMA SlicesJoin ==
  ASSUME NEW S, NEW s \in Seq(S), NEW i \in Nat, NEW j \in i .. Len(s), NEW k \in j .. Len(s)
  PROVE  Then(SubSeq(s, i + 1, j), SubSeq(s, j + 1, k)) = SubSeq(s, i + 1, k)
  <1> DEFINE first  == SubSeq(s, i + 1, j)
             second == SubSeq(s, j + 1, k)
             whole  == SubSeq(s, i + 1, k)
             joined == Then(first, second)
  <1>1. /\ first \in Seq(S) /\ Len(first) = j - i
        /\ \A n \in 1 .. j - i : first[n] = s[i + n]
    <2>1. i + 1 \in 1 .. Len(s) + 1 /\ j \in (i + 1) - 1 .. Len(s)
      OBVIOUS
    <2>2. QED
      BY <2>1, Slice
  <1>2. /\ second \in Seq(S) /\ Len(second) = k - j
        /\ \A n \in 1 .. k - j : second[n] = s[j + n]
    <2>1. j + 1 \in 1 .. Len(s) + 1 /\ k \in (j + 1) - 1 .. Len(s)
      OBVIOUS
    <2>2. QED
      BY <2>1, Slice
  <1>3. /\ whole \in Seq(S) /\ Len(whole) = k - i
        /\ \A n \in 1 .. k - i : whole[n] = s[i + n]
    <2>1. i + 1 \in 1 .. Len(s) + 1 /\ k \in (i + 1) - 1 .. Len(s)
      OBVIOUS
    <2>2. QED
      BY <2>1, Slice
  <1> HIDE DEF first, second, whole
  <1>4. first \in Seq(S) /\ second \in Seq(S)
    BY <1>1, <1>2
  <1>5. /\ joined \in Seq(S) /\ Len(joined) = Len(first) + Len(second)
        /\ \A n \in 1 .. Len(first) : joined[n] = first[n]
        /\ \A n \in 1 .. Len(second) : joined[Len(first) + n] = second[n]
    <2>1. joined \in Seq(S) /\ Len(joined) = Len(first) + Len(second)
      BY <1>4, ThenProperties
    <2>2. \A n \in 1 .. Len(first) : joined[n] = first[n]
      BY <1>4, ThenProperties
    <2>3. \A n \in 1 .. Len(second) : joined[Len(first) + n] = second[n]
      BY <1>4, ThenProperties
    <2>4. QED
      BY <2>1, <2>2, <2>3
  <1> HIDE DEF joined
  <1>6. Len(joined) = k - i
    BY <1>1, <1>2, <1>5
  <1>7. ASSUME NEW n \in 1 .. k - i
        PROVE  joined[n] = whole[n]
    <2>1. CASE n <= j - i
      BY <1>1, <1>3, <1>5, <2>1
    <2>2. CASE n > j - i
      <3> DEFINE m == n - (j - i)
      <3>1. m \in 1 .. k - j /\ n = j - i + m /\ j + m = i + n
        BY <2>2
      <3> HIDE DEF m
      <3>2. joined[n] = second[m] /\ second[m] = s[j + m]
        BY <1>1, <1>2, <1>5, <3>1
      <3>3. QED
        BY <1>3, <3>1, <3>2
    <2>3. QED
      BY <2>1, <2>2
  <1>8. joined = whole
    BY <1>3, <1>5, <1>6, <1>7, SeqEqual
  <1>9. QED
    BY <1>8 DEF joined, first, second, whole

LEMMA ThenAssociative ==
  ASSUME NEW S, NEW s \in Seq(S), NEW t \in Seq(S), NEW u \in Seq(S)
  PROVE  Then(Then(s, t), u) = Then(s, Then(t, u))
  BY ConcatAssociative DEF Then
=============================================================================
