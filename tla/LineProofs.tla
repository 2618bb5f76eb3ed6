------------------------------ MODULE LineProofs ------------------------------
(***************************************************************************)
(* Lemmas that the proofs about several components share: on the least of  *)
(* some numbers, on lines without repetitions, and on what Ordered and     *)
(* Picked return.                                                          *)
(***************************************************************************)
EXTENDS Ordering, SequencesExt, FiniteSetTheorems, SequenceTheorems,
        WellFoundedInduction, TLAPS

-----------------------------------------------------------------------------
(***************************************************************************)
(* Numbers and lines.                                                      *)
(***************************************************************************)

\* A set of naturals that is not empty has a least element.
LEMMA LeastExists ==
  ASSUME NEW S \in SUBSET Nat, S # {}
  PROVE  \E x \in S : \A y \in S : x <= y
<1>1. PICK x \in S : \A y \in S : ~(<<y, x>> \in OpToRel(<, Nat))
  BY NatLessThanWellFounded, WFMin
<1>2. ASSUME NEW y \in S  PROVE  ~(y < x)
  <2>1. <<y, x>> \in Nat \X Nat /\ <<y, x>>[1] = y /\ <<y, x>>[2] = x
    OBVIOUS
  <2>. QED  BY <1>1, <2>1, Zenon DEF OpToRel
<1>. QED  BY <1>2

\* A bounded set of naturals that is not empty has a greatest one.
LEMMA GreatestExists ==
  ASSUME NEW n \in Nat, NEW S \in SUBSET (0 .. n), S # {}
  PROVE  \E x \in S : \A y \in S : x >= y
<1>. DEFINE T == {n - x : x \in S}
<1>1. \A x \in S : n - x \in Nat /\ x \in Nat
  OBVIOUS
<1>2. T \in SUBSET Nat /\ T # {}
  BY <1>1
<1>3. PICK t \in T : \A y \in T : t <= y
  BY <1>2, LeastExists
<1>4. PICK x \in S : t = n - x
  BY <1>3
<1>5. ASSUME NEW y \in S  PROVE  n - x <= n - y
  BY <1>3, <1>4
<1>6. \A y \in S : x >= y
  BY <1>1, <1>5
<1>. QED  BY <1>6

Injective(s) == \A i, j \in DOMAIN s : s[i] = s[j] => i = j

\* Who stands in a line: the values of a sequence.
Members(s) == {s[i] : i \in DOMAIN s}

\* A sequence without repetitions is as long as its values are many.
LEMMA LengthOfInjective ==
  ASSUME NEW S, NEW s \in Seq(S), Injective(s)
  PROVE  /\ IsFiniteSet(Members(s))
         /\ Cardinality(Members(s)) = Len(s)
<1>1. s \in [1 .. Len(s) -> S]
  BY LenProperties
<1>. DEFINE D == 1 .. Len(s)
<1>2. IsFiniteSet(D) /\ Cardinality(D) = Len(s)
  <2>1. Len(s) \in Nat
    OBVIOUS
  <2>2. IsFiniteSet(D) /\ Cardinality(D) = IF 1 > Len(s) THEN 0 ELSE Len(s) - 1 + 1
    BY <2>1, FS_Interval
  <2>. QED  BY <2>1, <2>2
<1>3. s \in Bijection(D, Members(s))
  BY <1>1 DEF Bijection, Injection, Surjection, Injective, Members, IsInjective
<1>4. ExistsBijection(D, Members(s))
  BY <1>3 DEF ExistsBijection
<1>. QED  BY <1>2, <1>4, FS_Bijection

\* Joining and leaving a line without repetitions.
LEMMA JoinLine ==
  ASSUME NEW S, NEW s \in Seq(S), Injective(s), NEW e \in S, e \notin Members(s)
  PROVE  /\ Append(s, e) \in Seq(S)
         /\ Injective(Append(s, e))
         /\ Members(Append(s, e)) = Members(s) \cup {e}
  BY DEF Injective, Members

\* Taking the first of a line leaves the others, in order.
LEMMA LeaveFront ==
  ASSUME NEW S, NEW s \in Seq(S), Injective(s), s # <<>>
  PROVE  /\ Tail(s) \in Seq(S)
         /\ Injective(Tail(s))
         /\ Head(s) \in Members(s)
         /\ Members(Tail(s)) = Members(s) \ {Head(s)}
<1>1. /\ Tail(s) \in Seq(S) /\ Len(Tail(s)) = Len(s) - 1
      /\ Head(s) = s[1] /\ 1 \in DOMAIN s
      /\ \A k \in 1 .. Len(s) - 1 : Tail(s)[k] = s[k + 1]
  OBVIOUS
<1>. DEFINE t == Tail(s)
<1>. HIDE DEF t
<1>2. /\ t \in Seq(S) /\ DOMAIN t = 1 .. Len(s) - 1 /\ DOMAIN s = 1 .. Len(s)
      /\ Len(s) \in Nat /\ \A k \in 1 .. Len(s) - 1 : t[k] = s[k + 1]
  BY <1>1 DEF t
<1>3. ASSUME NEW j \in DOMAIN t, NEW k \in DOMAIN s, t[j] = s[k]  PROVE  k = j + 1
  <2>1. j + 1 \in DOMAIN s /\ s[j + 1] = s[k]
    BY <1>2, <1>3
  <2>. QED  BY <2>1 DEF Injective
<1>5. Injective(t)
  <2>1. ASSUME NEW j \in DOMAIN t, NEW k \in DOMAIN t, t[j] = t[k]  PROVE  j = k
    <3>1. k + 1 \in DOMAIN s /\ t[k] = s[k + 1]
      BY <1>2
    <3>. QED  BY <1>2, <1>3, <2>1, <3>1
  <2>. QED  BY <2>1 DEF Injective
<1>4. Members(t) = Members(s) \ {s[1]}
  <2>1. ASSUME NEW k \in DOMAIN t  PROVE  t[k] \in Members(s) \ {s[1]}
    <3>1. k + 1 \in DOMAIN s /\ t[k] = s[k + 1]
      BY <1>2
    <3>2. t[k] # s[1]
      BY <1>1, <1>2, <1>3
    <3>. QED  BY <3>1, <3>2 DEF Members
  <2>2. ASSUME NEW k \in DOMAIN s, k # 1  PROVE  s[k] \in Members(t)
    <3>1. k - 1 \in DOMAIN t /\ t[k - 1] = s[k]
      BY <1>2, <2>2
    <3>. QED  BY <3>1 DEF Members
  <2>. QED  BY <2>1, <2>2 DEF Members
<1>. QED  BY <1>1, <1>4, <1>5 DEF t, Members

\* Leaving a line from any place leaves the others, in order.
LEMMA LeaveLine ==
  ASSUME NEW S, NEW s \in Seq(S), Injective(s), NEW i \in DOMAIN s
  PROVE  /\ RemoveAt(s, i) \in Seq(S)
         /\ Injective(RemoveAt(s, i))
         /\ Members(RemoveAt(s, i)) = Members(s) \ {s[i]}
<1>. DEFINE t == [k \in 1 .. Len(s) - 1 |-> IF k < i THEN s[k] ELSE s[k + 1]]
<1>1. i \in 1 .. Len(s) /\ Len(s) \in Nat /\ \A k \in 1 .. Len(s) : s[k] \in S
  BY LenProperties, ElementOfSeq
<1>. DEFINE a == SubSeq(s, 1, i - 1)
            b == SubSeq(s, i + 1, Len(s))
<1>2. /\ a \in Seq(S) /\ Len(a) = i - 1
      /\ \A k \in 1 .. i - 1 : a[k] = s[k]
  BY <1>1, SubSeqProperties
<1>3. /\ b \in Seq(S) /\ Len(b) = Len(s) - i
      /\ \A k \in 1 .. Len(s) - i : b[k] = s[i + k]
  BY <1>1, SubSeqProperties
<1>4. RemoveAt(s, i) = a \o b
  BY DEF RemoveAt
<1>. HIDE DEF a, b
<1>5. /\ RemoveAt(s, i) \in Seq(S) /\ Len(RemoveAt(s, i)) = Len(s) - 1
      /\ \A k \in 1 .. Len(s) - 1 : RemoveAt(s, i)[k] = t[k]
  <2>1. /\ a \o b \in Seq(S) /\ Len(a \o b) = Len(a) + Len(b)
        /\ \A k \in 1 .. Len(a) + Len(b) :
             (a \o b)[k] = IF k <= Len(a) THEN a[k] ELSE b[k - Len(a)]
    BY <1>2, <1>3, ConcatProperties
  <2>2. Len(a) + Len(b) = Len(s) - 1
    BY <1>1, <1>2, <1>3
  <2>3. ASSUME NEW k \in 1 .. Len(s) - 1 PROVE (a \o b)[k] = t[k]
    <3>1. CASE k < i
      BY <1>1, <1>2, <2>1, <2>2, <3>1
    <3>2. CASE ~(k < i)
      <4>1. k - (i - 1) \in 1 .. Len(s) - i /\ i + (k - (i - 1)) = k + 1
        BY <1>1, <3>2
      <4>2. b[k - (i - 1)] = s[i + (k - (i - 1))]
        BY <1>3, <4>1
      <4>3. (a \o b)[k] = b[k - (i - 1)]
        <5>1. Len(a) = i - 1 /\ ~(k <= Len(a)) /\ k \in 1 .. Len(a) + Len(b)
          BY <1>1, <1>2, <2>2, <3>2
        <5>2. (a \o b)[k] = b[k - Len(a)]
          BY ONLY <2>1, <5>1
        <5> QED BY ONLY <5>1, <5>2
      <4>4. t[k] = s[k + 1]
        BY <3>2
      <4>5. b[k - (i - 1)] = s[k + 1]
        BY ONLY <4>1, <4>2
      <4>. HIDE DEF t
      <4> QED BY ONLY <4>3, <4>4, <4>5
    <3> QED BY <3>1, <3>2
  <2> QED BY <1>4, <2>1, <2>2, <2>3
<1>6. DOMAIN RemoveAt(s, i) = 1 .. Len(s) - 1 /\ DOMAIN s = 1 .. Len(s)
  BY <1>5
<1>. DEFINE r == RemoveAt(s, i)
<1>. HIDE DEF r
<1>7. DOMAIN r = 1 .. Len(s) - 1 /\ \A k \in DOMAIN r : r[k] = IF k < i THEN s[k] ELSE s[k + 1]
  BY <1>5, <1>6 DEF r
<1>8. Injective(r)
  BY <1>1, <1>6, <1>7 DEF Injective
<1>9. Members(r) = Members(s) \ {s[i]}
  <2>1. ASSUME NEW k \in DOMAIN r  PROVE  r[k] \in Members(s) \ {s[i]}
    BY <1>1, <1>6, <1>7, <2>1 DEF Injective, Members
  <2>2. ASSUME NEW k \in DOMAIN s, k # i  PROVE  s[k] \in Members(r)
    <3>1. CASE k < i
      BY <1>1, <1>6, <1>7, <3>1 DEF Members
    <3>2. CASE k > i
      <4>1. k - 1 \in DOMAIN r /\ r[k - 1] = s[k]
        BY <1>1, <1>6, <1>7, <3>2
      <4>. QED  BY <4>1 DEF Members
    <3>. QED  BY <1>1, <1>6, <2>2, <3>1, <3>2
  <2>. QED  BY <2>1, <2>2 DEF Members
<1>. QED  BY <1>5, <1>8, <1>9 DEF r

\* The members of a line are its first and those that stand behind it.
LEMMA FrontTaken ==
  ASSUME NEW S, NEW s \in Seq(S), s # <<>>
  PROVE  /\ Head(s) \in Members(s)
         /\ Members(Tail(s)) \subseteq Members(s)
         /\ Members(s) \subseteq Members(Tail(s)) \cup {Head(s)}
<1>1. /\ Tail(s) \in Seq(S) /\ Len(Tail(s)) = Len(s) - 1 /\ Len(s) \in Nat
      /\ Head(s) = s[1] /\ 1 \in DOMAIN s /\ DOMAIN s = 1 .. Len(s)
      /\ \A k \in 1 .. Len(s) - 1 : Tail(s)[k] = s[k + 1]
  OBVIOUS
<1>. DEFINE t == Tail(s)
<1>. HIDE DEF t
<1>2. DOMAIN t = 1 .. Len(s) - 1 /\ \A k \in 1 .. Len(s) - 1 : t[k] = s[k + 1]
  BY <1>1 DEF t
<1>3. ASSUME NEW k \in DOMAIN t  PROVE  t[k] \in Members(s)
  <2>1. k + 1 \in DOMAIN s /\ t[k] = s[k + 1]
    BY <1>1, <1>2
  <2>. QED  BY <2>1 DEF Members
<1>4. ASSUME NEW k \in DOMAIN s, k # 1  PROVE  s[k] \in Members(t)
  <2>1. k - 1 \in DOMAIN t /\ t[k - 1] = s[k]
    BY <1>1, <1>2, <1>4
  <2>. QED  BY <2>1 DEF Members
<1>. QED  BY <1>1, <1>3, <1>4 DEF t, Members

-----------------------------------------------------------------------------
(***************************************************************************)
(* What Ordered and Picked return.                                         *)
(***************************************************************************)

\* before says of every element of a finite set which ones are before it, in a
\* strict total order.
OrderOn(S, before) ==
  /\ IsFiniteSet(S)
  /\ before \in [S -> SUBSET S]
  /\ \A x \in S : x \notin before[x]
  /\ \A x, y \in S : y \in before[x] => before[y] \subseteq before[x]
  /\ \A x, y \in S : x # y => x \in before[y] \/ y \in before[x]

\* The sequence holds every element once, each after those before it.
LEMMA OrderedLine ==
  ASSUME NEW S, NEW before, OrderOn(S, before)
  PROVE  /\ Cardinality(S) \in Nat
         /\ Ordered(before) \in [1 .. Cardinality(S) -> S]
         /\ \A x \in S : \E n \in 1 .. Cardinality(S) : Ordered(before)[n] = x
         /\ \A m, n \in 1 .. Cardinality(S) :
              m < n <=> Ordered(before)[m] \in before[Ordered(before)[n]]
         /\ \A n \in 1 .. Cardinality(S) : Cardinality(before[Ordered(before)[n]]) = n - 1
<1>. DEFINE size == Cardinality(S)
            Rank(x) == Cardinality(before[x])
            ranks == [x \in S |-> Rank(x)]
            line == Ordered(before)
<1>1. /\ size \in Nat /\ IsFiniteSet(S) /\ DOMAIN before = S
      /\ \A x \in S : before[x] \in SUBSET S
  BY FS_CardinalityType DEF OrderOn
<1>2. ASSUME NEW x \in S
      PROVE  /\ IsFiniteSet(before[x]) /\ Rank(x) \in 0 .. size - 1
             /\ \A y \in before[x] : Rank(y) < Rank(x)
  <2>1. ASSUME NEW T \in SUBSET S, NEW U \in SUBSET T, NEW y \in T \ U
        PROVE  /\ IsFiniteSet(T) /\ IsFiniteSet(U)
               /\ Cardinality(T) \in Nat /\ Cardinality(U) \in Nat
               /\ Cardinality(U) < Cardinality(T)
    <3>1. IsFiniteSet(T) /\ Cardinality(T) \in Nat
      BY <1>1, FS_Subset, FS_CardinalityType
    <3>2. IsFiniteSet(U) /\ Cardinality(U) \in Nat
      BY <3>1, FS_Subset, FS_CardinalityType
    <3>3. Cardinality(U) <= Cardinality(T) /\ (Cardinality(T) = Cardinality(U) => T = U)
      BY <3>1, FS_Subset
    <3>4. Cardinality(T) # Cardinality(U)
      BY <3>3
    <3>. QED  BY <3>1, <3>2, <3>3, <3>4
  <2>2. x \in S \ before[x]
    BY DEF OrderOn
  <2>3. IsFiniteSet(before[x]) /\ Rank(x) \in Nat /\ Rank(x) < size
    BY <1>1, <2>1, <2>2
  <2>4. ASSUME NEW y \in before[x]  PROVE  Rank(y) < Rank(x)
    <3>1. before[y] \in SUBSET before[x] /\ y \in before[x] \ before[y]
      BY <1>1 DEF OrderOn
    <3>. QED  BY <1>1, <2>1, <3>1
  <2>. HIDE DEF Rank, size
  <2>5. Rank(x) \in 0 .. size - 1
    BY <1>1, <2>3
  <2>. QED  BY <2>3, <2>4, <2>5
<1>. HIDE DEF Rank
<1>3. \A x, y \in S : Rank(x) = Rank(y) => x = y
  <2>1. \A x, y \in S : x # y => x \in before[y] \/ y \in before[x]
    BY DEF OrderOn
  <2>2. \A x \in S : Rank(x) \in Int
    BY <1>1, <1>2
  <2>. QED  BY <1>2, <2>1, <2>2
<1>4. ranks \in Injection(S, 0 .. size - 1)
  BY <1>2, <1>3 DEF Injection, IsInjective
<1>5. IsFiniteSet(0 .. size - 1) /\ Cardinality(0 .. size - 1) = size
  <2>1. 0 \in Int /\ size - 1 \in Int
    BY <1>1
  <2>2. /\ IsFiniteSet(0 .. size - 1)
        /\ Cardinality(0 .. size - 1) = IF 0 > size - 1 THEN 0 ELSE size - 1 - 0 + 1
    BY <2>1, FS_Interval, Zenon
  <2>. QED  BY <1>1, <2>2
<1>6. ranks \in Surjection(S, 0 .. size - 1)
  BY <1>4, <1>5, FS_Injection
<1>7. \A n \in 1 .. size : \E x \in S : Rank(x) = n - 1
  <2>1. ASSUME NEW n \in 1 .. size  PROVE  \E x \in S : Rank(x) = n - 1
    <3>1. n - 1 \in 0 .. size - 1
      BY <1>1
    <3>. QED  BY <1>6, <3>1 DEF Surjection
  <2>. QED  BY <2>1
<1>8. line = [n \in 1 .. size |-> CHOOSE x \in S : Rank(x) = n - 1]
  BY <1>1 DEF Ordered, Rank
<1>9. \A n \in 1 .. size : line[n] \in S /\ Rank(line[n]) = n - 1
  <2>1. ASSUME NEW n \in 1 .. size  PROVE  line[n] \in S /\ Rank(line[n]) = n - 1
    <3>1. line[n] = CHOOSE x \in S : Rank(x) = n - 1
      BY <1>8
    <3>. QED  BY <1>7, <3>1
  <2>. QED  BY <2>1
<1>10. line \in [1 .. size -> S]
  BY <1>8, <1>9
<1>11. \A x \in S : \E n \in 1 .. size : line[n] = x
  <2>1. ASSUME NEW x \in S  PROVE  \E n \in 1 .. size : line[n] = x
    <3>1. \A r \in 0 .. size - 1 : \E n \in 1 .. size : n - 1 = r
      <4>1. ASSUME NEW r \in 0 .. size - 1  PROVE  r + 1 \in 1 .. size /\ r + 1 - 1 = r
        BY <1>1
      <4>. QED  BY <4>1
    <3>2. PICK n \in 1 .. size : n - 1 = Rank(x)
      BY <1>2, <3>1
    <3>3. line[n] = x
      BY <1>3, <1>9, <3>2
    <3>. QED  BY <3>3
  <2>. QED  BY <2>1
<1>12. \A m, n \in 1 .. size : m < n <=> line[m] \in before[line[n]]
  <2>1. ASSUME NEW m \in 1 .. size, NEW n \in 1 .. size
        PROVE  m < n <=> line[m] \in before[line[n]]
    <3>1. /\ line[m] \in S /\ line[n] \in S
          /\ Rank(line[m]) = m - 1 /\ Rank(line[n]) = n - 1
      BY <1>9
    <3>2. line[m] \in before[line[n]] => m - 1 < n - 1
      BY <1>2, <3>1
    <3>3. line[n] \in before[line[m]] => n - 1 < m - 1
      BY <1>2, <3>1
    <3>4. m < n => line[m] # line[n]
      BY <3>1
    <3>5. line[m] # line[n] => line[m] \in before[line[n]] \/ line[n] \in before[line[m]]
      BY <3>1 DEF OrderOn
    <3>. QED  BY <3>2, <3>3, <3>4, <3>5
  <2>. QED  BY <2>1
<1>13. \A n \in 1 .. size : Cardinality(before[line[n]]) = n - 1
  BY <1>9 DEF Rank
<1>. QED  BY <1>1, <1>10, <1>11, <1>12, <1>13

\* Numbers stand in a line by their size.
LEMMA NumbersLine ==
  ASSUME NEW P \in SUBSET Int, IsFiniteSet(P)
  PROVE  LET line == Ordered([i \in P |-> {j \in P : j < i}])
         IN  /\ Cardinality(P) \in Nat
             /\ line \in [1 .. Cardinality(P) -> P]
             /\ \A x \in P : \E n \in 1 .. Cardinality(P) : line[n] = x
             /\ \A m, n \in 1 .. Cardinality(P) : m < n <=> line[m] < line[n]
             /\ \A n \in 1 .. Cardinality(P) :
                  Cardinality({j \in P : j < line[n]}) = n - 1
<1>. DEFINE before == [i \in P |-> {j \in P : j < i}]
            line == Ordered(before)
<1>1. before \in [P -> SUBSET P]
  OBVIOUS
<1>2. \A i \in P : i \in Int /\ before[i] = {j \in P : j < i}
  OBVIOUS
<1>. HIDE DEF before
<1>3. \A i \in P : i \notin before[i]
  BY <1>2
<1>4. ASSUME NEW i \in P, NEW j \in P
      PROVE  /\ j \in before[i] => before[j] \subseteq before[i]
             /\ i # j => i \in before[j] \/ j \in before[i]
  <2>1. ASSUME j < i, NEW k \in P, k < j  PROVE  k < i
    BY <2>1
  <2>2. i < j \/ i = j \/ j < i
    OBVIOUS
  <2>. QED  BY <1>2, <2>1, <2>2
<1>5. OrderOn(P, before)
  BY <1>1, <1>3, <1>4 DEF OrderOn
<1>6. /\ Cardinality(P) \in Nat
      /\ line \in [1 .. Cardinality(P) -> P]
      /\ \A x \in P : \E n \in 1 .. Cardinality(P) : line[n] = x
      /\ \A m, n \in 1 .. Cardinality(P) : m < n <=> line[m] \in before[line[n]]
      /\ \A n \in 1 .. Cardinality(P) : Cardinality(before[line[n]]) = n - 1
  BY <1>5, OrderedLine
<1>. HIDE DEF line
<1>7. \A m, n \in 1 .. Cardinality(P) : m < n <=> line[m] < line[n]
  BY <1>2, <1>6
<1>8. \A n \in 1 .. Cardinality(P) : Cardinality({j \in P : j < line[n]}) = n - 1
  BY <1>2, <1>6
<1>. QED  BY <1>6, <1>7, <1>8 DEF line, before

\* Finitely many numbers have a greatest one.
LEMMA LargestExists ==
  ASSUME NEW P \in SUBSET Int, IsFiniteSet(P), P # {}
  PROVE  \E x \in P : \A y \in P : y <= x
<1>. DEFINE line == Ordered([i \in P |-> {j \in P : j < i}])
            size == Cardinality(P)
<1>1. /\ size \in Nat
      /\ line \in [1 .. size -> P]
      /\ \A x \in P : \E n \in 1 .. size : line[n] = x
      /\ \A m, n \in 1 .. size : m < n <=> line[m] < line[n]
  BY NumbersLine
<1>. HIDE DEF line, size
<1>2. PICK n \in 1 .. size : TRUE
  BY <1>1
<1>3. size \in 1 .. size /\ line[size] \in P
  BY <1>1, <1>2
<1>4. ASSUME NEW y \in P  PROVE  y <= line[size]
  <2>1. PICK m \in 1 .. size : line[m] = y
    BY <1>1
  <2>2. m = size \/ m < size
    BY <1>1
  <2>3. m = size \/ line[m] < line[size]
    BY <1>1, <1>3, <2>2
  <2>4. y \in Int /\ line[size] \in Int
    BY <1>3
  <2>. QED  BY <2>1, <2>3, <2>4
<1>. QED  BY <1>3, <1>4

\* P are positions of a sequence of elements of T.
PositionsIn(T, items, P) == items \in Seq(T) /\ P \in SUBSET DOMAIN items

\* The items at chosen positions stand in their order.
LEMMA PickedLine ==
  ASSUME NEW T, NEW items, NEW P, PositionsIn(T, items, P)
  PROVE  /\ Cardinality(P) \in Nat
         /\ Picked(items, P) \in Seq(T) /\ DOMAIN Picked(items, P) = 1 .. Cardinality(P)
         /\ \E order \in [1 .. Cardinality(P) -> P] :
              /\ \A m \in 1 .. Cardinality(P) : Picked(items, P)[m] = items[order[m]]
              /\ \A i \in P : \E m \in 1 .. Cardinality(P) : order[m] = i
              /\ \A l, m \in 1 .. Cardinality(P) : l < m <=> order[l] < order[m]
<1>. DEFINE order == Ordered([i \in P |-> {j \in P : j < i}])
<1>0. items \in Seq(T) /\ P \in SUBSET (1 .. Len(items))
  BY DEF PositionsIn
<1>1. IsFiniteSet(P) /\ P \in SUBSET Int
  <2>1. IsFiniteSet(1 .. Len(items))
    BY <1>0, FS_Interval
  <2>2. IsFiniteSet(P)
    BY <1>0, <2>1, FS_Subset
  <2>3. P \in SUBSET Int
    BY <1>0
  <2>. QED  BY <2>2, <2>3
<1>2. /\ Cardinality(P) \in Nat
      /\ order \in [1 .. Cardinality(P) -> P]
      /\ \A i \in P : \E m \in 1 .. Cardinality(P) : order[m] = i
      /\ \A l, m \in 1 .. Cardinality(P) : l < m <=> order[l] < order[m]
  BY <1>1, NumbersLine
<1>3. Picked(items, P) = [m \in DOMAIN order |-> items[order[m]]]
  BY DEF Picked
<1>. HIDE DEF order
<1>4. Picked(items, P) \in [1 .. Cardinality(P) -> T]
  <2>1. \A i \in P : items[i] \in T
    BY <1>0
  <2>. QED  BY <1>2, <1>3, <2>1
<1>5. /\ DOMAIN Picked(items, P) = 1 .. Cardinality(P)
      /\ \A m \in 1 .. Cardinality(P) : Picked(items, P)[m] = items[order[m]]
  BY <1>2, <1>3
<1>6. Picked(items, P) \in Seq(T)
  BY <1>2, <1>4
<1>. QED  BY <1>2, <1>5, <1>6

=============================================================================
