------------------------------ MODULE DataFacts ------------------------------
(***************************************************************************)
(* Facts about data that the proofs share: sequences of whatever they      *)
(* hold, induction over numbers, iterated steps, sums over finite sets.    *)
(***************************************************************************)
EXTENDS Sequences, Integers, SequenceTheorems, FiniteSetTheorems, NaturalsInduction,
        WellFoundedInduction, TLAPS

IsSequence(s) == s \in Seq({s[i] : i \in DOMAIN s})

\* A sequence has its indices, and appending keeps what is there.
LEMMA AppendKeeps ==
  ASSUME NEW s, IsSequence(s), NEW e
  PROVE  /\ IsSequence(Append(s, e))
         /\ DOMAIN s \subseteq DOMAIN Append(s, e)
         /\ \A i \in DOMAIN s : Append(s, e)[i] = s[i]
         /\ \A i \in DOMAIN Append(s, e) \ DOMAIN s : Append(s, e)[i] = e
<1> DEFINE R == {s[i] : i \in DOMAIN s}
           a == Append(s, e)
<1>1. s \in Seq(R) BY DEF IsSequence
<1>2. s \in Seq(R \cup {e}) BY <1>1, SeqMonotonic
<1>3. /\ a \in Seq(R \cup {e})
      /\ Len(a) = Len(s) + 1
      /\ \A i \in 1..Len(s) : a[i] = s[i]
      /\ a[Len(s) + 1] = e
  BY <1>2, AppendProperties
<1>4. DOMAIN s = 1..Len(s) /\ DOMAIN a = 1..Len(a) /\ Len(s) \in Nat /\ Len(a) \in Nat
  BY <1>1, <1>3, LenProperties
<1>5. a \in Seq({a[i] : i \in DOMAIN a})
  <2>1. a \in [1..Len(a) -> {a[i] : i \in DOMAIN a}] BY <1>3, <1>4, LenProperties
  <2> QED BY <2>1, <1>4, SeqDef
<1> HIDE DEF a
<1>6. DOMAIN s \subseteq DOMAIN a BY <1>3, <1>4
<1>7. \A i \in DOMAIN a \ DOMAIN s : i = Len(s) + 1 BY <1>3, <1>4
<1> QED BY <1>3, <1>4, <1>5, <1>6, <1>7 DEF a, IsSequence

\* Replacing one element of a sequence gives a sequence.
LEMMA ReplaceKeeps ==
  ASSUME NEW s, IsSequence(s), NEW i, NEW e
  PROVE  IsSequence([s EXCEPT ![i] = e])
<1> DEFINE t == [s EXCEPT ![i] = e]
<1>1. s \in Seq({s[k] : k \in DOMAIN s}) BY DEF IsSequence
<1>2. DOMAIN s = 1..Len(s) /\ Len(s) \in Nat BY <1>1, LenProperties
<1>3. DOMAIN t = 1..Len(s) BY <1>2
<1>4. t = [k \in 1..Len(s) |-> t[k]] BY <1>3
<1> HIDE DEF t
<1>5. t \in [1..Len(s) -> {t[m] : m \in DOMAIN t}] BY <1>3, <1>4
<1>6. t \in Seq({t[m] : m \in DOMAIN t}) BY <1>2, <1>5, SeqDef
<1> QED BY <1>6 DEF t, IsSequence

\* The indices of a sequence are positive.
LEMMA IndexIsPositive ==
  ASSUME NEW s, IsSequence(s)
  PROVE  0 \notin DOMAIN s /\ Len(s) + 1 \notin DOMAIN s /\ \A e : Len(s) + 1 \in DOMAIN Append(s, e)
<1> DEFINE R == {s[i] : i \in DOMAIN s}
<1>1. s \in Seq(R) BY DEF IsSequence
<1>2. DOMAIN s = 1..Len(s) /\ Len(s) \in Nat BY <1>1, LenProperties
<1>3. ASSUME NEW e PROVE Len(s) + 1 \in DOMAIN Append(s, e)
  <2>1. s \in Seq(R \cup {e}) BY <1>1, SeqMonotonic
  <2>2. Append(s, e) \in Seq(R \cup {e}) /\ Len(Append(s, e)) = Len(s) + 1
    BY <2>1, AppendProperties
  <2> QED BY <1>2, <2>2, LenProperties
<1> QED BY <1>2, <1>3

\* Appending makes a sequence one longer.
LEMMA AppendLen ==
  ASSUME NEW s, IsSequence(s), NEW e
  PROVE  Len(Append(s, e)) = Len(s) + 1
<1> DEFINE R == {s[i] : i \in DOMAIN s}
<1>1. s \in Seq(R \cup {e}) BY SeqMonotonic DEF IsSequence
<1> QED BY <1>1, AppendProperties

-----------------------------------------------------------------------------
(* Induction over numbers, and what is shown by it.                        *)

Less == {xy \in Nat \X Nat : xy[1] < xy[2]}

\* A set of numbers has a smallest one.
LEMMA SmallestNumber ==
  ASSUME NEW T \in SUBSET Nat, T # {}
  PROVE  \E n \in T : \A m \in T : ~(m < n)
<1>1. OpToRel(<, Nat) = Less BY DEF OpToRel, Less
<1>2. IsWellFoundedOn(Less, Nat) BY <1>1, NatLessThanWellFounded
<1>3. \E n \in T : \A m \in T : <<m, n>> \notin Less BY <1>2, WFMin, Zenon
<1> QED BY <1>3 DEF Less

\* A set with 0 and every successor has all numbers.
LEMMA Induction ==
  ASSUME NEW T, 0 \in T, \A n \in Nat : n \in T => n + 1 \in T
  PROVE  Nat \subseteq T
<1> SUFFICES ASSUME Nat \ T # {} PROVE FALSE OBVIOUS
<1>1. PICK n \in Nat \ T : \A m \in Nat \ T : ~(m < n) BY SmallestNumber
<1>2. n # 0 /\ n - 1 \in Nat BY <1>1
<1>3. n - 1 \in T BY <1>1, <1>2
<1> QED BY <1>1, <1>2, <1>3

\* A step keeps what it starts from in S.
LEMMA StepsStay ==
  ASSUME NEW S, NEW n \in Nat, NEW f, f[0] \in S,
         \A k \in 1..n : f[k - 1] \in S => f[k] \in S
  PROVE  \A k \in 0..n : f[k] \in S
<1> DEFINE T == {m \in Nat : m <= n => f[m] \in S}
<1>1. 0 \in T OBVIOUS
<1>2. ASSUME NEW m \in Nat, m \in T PROVE m + 1 \in T
  <2> SUFFICES ASSUME m + 1 <= n PROVE f[m + 1] \in S OBVIOUS
  <2>1. f[m] \in S /\ m + 1 \in 1..n BY <1>2
  <2> QED BY <2>1
<1>3. Nat \subseteq T
  <2> HIDE DEF T
  <2> QED BY <1>1, <1>2, Induction
<1> QED BY <1>3

\* A function that starts with b and goes on by the steps of g.
IsIteration(f, n, b, g) ==
  f = [k \in 0..n |-> IF k = 0 THEN b ELSE g[k][f[k - 1]]]

\* There is one.
LEMMA IterationExists ==
  ASSUME NEW S, NEW b \in S, NEW n \in Nat, NEW g \in [1..n -> [S -> S]]
  PROVE  \E f \in [0..n -> S] : IsIteration(f, n, b, g)
<1> DEFINE T == {m \in Nat : m <= n => \E f \in [0..m -> S] : IsIteration(f, m, b, g)}
<1>1. 0 \in T
  <2> DEFINE f == [k \in 0..0 |-> b]
  <2>1. f \in [0..0 -> S] /\ IsIteration(f, 0, b, g) BY DEF IsIteration
  <2> QED BY <2>1
<1>2. ASSUME NEW m \in Nat, m \in T PROVE m + 1 \in T
  <2> SUFFICES ASSUME m + 1 <= n
               PROVE  \E f \in [0..(m + 1) -> S] : IsIteration(f, m + 1, b, g)
    OBVIOUS
  <2>1. PICK f \in [0..m -> S] : IsIteration(f, m, b, g) BY <1>2
  <2> DEFINE h == [k \in 0..(m + 1) |-> IF k = m + 1 THEN g[k][f[m]] ELSE f[k]]
  <2>2. f[m] \in S /\ m + 1 \in 1..n /\ g[m + 1][f[m]] \in S BY <2>1
  <2>3. h \in [0..(m + 1) -> S] BY <2>1, <2>2
  <2>4. ASSUME NEW k \in 0..(m + 1) PROVE h[k] = IF k = 0 THEN b ELSE g[k][h[k - 1]]
    <3>1. CASE k = m + 1 BY <3>1
    <3>2. CASE k # m + 1
      <4>1. k \in 0..m /\ h[k] = f[k] BY <3>2
      <4>2. f[k] = IF k = 0 THEN b ELSE g[k][f[k - 1]] BY <2>1, <4>1 DEF IsIteration
      <4>3. k # 0 => k - 1 \in 0..m /\ h[k - 1] = f[k - 1] BY <4>1
      <4> QED BY <4>1, <4>2, <4>3
    <3> QED BY <3>1, <3>2
  <2>5. h = [k \in 0..(m + 1) |-> h[k]] OBVIOUS
  <2> HIDE DEF h
  <2>6. IsIteration(h, m + 1, b, g) BY <2>4, <2>5 DEF IsIteration
  <2> QED BY <2>3, <2>6
<1>3. Nat \subseteq T
  <2> HIDE DEF T
  <2> QED BY <1>1, <1>2, Induction
<1> QED BY <1>3

\* What can be added up by removing one element after the other, up to n elements.
IsSum(f, S, n, h) ==
  f = [s \in {s \in SUBSET S : Cardinality(s) <= n} |->
         IF s = {} THEN 0 ELSE h[CHOOSE x \in s : TRUE] + f[s \ {CHOOSE x \in s : TRUE}]]

\* There is a sum of the amounts over any finite set, by induction on their number.
LEMMA SumExists ==
  ASSUME NEW S, IsFiniteSet(S), NEW n \in Nat, NEW h \in [S -> Nat]
  PROVE  \E f \in [{s \in SUBSET S : Cardinality(s) <= n} -> Nat] : IsSum(f, S, n, h)
<1> DEFINE D(m) == {s \in SUBSET S : Cardinality(s) <= m}
           T == {m \in Nat : \E f \in [D(m) -> Nat] : IsSum(f, S, m, h)}
           e(s) == CHOOSE x \in s : TRUE
<1>0. \A s \in SUBSET S : IsFiniteSet(s) /\ Cardinality(s) \in Nat BY FS_Subset, FS_CardinalityType
<1>1. 0 \in T
  <2> DEFINE f == [s \in D(0) |-> 0]
  <2>1. \A s \in D(0) : s = {} BY <1>0, FS_EmptySet
  <2>2. f \in [D(0) -> Nat] /\ IsSum(f, S, 0, h) BY <2>1 DEF IsSum
  <2> QED BY <2>2
<1>2. ASSUME NEW m \in Nat, m \in T PROVE m + 1 \in T
  <2>1. PICK f \in [D(m) -> Nat] : IsSum(f, S, m, h) BY <1>2
  <2> DEFINE k == [s \in D(m + 1) |-> IF s = {} THEN 0 ELSE h[e(s)] + f[s \ {e(s)}]]
  <2>2. ASSUME NEW s \in D(m + 1), s # {}
        PROVE  e(s) \in S /\ s \ {e(s)} \in D(m)
    <3>1. e(s) \in s BY <2>2
    <3> HIDE DEF e
    <3>2. Cardinality(s \ {e(s)}) = Cardinality(s) - 1 BY <1>0, <3>1, FS_RemoveElement
    <3> QED BY <1>0, <3>1, <3>2
  <2>3. \A s \in D(m) : f[s] = IF s = {} THEN 0 ELSE h[e(s)] + f[s \ {e(s)}] BY <2>1 DEF IsSum
  <2>4. \A s \in D(m) : s \in D(m + 1) BY <1>0
  <2> HIDE DEF e, D
  <2>5. \A s \in D(m) : k[s] = f[s] BY <2>3, <2>4
  <2>6. k \in [D(m + 1) -> Nat]
    <3>1. ASSUME NEW s \in D(m + 1), s # {} PROVE h[e(s)] \in Nat /\ f[s \ {e(s)}] \in Nat
      BY <2>2, <3>1
    <3> QED BY <3>1
  <2>7. \A s \in D(m + 1) : k[s] = IF s = {} THEN 0 ELSE h[e(s)] + k[s \ {e(s)}]
    BY <2>2, <2>5
  <2>8. k = [s \in D(m + 1) |-> k[s]] OBVIOUS
  <2> HIDE DEF k
  <2>9. k = [s \in D(m + 1) |-> IF s = {} THEN 0 ELSE h[e(s)] + k[s \ {e(s)}]] BY <2>7, <2>8
  <2>10. IsSum(k, S, m + 1, h) BY <2>9 DEF IsSum, D, e
  <2> QED BY <2>6, <2>10
<1>3. Nat \subseteq T
  <2> HIDE DEF T
  <2> QED BY <1>1, <1>2, Induction
<1> QED BY <1>3

-----------------------------------------------------------------------------
(* Sums over finite sets.                                                  *)

\* What the fold of the community modules chooses for the sum of h over S, and over every part
\* of it.
IsFold(f, S, h) ==
  f = [s \in SUBSET S |->
         IF s = {} THEN 0 ELSE h[CHOOSE x \in s : TRUE] + f[s \ {CHOOSE x \in s : TRUE}]]

SumOf(h, S) == (CHOOSE f : IsFold(f, S, h))[S]

\* There is one.
LEMMA FoldExists ==
  ASSUME NEW S, IsFiniteSet(S), NEW h \in [S -> Nat]
  PROVE  \E f \in [SUBSET S -> Nat] : IsFold(f, S, h)
<1> DEFINE n == Cardinality(S)
<1>1. n \in Nat BY FS_CardinalityType
<1>2. {s \in SUBSET S : Cardinality(s) <= n} = SUBSET S BY FS_Subset
<1> HIDE DEF n
<1>3. PICK f \in [{s \in SUBSET S : Cardinality(s) <= n} -> Nat] : IsSum(f, S, n, h)
  BY <1>1, SumExists
<1> QED BY <1>2, <1>3 DEF IsSum, IsFold

\* It gives numbers, and whatever element is taken out first.
LEMMA FoldIs ==
  ASSUME NEW S, IsFiniteSet(S), NEW h \in [S -> Nat], NEW f, IsFold(f, S, h)
  PROVE  /\ f[{}] = 0 /\ \A s \in SUBSET S : f[s] \in Nat
         /\ \A s \in SUBSET S : \A x \in s : f[s] = h[x] + f[s \ {x}]
<1> DEFINE e(s) == CHOOSE x \in s : TRUE
           Good(s) == f[s] \in Nat /\ \A x \in s : f[s] = h[x] + f[s \ {x}]
           T == {m \in Nat : \A s \in SUBSET S : Cardinality(s) <= m => Good(s)}
<1>1. \A s \in SUBSET S : IsFiniteSet(s) /\ Cardinality(s) \in Nat
  BY FS_Subset, FS_CardinalityType
<1>2. \A s \in SUBSET S : f[s] = IF s = {} THEN 0 ELSE h[e(s)] + f[s \ {e(s)}]
  BY DEF IsFold
<1>3. \A s \in SUBSET S : s # {} => e(s) \in s OBVIOUS
<1> HIDE DEF e
<1>4. 0 \in T
  <2>1. \A s \in SUBSET S : Cardinality(s) <= 0 => s = {} BY <1>1, FS_EmptySet
  <2> QED BY <1>2, <2>1
<1>5. ASSUME NEW m \in Nat, m \in T PROVE m + 1 \in T
  <2>1. ASSUME NEW s \in SUBSET S, Cardinality(s) = m + 1 PROVE Good(s)
    <3>1. s # {} /\ IsFiniteSet(s) BY <1>1, <2>1, FS_EmptySet
    <3> PICK c : c = e(s) OBVIOUS
    <3>2. c \in s /\ f[s] = h[c] + f[s \ {c}] BY <1>2, <1>3, <3>1
    <3>3. ASSUME NEW x \in s
          PROVE  s \ {x} \in SUBSET S /\ Cardinality(s \ {x}) = m /\ Good(s \ {x})
      <4>1. Cardinality(s \ {x}) = m
        <5>1. Cardinality(s \ {x}) = Cardinality(s) - 1 BY <3>1, <3>3, FS_RemoveElement
        <5> QED BY <2>1, <5>1
      <4>2. s \ {x} \in SUBSET S OBVIOUS
      <4> HIDE DEF Good
      <4> QED BY <1>5, <4>1, <4>2
    <3>4. ASSUME NEW x \in s PROVE f[s] = h[x] + f[s \ {x}]
      <4>1. CASE x = c BY <3>2, <4>1
      <4>2. CASE x # c
        <5> PICK a, b, r : a = s \ {c} /\ b = s \ {x} /\ r = (s \ {c}) \ {x} OBVIOUS
        <5>1. r = a \ {x} /\ r = b \ {c} /\ x \in a /\ c \in b BY <3>2, <4>2
        <5>2. Good(a) /\ Good(b) /\ a \in SUBSET S /\ Cardinality(a) = m BY <3>2, <3>3
        <5>3. f[a] = h[x] + f[r] /\ f[b] = h[c] + f[r] BY <5>1, <5>2
        <5>4. r \in SUBSET S /\ Cardinality(r) <= m
          <6>1. IsFiniteSet(a) BY <1>1, <5>2
          <6> QED BY <5>1, <5>2, <6>1, FS_Subset
        <5>5. Good(r)
          <6> HIDE DEF Good
          <6> QED BY <1>5, <5>4
        <5>6. h[x] \in Nat /\ h[c] \in Nat BY <3>2
        <5>7. f[r] \in Nat BY <5>5
        <5>8. f[s] = h[c] + f[a] BY <3>2
        <5>9. f[s] = h[x] + f[b]
          <6> HIDE DEF Good
          <6> QED BY <5>3, <5>6, <5>7, <5>8
        <5> QED BY <5>9
      <4> QED BY <4>1, <4>2
    <3>5. f[s \ {c}] \in Nat /\ h[c] \in Nat BY <3>2, <3>3
    <3>6. f[s] \in Nat BY <3>2, <3>5
    <3> QED BY <3>4, <3>6
  <2> HIDE DEF Good
  <2>2. \A s \in SUBSET S : Cardinality(s) <= m + 1 =>
          Cardinality(s) <= m \/ Cardinality(s) = m + 1
    BY <1>1
  <2> QED BY <1>5, <2>1, <2>2
<1>6. Nat \subseteq T
  <2> HIDE DEF T
  <2> QED BY <1>4, <1>5, Induction
<1>7. ASSUME NEW s \in SUBSET S PROVE Good(s)
  <2>1. Cardinality(s) \in T /\ Cardinality(s) <= Cardinality(s) BY <1>1, <1>6
  <2> HIDE DEF Good
  <2> QED BY <2>1
<1> QED BY <1>2, <1>7

\* What is in t, one for one and of the same amount, for what is in s: s has no more.
LEMMA FoldsCompare ==
  ASSUME NEW A, IsFiniteSet(A), NEW h \in [A -> Nat], NEW f, IsFold(f, A, h),
         NEW R, IsFiniteSet(R), NEW k \in [R -> Nat], NEW p, IsFold(p, R, k),
         NEW g \in [A -> R], \A x, y \in A : g[x] = g[y] => x = y,
         \A x \in A : k[g[x]] = h[x]
  PROVE  f[A] <= p[R]
<1> DEFINE Within(s, t) == \A x \in s : g[x] \in t
           T == {m \in Nat : \A s \in SUBSET A, t \in SUBSET R :
                   Cardinality(s) = m /\ Within(s, t) => f[s] <= p[t]}
<1>1. \A s \in SUBSET A : IsFiniteSet(s) /\ Cardinality(s) \in Nat
  BY FS_Subset, FS_CardinalityType
<1>2. /\ f[{}] = 0 /\ \A s \in SUBSET A : f[s] \in Nat
      /\ \A s \in SUBSET A : \A x \in s : f[s] = h[x] + f[s \ {x}]
  BY FoldIs
<1>3. /\ \A t \in SUBSET R : p[t] \in Nat
      /\ \A t \in SUBSET R : \A x \in t : p[t] = k[x] + p[t \ {x}]
  BY FoldIs
<1>4. 0 \in T
  <2>1. \A s \in SUBSET A : Cardinality(s) = 0 => s = {} BY <1>1, FS_EmptySet
  <2>2. ASSUME NEW s \in SUBSET A, NEW t \in SUBSET R, Cardinality(s) = 0 PROVE f[s] <= p[t]
    <3>1. f[s] = 0 /\ p[t] \in Nat BY <1>2, <1>3, <2>1, <2>2
    <3> QED BY <3>1
  <2> QED BY <2>2
<1>5. ASSUME NEW m \in Nat, m \in T PROVE m + 1 \in T
  <2>1. ASSUME NEW s \in SUBSET A, NEW t \in SUBSET R, Cardinality(s) = m + 1, Within(s, t)
        PROVE  f[s] <= p[t]
    <3>1. IsFiniteSet(s) /\ s # {} BY <1>1, <2>1, FS_EmptySet
    <3> PICK x \in s : TRUE BY <3>1
    <3> PICK y, a, b : y = g[x] /\ a = s \ {x} /\ b = t \ {y} OBVIOUS
    <3>2. Cardinality(a) = m
      <4>1. Cardinality(s \ {x}) = Cardinality(s) - 1 BY <3>1, FS_RemoveElement
      <4> QED BY <2>1, <4>1
    <3>3. y \in t /\ k[y] = h[x] BY <2>1
    <3>4. a \in SUBSET A /\ b \in SUBSET R OBVIOUS
    <3>5. Within(a, b) BY <2>1
    <3>6. f[a] <= p[b]
      <4> HIDE DEF Within
      <4> QED BY <1>5, <3>2, <3>4, <3>5
    <3>7. f[s] = h[x] + f[a] /\ p[t] = k[y] + p[b] BY <1>2, <1>3, <3>3
    <3>8. h[x] \in Nat /\ f[a] \in Nat /\ p[b] \in Nat BY <1>2, <1>3, <3>4
    <3> HIDE DEF Within
    <3> QED BY <3>3, <3>6, <3>7, <3>8
  <2> HIDE DEF Within
  <2> QED BY <2>1
<1>6. Nat \subseteq T
  <2> HIDE DEF T
  <2> QED BY <1>4, <1>5, Induction
<1>7. Cardinality(A) \in T /\ Within(A, R) BY <1>1, <1>6
<1> HIDE DEF Within
<1> QED BY <1>7

\* Any fold gives the sum.
LEMMA SumIs ==
  ASSUME NEW S, IsFiniteSet(S), NEW h \in [S -> Nat]
  PROVE  SumOf(h, S) \in Nat /\ \A f : IsFold(f, S, h) => f[S] = SumOf(h, S)
<1> DEFINE p == CHOOSE f : IsFold(f, S, h)
<1>1. IsFold(p, S, h) BY FoldExists
<1>2. SumOf(h, S) = p[S] BY DEF SumOf
<1> HIDE DEF p
<1>3. p[S] \in Nat BY <1>1, FoldIs
<1>4. ASSUME NEW f, IsFold(f, S, h) PROVE f[S] = p[S]
  <2>1. f[S] \in Nat BY <1>4, FoldIs
  <2> DEFINE g == [x \in S |-> x]
  <2>2. g \in [S -> S] /\ \A x \in S : g[x] = x OBVIOUS
  <2> HIDE DEF g
  <2>3. f[S] <= p[S] BY <1>1, <1>4, <2>2, FoldsCompare
  <2>4. p[S] <= f[S] BY <1>1, <1>4, <2>2, FoldsCompare
  <2> QED BY <1>3, <2>1, <2>3, <2>4
<1> QED BY <1>2, <1>3, <1>4

\* Amounts that are counted one for one among others are no more than those.
LEMMA SumInto ==
  ASSUME NEW A, IsFiniteSet(A), NEW h \in [A -> Nat], NEW R, IsFiniteSet(R), NEW k \in [R -> Nat],
         NEW g \in [A -> R], \A x, y \in A : g[x] = g[y] => x = y,
         \A x \in A : k[g[x]] = h[x]
  PROVE  SumOf(h, A) <= SumOf(k, R)
<1>1. PICK f : IsFold(f, A, h) BY FoldExists
<1>2. PICK p : IsFold(p, R, k) BY FoldExists
<1>3. f[A] <= p[R] BY <1>1, <1>2, FoldsCompare
<1> QED BY <1>1, <1>2, <1>3, SumIs

\* Nothing is nothing.
LEMMA SumOfNone == ASSUME NEW h, h \in [{} -> Nat] PROVE SumOf(h, {}) = 0
<1>1. IsFiniteSet({}) BY FS_EmptySet
<1>2. PICK f : IsFold(f, {}, h) BY <1>1, FoldExists
<1>3. f[{}] = 0 BY <1>1, <1>2, FoldIs
<1> QED BY <1>1, <1>2, <1>3, SumIs

\* The amounts of some, and of one more, are what there is of the one more than the others.
LEMMA SumWithOne ==
  ASSUME NEW A, IsFiniteSet(A), NEW h \in [A -> Nat],
         NEW x, NEW B, IsFiniteSet(B), B \subseteq A \cup {x}, NEW k \in [B -> Nat],
         NEW n \in Nat, x \in B => k[x] = n, \A y \in B \ {x} : k[y] = h[y]
  PROVE  SumOf(k, B) <= SumOf(h, A) + n
<1>1. SumOf(h, A) \in Nat BY SumIs
<1> PICK C : C = B \ {x} OBVIOUS
<1> DEFINE c == [y \in C |-> k[y]]
           g == [y \in C |-> y]
<1>2. /\ IsFiniteSet(C) /\ c \in [C -> Nat] /\ g \in [C -> A]
      /\ \A y \in C : g[y] = y /\ h[g[y]] = c[y] /\ c[y] = k[y]
  BY FS_RemoveElement
<1> HIDE DEF c, g
<1>3. SumOf(c, C) <= SumOf(h, A) /\ SumOf(c, C) \in Nat BY <1>2, SumInto, SumIs
<1>4. PICK f : IsFold(f, B, k) BY FoldExists
<1>5. /\ f[B] = SumOf(k, B) /\ f[C] \in Nat
      /\ x \in B => f[B] = n + f[C]
  <2>1. f[B] = SumOf(k, B) BY <1>4, SumIs
  <2>2. /\ f[{}] = 0 /\ \A s \in SUBSET B : f[s] \in Nat
        /\ \A s \in SUBSET B : \A y \in s : f[s] = k[y] + f[s \ {y}]
    BY <1>4, FoldIs
  <2>3. C \in SUBSET B /\ B \in SUBSET B OBVIOUS
  <2> QED BY <2>1, <2>2, <2>3
<1>6. f[C] = SumOf(c, C)
  <2> DEFINE q == [s \in SUBSET C |-> f[s]]
  <2>1. IsFold(q, C, c)
    <3>1. ASSUME NEW s \in SUBSET C
          PROVE  f[s] = IF s = {} THEN 0
                        ELSE c[CHOOSE y \in s : TRUE] + f[s \ {CHOOSE y \in s : TRUE}]
      <4>1. f[s] = IF s = {} THEN 0
                   ELSE k[CHOOSE y \in s : TRUE] + f[s \ {CHOOSE y \in s : TRUE}]
        BY <1>4 DEF IsFold
      <4>2. s # {} => (CHOOSE y \in s : TRUE) \in C OBVIOUS
      <4> QED BY <1>2, <4>1, <4>2
    <3>2. \A s \in SUBSET C : s \ {CHOOSE y \in s : TRUE} \in SUBSET C OBVIOUS
    <3> QED BY <3>1, <3>2 DEF IsFold
  <2>2. q[C] = SumOf(c, C)
    <3> HIDE DEF q
    <3> QED BY <1>2, <2>1, SumIs
  <2> QED BY <2>2
<1>7. x \notin B => C = B OBVIOUS
<1>8. f[B] <= SumOf(h, A) + n
  <2>1. CASE x \in B BY <1>1, <1>3, <1>5, <1>6, <2>1
  <2>2. CASE x \notin B
    <3>1. f[B] = f[C] BY <1>7, <2>2
    <3> QED BY <1>1, <1>3, <1>6, <3>1
  <2> QED BY <2>1, <2>2
<1> QED BY <1>5, <1>8

=============================================================================
