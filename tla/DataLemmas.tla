---------------------------- MODULE DataLemmas -----------------------------
(***************************************************************************)
(* Facts about the data the proofs work on, none of them about the         *)
(* program: non-linear arithmetic, what removing an element of a sequence  *)
(* leaves and how often its members occur, queues without repetition, what *)
(* deleting a run of an increasing sequence does to the places that point  *)
(* into it, sequences laid end to end, running sums, and folds.            *)
(***************************************************************************)
EXTENDS Integers, Sequences, SequencesExt, SequenceTheorems, FiniteSetTheorems,
        WellFoundedInduction, TLAPS

-----------------------------------------------------------------------------
(* Arithmetic                                                              *)

\* Division with remainder.
LEMMA DivMod ==
  ASSUME NEW a \in Nat, NEW n \in Nat \ {0}
  PROVE  /\ a \div n \in Nat
         /\ a % n \in 0 .. n - 1
         /\ a = n * (a \div n) + (a % n)
<1>1. a \div n \in Nat
  OBVIOUS
<1>2. a % n \in 0 .. n - 1
  OBVIOUS
<1>3. a = n * (a \div n) + (a % n)
  OBVIOUS
<1> QED BY <1>1, <1>2, <1>3

\* Multiplying keeps the order.
LEMMA MulMono ==
  ASSUME NEW a \in Nat, NEW b \in Nat, NEW n \in Nat, a <= b
  PROVE  n * a <= n * b
<1>1. n * b = n * a + n * (b - a)
  OBVIOUS
<1>2. n * (b - a) >= 0
  OBVIOUS
<1> QED BY <1>1, <1>2

\* Products that differ, differ by the factor at least.
LEMMA MulStep ==
  ASSUME NEW a \in Nat, NEW b \in Nat, NEW n \in Nat, n * a < n * b
  PROVE  n * a + n <= n * b
<1>1. a + 1 <= b
  <2>1. SUFFICES ASSUME b <= a PROVE FALSE
    OBVIOUS
  <2> QED BY <2>1, MulMono
<1>2. n * (a + 1) <= n * b
  BY <1>1, MulMono
<1> QED BY <1>2

\* What a number is made of: a digit and the rest.
LEMMA Digits ==
  ASSUME NEW n \in Nat \ {0}, NEW k \in Nat, NEW j \in Nat,
         NEW b \in 0 .. n - 1, NEW c \in 0 .. n - 1, b + n * k = c + n * j
  PROVE  k = j /\ b = c
<1>1. ASSUME NEW x \in Nat, NEW y \in Nat, NEW d \in 0 .. n - 1, NEW e \in 0 .. n - 1,
             d + n * x = e + n * y, x < y
      PROVE  FALSE
  <2>1. x + 1 <= y /\ x + 1 \in Nat
    BY <1>1
  <2>2. n * (x + 1) <= n * y
    BY <2>1, MulMono
  <2>3. n * (x + 1) = n * x + n
    OBVIOUS
  <2>4. PICK u \in Int, v \in Int : u = n * x /\ v = n * y
    OBVIOUS
  <2>5. d + u = e + v /\ u + n <= v
    BY <1>1, <2>2, <2>3, <2>4
  <2> QED BY <2>5
<1>2. ~ (k < j) /\ ~ (j < k)
  BY <1>1
<1>3. k = j
  BY <1>2
<1>4. PICK u \in Int : u = n * k
  OBVIOUS
<1>5. b + u = c + u
  BY <1>3, <1>4
<1> QED BY <1>3, <1>5

\* Piece i of a whole cut into c pieces of n lies inside the whole.
LEMMA PieceInside ==
  ASSUME NEW c \in Nat, NEW n \in Nat, NEW i \in 0 .. c - 1
  PROVE  i * n \in Nat /\ i * n + n <= n * c
<1>1. n * (i + 1) <= n * c
  BY MulMono
<1> QED BY <1>1

\* A number below c * d splits into a quotient below c and a rest below d.
LEMMA QuotientBelow ==
  ASSUME NEW c \in Nat, NEW d \in Nat \ {0}, NEW a \in Nat, a < c * d
  PROVE  a \div d \in 0 .. c - 1 /\ a % d \in 0 .. d - 1
<1>1. /\ a \div d \in Nat /\ a % d \in 0 .. d - 1
      /\ a = d * (a \div d) + (a % d)
  BY DivMod
<1>2. d * (a \div d) < d * c
  BY <1>1
<1>3. ~ (c <= a \div d)
  BY <1>1, <1>2, MulMono
<1> QED BY <1>1, <1>3

-----------------------------------------------------------------------------
(* Removing and counting elements                                          *)

\* A sequence over a set is one over any larger set.
LEMMA SeqMono ==
  ASSUME NEW S, NEW T, S \subseteq T, NEW s \in Seq(S)
  PROVE  s \in Seq(T)
<1>1. Len(s) \in Nat /\ DOMAIN s = 1 .. Len(s) /\ \A i \in 1 .. Len(s) : s[i] \in T
  OBVIOUS
<1>2. s = [i \in 1 .. Len(s) |-> s[i]]
  BY <1>1
<1>3. [i \in 1 .. Len(s) |-> s[i]] \in Seq(T)
  BY <1>1
<1> QED BY <1>2, <1>3


\* Where the elements of a set are in a sequence, and how many there are.
Places(q, K) == {i \in DOMAIN q : q[i] \in K}
CountIn(q, K) == Cardinality(Places(q, K))

\* t is s without its element i.
IsWithout(t, s, i) ==
  /\ Len(t) = Len(s) - 1
  /\ \A j \in 1 .. Len(s) - 1 : t[j] = IF j < i THEN s[j] ELSE s[j + 1]

\* The count is a number; it is 0 exactly when no element is in the set.
LEMMA CountType ==
  ASSUME NEW S, NEW q \in Seq(S), NEW K
  PROVE  /\ IsFiniteSet(Places(q, K))
         /\ CountIn(q, K) \in Nat
         /\ CountIn(q, K) = 0 <=> \A i \in 1 .. Len(q) : q[i] \notin K
<1>1. DOMAIN q = 1 .. Len(q) /\ Len(q) \in Nat
  BY LenProperties
<1>2. IsFiniteSet(1 .. Len(q))
  BY <1>1, FS_Interval
<1>3. Places(q, K) \in SUBSET (1 .. Len(q))
  BY <1>1 DEF Places
<1>4. IsFiniteSet(Places(q, K))
  BY <1>2, <1>3, FS_Subset
<1>5. CountIn(q, K) \in Nat
  BY <1>4, FS_CardinalityType DEF CountIn
<1>6. CountIn(q, K) = 0 <=> Places(q, K) = {}
  BY <1>4, FS_EmptySet DEF CountIn
<1> QED
  BY <1>1, <1>4, <1>5, <1>6 DEF Places

\* The empty sequence has no member of any set.
LEMMA CountEmpty == ASSUME NEW K PROVE CountIn(<< >>, K) = 0
<1>1. Places(<< >>, K) = {}
  BY DEF Places
<1> QED
  BY <1>1, FS_EmptySet DEF CountIn

\* Appending a member adds one to the count.
LEMMA CountAppend ==
  ASSUME NEW S, NEW q \in Seq(S), NEW x \in S, NEW K
  PROVE  CountIn(Append(q, x), K) = CountIn(q, K) + (IF x \in K THEN 1 ELSE 0)
<1> DEFINE n == Len(q) + 1
<1>1. DOMAIN q = 1 .. Len(q) /\ Len(q) \in Nat
  BY LenProperties
<1>2. /\ Append(q, x) \in Seq(S) /\ Len(Append(q, x)) = n
      /\ \A i \in 1 .. Len(q) : Append(q, x)[i] = q[i]
      /\ Append(q, x)[n] = x
  BY AppendProperties
<1>3. DOMAIN Append(q, x) = 1 .. n
  BY <1>2, LenProperties
<1>4. IsFiniteSet(Places(q, K)) /\ CountIn(q, K) \in Nat
  BY CountType
<1>5. CASE x \in K
  <2>1. Places(Append(q, x), K) = Places(q, K) \cup {n}
    BY <1>1, <1>2, <1>3, <1>5 DEF Places
  <2>2. n \notin Places(q, K)
    BY <1>1 DEF Places
  <2> QED
    BY <2>1, <2>2, <1>4, <1>5, FS_AddElement DEF CountIn
<1>6. CASE x \notin K
  <2>1. Places(Append(q, x), K) = Places(q, K)
    BY <1>1, <1>2, <1>3, <1>6 DEF Places
  <2> QED
    BY <2>1, <1>4, <1>6 DEF CountIn
<1> QED
  BY <1>5, <1>6

\* Removing a member takes one from the count.
LEMMA CountWithout ==
  ASSUME NEW S, NEW s \in Seq(S), NEW t \in Seq(S), NEW i \in 1 .. Len(s),
         IsWithout(t, s, i), NEW K
  PROVE  CountIn(t, K) = CountIn(s, K) - (IF s[i] \in K THEN 1 ELSE 0)
<1> DEFINE A == Places(t, K)
           B == Places(s, K) \ {i}
           f == [j \in A |-> IF j < i THEN j ELSE j + 1]
<1>1. /\ DOMAIN s = 1 .. Len(s) /\ Len(s) \in Nat
      /\ DOMAIN t = 1 .. Len(t) /\ Len(t) \in Nat
  BY LenProperties
<1>2. /\ Len(t) = Len(s) - 1
      /\ \A j \in 1 .. Len(s) - 1 : t[j] = IF j < i THEN s[j] ELSE s[j + 1]
  BY DEF IsWithout
<1>3. f \in [A -> B]
  BY <1>1, <1>2 DEF Places
<1>4. \A j, k \in A : f[j] = f[k] => j = k
  BY <1>1 DEF Places
<1>5. \A k \in B : \E j \in A : f[j] = k
  <2> SUFFICES ASSUME NEW k \in B PROVE \E j \in A : f[j] = k
    OBVIOUS
  <2>1. CASE k < i
    <3>1. k \in A
      BY <2>1, <1>1, <1>2 DEF Places
    <3> QED BY <3>1, <2>1
  <2>2. CASE k > i
    <3>1. k - 1 \in A
      BY <2>2, <1>1, <1>2 DEF Places
    <3>2. f[k - 1] = k
      BY <3>1, <2>2, <1>1 DEF Places
    <3> QED BY <3>1, <3>2
  <2>3. k \in 1 .. Len(s) /\ k # i /\ Len(s) \in Nat
    BY <1>1 DEF Places
  <2>4. k < i \/ k > i
    BY <2>3
  <2> QED BY <2>1, <2>2, <2>4
<1>6. ExistsBijection(A, B)
  BY <1>3, <1>4, <1>5 DEF ExistsBijection, Bijection, Injection, Surjection, IsInjective
<1>7. IsFiniteSet(A) /\ IsFiniteSet(Places(s, K)) /\ CountIn(s, K) \in Nat
  BY CountType
<1>8. Cardinality(B) = Cardinality(A)
  BY <1>6, <1>7, FS_Bijection
<1>9. Cardinality(B) = IF i \in Places(s, K) THEN CountIn(s, K) - 1 ELSE CountIn(s, K)
  BY <1>7, FS_RemoveElement DEF CountIn
<1>10. i \in Places(s, K) <=> s[i] \in K
  BY <1>1 DEF Places
<1> QED
  BY <1>7, <1>8, <1>9, <1>10 DEF CountIn

\* RemoveAt(s, i) is s without its element i.
LEMMA RemoveAtWithout ==
  ASSUME NEW S, NEW s \in Seq(S), NEW i \in 1 .. Len(s)
  PROVE  RemoveAt(s, i) \in Seq(S) /\ IsWithout(RemoveAt(s, i), s, i)
<1> DEFINE a == SubSeq(s, 1, i - 1)
           b == SubSeq(s, i + 1, Len(s))
<1>1. Len(s) \in Nat /\ \A k \in 1 .. Len(s) : s[k] \in S
  BY LenProperties, ElementOfSeq
<1>2. a \in Seq(S) /\ Len(a) = i - 1 /\ \A j \in 1 .. i - 1 : a[j] = s[j]
  BY <1>1
<1>3. /\ b \in Seq(S) /\ Len(b) = Len(s) - i
      /\ \A j \in 1 .. Len(s) - i : b[j] = s[i + j]
  BY <1>1
<1>4. /\ a \o b \in Seq(S) /\ Len(a \o b) = Len(a) + Len(b)
      /\ \A j \in 1 .. Len(a) + Len(b) :
           (a \o b)[j] = IF j <= Len(a) THEN a[j] ELSE b[j - Len(a)]
  BY <1>2, <1>3, ConcatProperties
<1>5. RemoveAt(s, i) = a \o b
  BY DEF RemoveAt
<1> HIDE DEF a, b
<1>6. Len(a \o b) = Len(s) - 1
  BY <1>1, <1>2, <1>3, <1>4
<1>7. ASSUME NEW j \in 1 .. Len(s) - 1
      PROVE  (a \o b)[j] = IF j < i THEN s[j] ELSE s[j + 1]
  <2>1. (a \o b)[j] = IF j <= i - 1 THEN a[j] ELSE b[j - (i - 1)]
    BY <1>1, <1>2, <1>3, <1>4
  <2>2. CASE j < i
    BY <2>1, <2>2, <1>1, <1>2
  <2>3. CASE ~ (j < i)
    <3>1. j - (i - 1) \in 1 .. Len(s) - i /\ ~ (j <= i - 1) /\ i + (j - (i - 1)) = j + 1
      BY <2>3, <1>1
    <3> QED BY <3>1, <2>1, <2>3, <1>3
  <2> QED BY <2>2, <2>3
<1> QED
  BY <1>4, <1>5, <1>6, <1>7 DEF IsWithout

\* Tail(s) is s without its first element.
LEMMA TailWithout ==
  ASSUME NEW S, NEW s \in Seq(S), s # << >>
  PROVE  Tail(s) \in Seq(S) /\ IsWithout(Tail(s), s, 1) /\ 1 \in 1 .. Len(s)
<1>1. Len(s) \in Nat \ {0}
  BY EmptySeq
<1> QED
  BY <1>1, HeadTailProperties DEF IsWithout

\* Behind a sequence come others, all of a set or none of it.
LEMMA CountJoin ==
  ASSUME NEW S, NEW s \in Seq(S), NEW t \in Seq(S), NEW K
  PROVE  /\ (\A j \in 1 .. Len(t) : t[j] \in K) =>
              CountIn(s \o t, K) = CountIn(s, K) + Len(t)
         /\ (\A j \in 1 .. Len(t) : t[j] \notin K) => CountIn(s \o t, K) = CountIn(s, K)
<1>1. PICK u \in Nat, v \in Nat : u = Len(s) /\ v = Len(t)
  BY LenProperties
<1>2. DOMAIN s = 1 .. u /\ DOMAIN (s \o t) = 1 .. u + v
  BY <1>1, ConcatProperties, LenProperties
<1>3. /\ \A j \in 1 .. u : (s \o t)[j] = s[j]
      /\ \A j \in u + 1 .. u + v : (s \o t)[j] = t[j - u] /\ j - u \in 1 .. v
  BY <1>1, ConcatProperties
<1>4. /\ \A j : j \in 1 .. u + v <=> j \in 1 .. u \/ j \in u + 1 .. u + v
      /\ \A j \in 1 .. u : j \notin u + 1 .. u + v
  OBVIOUS
<1>5. IsFiniteSet(Places(s, K)) /\ CountIn(s, K) \in Nat
  BY CountType
<1>6. ASSUME \A j \in 1 .. Len(t) : t[j] \in K
      PROVE  CountIn(s \o t, K) = CountIn(s, K) + Len(t)
  <2>1. \A j \in u + 1 .. u + v : (s \o t)[j] \in K
    BY <1>1, <1>3, <1>6
  <2>2. Places(s \o t, K) = Places(s, K) \cup (u + 1 .. u + v)
    BY <1>2, <1>3, <1>4, <2>1 DEF Places
  <2>3. Places(s, K) \cap (u + 1 .. u + v) = {}
    BY <1>2, <1>4 DEF Places
  <2>4. IsFiniteSet(u + 1 .. u + v) /\ Cardinality(u + 1 .. u + v) = v
    <3>1. u + 1 \in Int /\ u + v \in Int
      OBVIOUS
    <3>2. IF u + 1 > u + v THEN 0 = v ELSE (u + v) - (u + 1) + 1 = v
      OBVIOUS
    <3> QED BY <3>1, <3>2, FS_Interval
  <2>5. Cardinality(Places(s, K) \cap (u + 1 .. u + v)) = 0
    BY <2>3, FS_EmptySet
  <2>6. Cardinality(Places(s, K) \cup (u + 1 .. u + v)) = CountIn(s, K) + v - 0
    <3>1. Cardinality(Places(s, K) \cup (u + 1 .. u + v)) =
            Cardinality(Places(s, K)) + Cardinality(u + 1 .. u + v)
              - Cardinality(Places(s, K) \cap (u + 1 .. u + v))
      BY <1>5, <2>4, FS_Union
    <3> QED BY <2>4, <2>5, <3>1 DEF CountIn
  <2>7. CountIn(s \o t, K) = CountIn(s, K) + v - 0
    BY <2>2, <2>6 DEF CountIn
  <2> QED BY <1>1, <1>5, <2>7
<1>7. ASSUME \A j \in 1 .. Len(t) : t[j] \notin K
      PROVE  CountIn(s \o t, K) = CountIn(s, K)
  <2>1. \A j \in u + 1 .. u + v : (s \o t)[j] \notin K
    BY <1>1, <1>3, <1>7
  <2>2. Places(s \o t, K) = Places(s, K)
    BY <1>2, <1>3, <1>4, <2>1 DEF Places
  <2> QED BY <2>2 DEF CountIn
<1> QED BY <1>6, <1>7

\* A set of naturals that is not empty has a least element.
LEMMA LeastNat ==
  ASSUME NEW T \in SUBSET Nat, T # {}
  PROVE  \E x \in T : \A y \in T : x <= y
<1>1. \E x \in T : \A y \in T : ~ (<<y, x>> \in OpToRel(<, Nat))
  BY NatLessThanWellFounded, WFMin
<1>2. PICK x \in T : \A y \in T : ~ (<<y, x>> \in OpToRel(<, Nat))
  BY <1>1
<1>3. ASSUME NEW y \in T PROVE ~ (y < x)
  <2>1. <<y, x>> \in Nat \X Nat
    OBVIOUS
  <2>2. ~ (<<y, x>>[1] < <<y, x>>[2])
    BY <1>2, <2>1, Zenon DEF OpToRel
  <2> QED BY <2>2
<1> QED
  BY <1>3
\* A bounded set of natural numbers that is not empty has a greatest one.
LEMMA GreatestNat ==
  ASSUME NEW n \in Nat, NEW T \in SUBSET (0 .. n), T # {}
  PROVE  \E x \in T : \A y \in T : y <= x
<1> DEFINE D == {d \in 0 .. n : n - d \in T}
<1>1. D \in SUBSET Nat /\ D # {}
  <2>1. PICK x \in T : TRUE
    OBVIOUS
  <2>2. PICK d \in 0 .. n : d = n - x
    BY <2>1
  <2>3. n - d = x
    BY <2>1, <2>2
  <2>4. d \in D
    BY <2>1, <2>2, <2>3
  <2> QED BY <2>4
<1>2. PICK d \in D : \A e \in D : d <= e
  BY <1>1, LeastNat
<1>3. \A y \in T : n - y \in D
  <2>1. TAKE y \in T
  <2>2. PICK e \in 0 .. n : e = n - y
    OBVIOUS
  <2>3. n - e = y
    BY <2>2
  <2> QED BY <2>2, <2>3
<1>4. n - d \in T /\ \A y \in T : y <= n - d
  BY <1>2, <1>3
<1> QED BY <1>4

\* What SelectLastInSeq returns: the greatest member of a set of places, 0
\* if it is empty.
LEMMA LastPlace ==
  ASSUME NEW n \in Nat, NEW I \in SUBSET (1 .. n), NEW l,
         l = IF I # {} THEN Max(I) ELSE 0
  PROVE  /\ l \in 0 .. n
         /\ l # 0 => l \in I
         /\ \A i \in I : i <= l
<1>1. CASE I = {}
  BY <1>1
<1>2. CASE I # {}
  <2>1. I \in SUBSET (0 .. n)
    OBVIOUS
  <2>2. PICK m \in I : \A y \in I : y <= m
    BY <1>2, <2>1, GreatestNat
  <2>3. \A y \in I : m >= y
    BY <2>2
  <2>4. Max(I) \in I /\ \A y \in I : Max(I) >= y
    BY <2>2, <2>3, Zenon DEF Max
  <2>5. l = Max(I)
    BY <1>2
  <2>6. l \in I /\ \A y \in I : l >= y
    BY <2>4, <2>5, Zenon
  <2> QED BY <1>2, <2>6
<1> QED BY <1>1, <1>2

-----------------------------------------------------------------------------
(* Queues that hold each member of a set once                              *)

\* The places n to m of f hold the members of S, each once.
Each(f, n, m, S) ==
  /\ \A i \in n .. m : f[i] \in S
  /\ \A i \in n .. m, j \in n .. m : f[i] = f[j] => i = j
  /\ \A x \in S : \E i \in n .. m : f[i] = x

\* A new member is put at the end.
LEMMA EachAppend ==
  ASSUME NEW n \in Nat, NEW m \in Nat, n <= m + 1, NEW f, NEW g, NEW S,
         Each(f, n, m, S), \A i \in n .. m : g[i] = f[i], g[m + 1] \notin S
  PROVE  Each(g, n, m + 1, S \cup {g[m + 1]})
<1> DEFINE T == S \cup {g[m + 1]}
<1>1. \A i \in n .. m + 1 : i \in n .. m \/ i = m + 1
  OBVIOUS
<1>2. \A i \in n .. m : g[i] \in S
  BY DEF Each
<1>3. \A i \in n .. m + 1 : g[i] \in T
  BY <1>1, <1>2
<1>4. ASSUME NEW i \in n .. m + 1, NEW j \in n .. m + 1, g[i] = g[j] PROVE i = j
  <2>1. CASE i \in n .. m /\ j \in n .. m
    BY <1>4, <2>1 DEF Each
  <2> QED BY <1>1, <1>2, <1>4, <2>1
<1>5. ASSUME NEW x \in T PROVE \E i \in n .. m + 1 : g[i] = x
  <2>1. CASE x \in S
    <3>1. PICK i \in n .. m : f[i] = x
      BY <2>1 DEF Each
    <3>2. i \in n .. m + 1 /\ g[i] = x
      BY <3>1
    <3> QED BY <3>2
  <2>2. CASE x = g[m + 1]
    <3>1. m + 1 \in n .. m + 1
      OBVIOUS
    <3> QED BY <2>2, <3>1
  <2> QED BY <2>1, <2>2
<1> QED BY <1>3, <1>4, <1>5 DEF Each

\* The first member is taken out of the set and passed over.
LEMMA EachDrop ==
  ASSUME NEW n \in Nat, NEW m \in Nat, n <= m, NEW f, NEW S, Each(f, n, m, S)
  PROVE  Each(f, n + 1, m, S \ {f[n]})
<1>1. \A i \in n + 1 .. m : i \in n .. m /\ i # n
  OBVIOUS
<1>2. n \in n .. m /\ \A i \in n .. m : i = n \/ i \in n + 1 .. m
  OBVIOUS
<1>3. ASSUME NEW x \in S \ {f[n]} PROVE \E i \in n + 1 .. m : f[i] = x
  <2>1. PICK i \in n .. m : f[i] = x
    BY DEF Each
  <2> QED BY <1>2, <2>1
<1> QED BY <1>1, <1>2, <1>3 DEF Each

\* What was passed over leaves the queue.
LEMMA EachShift ==
  ASSUME NEW m \in Nat, m > 0, NEW f, NEW g, NEW S, Each(f, 2, m, S),
         \A i \in 1 .. m - 1 : g[i] = f[i + 1]
  PROVE  Each(g, 1, m - 1, S)
<1>1. \A i \in 1 .. m - 1 : i + 1 \in 2 .. m /\ g[i] = f[i + 1]
  OBVIOUS
<1>2. ASSUME NEW i \in 1 .. m - 1, NEW j \in 1 .. m - 1, g[i] = g[j] PROVE i = j
  <2>1. f[i + 1] = f[j + 1] /\ i + 1 \in 2 .. m /\ j + 1 \in 2 .. m
    BY <1>1, <1>2
  <2>2. i + 1 = j + 1
    BY <2>1 DEF Each
  <2> QED BY <2>2
<1>3. ASSUME NEW x \in S PROVE \E i \in 1 .. m - 1 : g[i] = x
  <2>1. PICK j \in 2 .. m : f[j] = x
    BY DEF Each
  <2>2. j - 1 \in 1 .. m - 1 /\ g[j - 1] = x
    <3>1. j - 1 \in 1 .. m - 1 /\ (j - 1) + 1 = j
      OBVIOUS
    <3> QED BY <1>1, <2>1, <3>1
  <2> QED BY <2>2
<1> QED BY <1>1, <1>2, <1>3 DEF Each

\* A queue of such places has each member once.
LEMMA EachOnce ==
  ASSUME NEW m \in Nat, NEW f, DOMAIN f = 1 .. m, NEW S, Each(f, 1, m, S), NEW x
  PROVE  Cardinality({i \in DOMAIN f : f[i] = x}) = IF x \in S THEN 1 ELSE 0
<1> DEFINE P == {i \in DOMAIN f : f[i] = x}
<1>1. CASE x \in S
  <2>1. PICK i \in 1 .. m : f[i] = x
    BY <1>1 DEF Each
  <2>2. P = {i}
    BY <2>1 DEF Each
  <2> QED BY <1>1, <2>2, FS_Singleton
<1>2. CASE x \notin S
  <2>1. P = {}
    BY <1>2 DEF Each
  <2> QED BY <1>2, <2>1, FS_EmptySet
<1> QED BY <1>1, <1>2

-----------------------------------------------------------------------------
(* Cutting bytes out of an increasing sequence                             *)

Increasing(c) == \A j \in 1 .. Len(c), l \in 1 .. Len(c) : j < l => c[j] < c[l]
AtIn(c, p, x) == /\ p \in 0 .. Len(c)
                 /\ \A j \in 1 .. Len(c) : c[j] < x <=> j <= p
LeftIn(c, x) == \E j \in 1 .. Len(c) : c[j] = x
BlockIn(c, q, o, m) ==
  \A j \in q + 1 .. q + m : j <= Len(c) /\ c[j] = o + (j - q - 1)

\* Where a relocation is: at its byte, or stale behind the end.
PlaceIn(c, q, o) == AtIn(c, q, o) \/ (~ LeftIn(c, o) /\ q >= Len(c))

\* d is c without the n elements behind position a.
IsCut(d, c, a, n) ==
  /\ Len(d) = Len(c) - n
  /\ \A j \in 1 .. Len(d) : d[j] = IF j <= a THEN c[j] ELSE c[j + n]

\* u is the part of c behind its first k elements, of length m.
IsPart(u, c, k, m) == Len(u) = m /\ \A j \in 1 .. m : u[j] = c[k + j]

LEMMA JoinIsCut ==
  ASSUME NEW S, NEW c \in Seq(S), NEW a \in Nat, NEW n \in Nat, a + n <= Len(c),
         NEW u \in Seq(S), IsPart(u, c, 0, a),
         NEW v \in Seq(S), IsPart(v, c, a + n, Len(c) - a - n)
  PROVE  u \o v \in Seq(S) /\ IsCut(u \o v, c, a, n)
<1>0. Len(c) \in Nat
  BY LenProperties
<1>1. /\ u \o v \in Seq(S) /\ Len(u \o v) = Len(u) + Len(v)
      /\ \A j \in 1 .. Len(u) + Len(v) :
           (u \o v)[j] = IF j <= Len(u) THEN u[j] ELSE v[j - Len(u)]
  BY ConcatProperties
<1>a. Len(u) = a /\ \A j \in 1 .. a : u[j] = c[j]
  <2>1. \A j \in 1 .. a : 0 + j = j
    OBVIOUS
  <2> QED
    BY <2>1 DEF IsPart
<1>b. /\ Len(v) = Len(c) - a - n
      /\ \A j \in 1 .. Len(c) - a - n : v[j] = c[a + n + j]
  BY DEF IsPart
<1>2. Len(u \o v) = Len(c) - n
  BY <1>0, <1>1, <1>a, <1>b
<1>3. ASSUME NEW j \in 1 .. Len(c) - n
      PROVE  (u \o v)[j] = IF j <= a THEN c[j] ELSE c[j + n]
  <2>1. (u \o v)[j] = IF j <= a THEN u[j] ELSE v[j - a]
    <3>1. j \in 1 .. Len(u) + Len(v)
      BY <1>0, <1>a, <1>b
    <3> QED
      BY <1>1, <1>a, <3>1
  <2>2. CASE j <= a
    <3>1. j \in 1 .. a
      BY <1>0, <2>2
    <3>2. u[j] = c[j]
      BY <3>1, <1>a
    <3> QED
      BY <2>1, <2>2, <3>2
  <2>3. CASE j > a
    <3>1. j - a \in 1 .. Len(c) - a - n /\ a + n + (j - a) = j + n
      BY <1>0, <2>3
    <3>2. v[j - a] = c[a + n + (j - a)]
      BY <3>1, <1>b
    <3> QED
      BY <2>1, <2>3, <3>1, <3>2
  <2>4. j <= a \/ j > a
    BY <1>0
  <2> QED
    BY <2>2, <2>3, <2>4
<1> QED
  BY <1>1, <1>2, <1>3 DEF IsCut

\* The two SubSeq of riscv_relax_delete_bytes leave out exactly the bytes
\* behind addr.
LEMMA DeleteIsCut ==
  ASSUME NEW S, NEW c \in Seq(S), NEW a \in Nat, NEW n \in Nat, a + n <= Len(c)
  PROVE  LET d == SubSeq(c, 1, a) \o SubSeq(c, a + n + 1, Len(c))
         IN d \in Seq(S) /\ IsCut(d, c, a, n)
<1>0. Len(c) \in Nat /\ c \in [1 .. Len(c) -> S]
  BY LenProperties
<1>1. ASSUME NEW k \in Nat, NEW l \in Nat, k <= l, l <= Len(c)
      PROVE  /\ SubSeq(c, k + 1, l) \in Seq(S)
             /\ IsPart(SubSeq(c, k + 1, l), c, k, l - k)
  <2>1. \A j \in k + 1 .. l : c[j] \in S
    BY <1>0, <1>1
  <2> DEFINE m == k + 1
             u == SubSeq(c, m, l)
  <2>2. m \in Int /\ l - m + 1 = l - k /\ m <= l + 1
    BY <1>1
  <2>3. \A j \in 1 .. l - k : m + j - 1 = k + j
    OBVIOUS
  <2> HIDE DEF m
  <2>4. /\ u \in Seq(S)
        /\ Len(u) = IF m <= l THEN l - m + 1 ELSE 0
        /\ \A j \in 1 .. l - m + 1 : u[j] = c[m + j - 1]
    BY <2>1, <2>2, SubSeqProperties DEF m
  <2> HIDE DEF u
  <2>5. Len(u) = l - k
    BY <2>2, <2>4
  <2>6. \A j \in 1 .. l - k : u[j] = c[k + j]
    BY <2>2, <2>3, <2>4
  <2> QED
    BY <2>4, <2>5, <2>6 DEF IsPart, u, m
<1>2. SubSeq(c, 1, a) \in Seq(S) /\ IsPart(SubSeq(c, 1, a), c, 0, a)
  <2>1. 0 + 1 = 1 /\ a - 0 = a /\ 0 <= a /\ a <= Len(c)
    BY <1>0
  <2> QED
    BY <1>1, <2>1
<1>3. /\ SubSeq(c, a + n + 1, Len(c)) \in Seq(S)
      /\ IsPart(SubSeq(c, a + n + 1, Len(c)), c, a + n, Len(c) - (a + n))
  BY <1>0, <1>1
<1>4. Len(c) - (a + n) = Len(c) - a - n
  BY <1>0
<1> QED
  BY <1>2, <1>3, <1>4, JoinIsCut

\* A place of the code outside of what is deleted is not between the bytes.
LEMMA CutPlace ==
  ASSUME NEW c \in Seq(Nat), NEW a \in Nat, NEW n \in Nat, NEW b \in Nat,
         BlockIn(c, a, b, n), NEW p \in Nat, NEW x \in Nat, AtIn(c, p, x),
         x <= b \/ x >= b + n
  PROVE  p <= a \/ p >= a + n
<1>0. Len(c) \in Nat /\ c \in [1 .. Len(c) -> Nat]
  BY LenProperties
<1>1. CASE n = 0
  BY <1>1
<1>2. CASE n > 0
  <2>1. /\ a + 1 \in 1 .. Len(c) /\ c[a + 1] = b
        /\ a + n \in 1 .. Len(c) /\ c[a + n] = b + n - 1
    BY <1>0, <1>2 DEF BlockIn
  <2> QED
    BY <1>0, <1>2, <2>1 DEF AtIn
<1> QED
  BY <1>1, <1>2

\* ... and follows the code that is moved.
LEMMA CutAt ==
  ASSUME NEW c \in Seq(Nat), NEW a \in Nat, NEW n \in Nat, a + n <= Len(c),
         NEW d, IsCut(d, c, a, n), NEW p \in Nat, NEW x \in Nat, AtIn(c, p, x),
         p <= a \/ p >= a + n
  PROVE  AtIn(d, IF p > a THEN p - n ELSE p, x)
<1>0. Len(c) \in Nat /\ c \in [1 .. Len(c) -> Nat]
  BY LenProperties
<1>1. CASE p <= a
  <2>1. p \in 0 .. Len(d)
    BY <1>0, <1>1 DEF AtIn, IsCut
  <2>2. ASSUME NEW j \in 1 .. Len(d) PROVE d[j] < x <=> j <= p
    <3>1. CASE j <= a
      BY <1>0, <1>1, <3>1 DEF AtIn, IsCut
    <3>2. CASE j > a
      <4>1. j + n \in 1 .. Len(c) /\ d[j] = c[j + n]
        BY <1>0, <3>2 DEF IsCut
      <4> QED
        BY <1>1, <3>2, <4>1 DEF AtIn
    <3> QED
      BY <1>0, <3>1, <3>2 DEF IsCut
  <2> QED
    BY <1>1, <2>1, <2>2 DEF AtIn
<1>2. CASE p > a
  <2>1. p >= a + n /\ p - n \in 0 .. Len(d)
    BY <1>0, <1>2 DEF AtIn, IsCut
  <2>2. ASSUME NEW j \in 1 .. Len(d) PROVE d[j] < x <=> j <= p - n
    <3>1. CASE j <= a
      BY <1>0, <1>2, <2>1, <3>1 DEF AtIn, IsCut
    <3>2. CASE j > a
      <4>1. j + n \in 1 .. Len(c) /\ d[j] = c[j + n]
        BY <1>0, <3>2 DEF IsCut
      <4> QED
        BY <1>0, <1>2, <4>1 DEF AtIn
    <3> QED
      BY <1>0, <3>1, <3>2 DEF IsCut
  <2> QED
    BY <1>2, <2>1, <2>2 DEF AtIn
<1> QED
  BY <1>1, <1>2

\* What is left after the cut.
LEMMA CutLeft ==
  ASSUME NEW c \in Seq(Nat), NEW a \in Nat, NEW n \in Nat, a + n <= Len(c),
         NEW b \in Nat, BlockIn(c, a, b, n), Increasing(c),
         NEW d, IsCut(d, c, a, n), NEW x \in Nat
  PROVE  LeftIn(d, x) <=> LeftIn(c, x) /\ x \notin b .. b + n - 1
<1>0. Len(c) \in Nat /\ c \in [1 .. Len(c) -> Nat]
  BY LenProperties
<1>1. ASSUME NEW j \in 1 .. Len(c)
      PROVE  j \in a + 1 .. a + n <=> c[j] \in b .. b + n - 1
  <2>1. ASSUME j \in a + 1 .. a + n PROVE c[j] \in b .. b + n - 1
    BY <1>0, <2>1 DEF BlockIn
  <2>2. ASSUME c[j] \in b .. b + n - 1 PROVE j \in a + 1 .. a + n
    <3>0. PICK e \in 0 .. n - 1 : c[j] = b + e
      <4>1. ASSUME NEW y \in Nat, b <= y, y <= b + n - 1
            PROVE  y - b \in 0 .. n - 1 /\ y = b + (y - b)
        BY <4>1
      <4>2. c[j] \in Nat /\ b <= c[j] /\ c[j] <= b + n - 1
        BY <1>0, <2>2
      <4> QED
        BY <4>1, <4>2
    <3> DEFINE l == a + 1 + e
    <3>1. l \in a + 1 .. a + n /\ l \in 1 .. Len(c) /\ b + (l - a - 1) = b + e
      BY <1>0
    <3>2. c[l] = c[j]
      <4> HIDE DEF l
      <4> QED
        BY <3>0, <3>1 DEF BlockIn
    <3>3. ~ (l < j) /\ ~ (j < l)
      <4> HIDE DEF l
      <4> QED
        BY <1>0, <3>1, <3>2 DEF Increasing
    <3> QED
      BY <1>0, <3>1, <3>3
  <2> QED
    BY <2>1, <2>2
<1>2. ASSUME LeftIn(d, x) PROVE LeftIn(c, x) /\ x \notin b .. b + n - 1
  <2>1. PICK j \in 1 .. Len(d) : d[j] = x
    BY <1>2 DEF LeftIn
  <2>2. PICK l \in 1 .. Len(c) : c[l] = x /\ l \notin a + 1 .. a + n
    <3>1. CASE j <= a
      BY <1>0, <2>1, <3>1 DEF IsCut
    <3>2. CASE j > a
      <4>1. j + n \in 1 .. Len(c) /\ d[j] = c[j + n] /\ j + n \notin a + 1 .. a + n
        BY <1>0, <3>2 DEF IsCut
      <4> QED
        BY <2>1, <4>1
    <3> QED
      BY <1>0, <3>1, <3>2 DEF IsCut
  <2> QED
    BY <1>1, <2>2 DEF LeftIn
<1>3. ASSUME LeftIn(c, x), x \notin b .. b + n - 1 PROVE LeftIn(d, x)
  <2>1. PICK j \in 1 .. Len(c) : c[j] = x
    BY <1>3 DEF LeftIn
  <2>2. j <= a \/ j > a + n
    BY <1>0, <1>1, <1>3, <2>1
  <2>3. CASE j <= a
    <3>1. j \in 1 .. Len(d) /\ d[j] = c[j]
      BY <1>0, <2>3 DEF IsCut
    <3> QED
      BY <2>1, <3>1 DEF LeftIn
  <2>4. CASE j > a + n
    <3>1. j - n \in 1 .. Len(d) /\ j - n > a /\ j - n + n = j
      BY <1>0, <2>4 DEF IsCut
    <3>2. d[j - n] = c[j]
      BY <1>0, <3>1 DEF IsCut
    <3> QED
      BY <2>1, <3>1, <3>2 DEF LeftIn
  <2> QED
    BY <2>2, <2>3, <2>4
<1> QED
  BY <1>2, <1>3

LEMMA CutIncreasing ==
  ASSUME NEW c \in Seq(Nat), NEW a \in Nat, NEW n \in Nat, a + n <= Len(c),
         NEW d, IsCut(d, c, a, n), Increasing(c)
  PROVE  Increasing(d)
<1>0. Len(c) \in Nat /\ Len(d) = Len(c) - n
  BY LenProperties DEF IsCut
<1> SUFFICES ASSUME NEW j \in 1 .. Len(d), NEW l \in 1 .. Len(d), j < l
             PROVE  d[j] < d[l]
  BY DEF Increasing
<1> DEFINE f(k) == IF k <= a THEN k ELSE k + n
<1>1. f(j) \in 1 .. Len(c) /\ f(l) \in 1 .. Len(c) /\ f(j) < f(l)
  BY <1>0
<1>2. d[j] = c[f(j)] /\ d[l] = c[f(l)]
  BY DEF IsCut
<1> HIDE DEF f
<1> QED
  BY <1>1, <1>2 DEF Increasing

\* A block outside of what is deleted stays in one piece.
LEMMA CutBlock ==
  ASSUME NEW c \in Seq(Nat), NEW a \in Nat, NEW n \in Nat, a + n <= Len(c),
         NEW b \in Nat, BlockIn(c, a, b, n), Increasing(c),
         NEW d, IsCut(d, c, a, n),
         NEW q \in Nat, NEW o \in Nat, NEW m \in Nat, BlockIn(c, q, o, m),
         o + m <= b \/ o >= b + n
  PROVE  BlockIn(d, IF q > a /\ q < Len(c) THEN q - n ELSE q, o, m)
<1>0. Len(c) \in Nat /\ c \in [1 .. Len(c) -> Nat]
  BY LenProperties
<1>1. CASE m = 0
  BY <1>1 DEF BlockIn
<1>2. CASE n = 0
  <2>1. Len(d) = Len(c) /\ (IF q > a /\ q < Len(c) THEN q - n ELSE q) = q
    BY <1>0, <1>2 DEF IsCut
  <2>2. \A j \in 1 .. Len(c) : d[j] = c[j]
    BY <1>0, <1>2 DEF IsCut
  <2>3. \A j \in q + 1 .. q + m : j \in 1 .. Len(c)
    BY <1>0 DEF BlockIn
  <2> QED
    BY <2>1, <2>2, <2>3 DEF BlockIn
<1>3. CASE m > 0 /\ n > 0
  <2>1. /\ q + 1 \in 1 .. Len(c) /\ c[q + 1] = o
        /\ q + m \in 1 .. Len(c) /\ c[q + m] = o + m - 1
    BY <1>0, <1>3 DEF BlockIn
  <2>2. q + m <= a \/ q >= a + n
    <3>1. /\ a + 1 \in 1 .. Len(c) /\ c[a + 1] = b
          /\ a + n \in 1 .. Len(c) /\ c[a + n] = b + n - 1
      BY <1>0, <1>3 DEF BlockIn
    <3>2. CASE o + m <= b
      <4>1. c[q + m] < c[a + 1]
        BY <2>1, <3>1, <3>2
      <4>2. ASSUME a + 1 < q + m PROVE FALSE
        <5>1. c[a + 1] < c[q + m]
          BY <2>1, <3>1, <4>2 DEF Increasing
        <5> QED
          BY <1>0, <2>1, <3>1, <4>1, <5>1
      <4>3. ASSUME a + 1 = q + m PROVE FALSE
        <5>1. c[a + 1] = c[q + m]
          BY <4>3
        <5> QED
          BY <2>1, <3>1, <3>2, <5>1
      <4> QED
        BY <4>2, <4>3
    <3>3. CASE o >= b + n
      <4>1. c[a + n] < c[q + 1]
        BY <2>1, <3>1, <3>3
      <4>2. ASSUME q + 1 < a + n PROVE FALSE
        <5>1. c[q + 1] < c[a + n]
          BY <2>1, <3>1, <4>2 DEF Increasing
        <5> QED
          BY <1>0, <2>1, <3>1, <4>1, <5>1
      <4>3. ASSUME q + 1 = a + n PROVE FALSE
        <5>1. c[q + 1] = c[a + n]
          BY <4>3
        <5> QED
          BY <2>1, <3>1, <3>3, <5>1
      <4> QED
        BY <4>2, <4>3
    <3> QED
      BY <3>2, <3>3
  <2>3. CASE q + m <= a
    <3> SUFFICES ASSUME NEW j \in q + 1 .. q + m
                 PROVE  j <= Len(d) /\ d[j] = o + (j - q - 1)
      BY <1>3, <2>3 DEF BlockIn
    <3>1. c[j] = o + (j - q - 1)
      BY DEF BlockIn
    <3>2. j \in 1 .. Len(d) /\ j <= a
      BY <1>0, <2>3 DEF IsCut
    <3> QED
      BY <3>1, <3>2 DEF IsCut
  <2>4. CASE q >= a + n /\ ~ (q + m <= a)
    <3>1. (IF q > a /\ q < Len(c) THEN q - n ELSE q) = q - n
      BY <1>0, <2>1, <2>4
    <3> SUFFICES ASSUME NEW j \in q - n + 1 .. q - n + m
                 PROVE  j <= Len(d) /\ d[j] = o + (j - (q - n) - 1)
      BY <3>1 DEF BlockIn
    <3>2. j + n \in q + 1 .. q + m
      OBVIOUS
    <3>3. j + n <= Len(c) /\ c[j + n] = o + (j + n - q - 1)
      BY <3>2 DEF BlockIn
    <3>4. j \in 1 .. Len(d) /\ j > a
      <4>1. Len(d) = Len(c) - n
        BY DEF IsCut
      <4>2. j + n <= Len(c)
        BY <3>3
      <4> QED
        BY <1>0, <2>4, <4>1, <4>2
    <3>5. d[j] = c[j + n]
      BY <1>0, <3>4 DEF IsCut
    <3> QED
      BY <3>3, <3>4, <3>5
  <2> QED
    BY <2>2, <2>3, <2>4
<1> QED
  BY <1>1, <1>2, <1>3

\* The part of a block before the cut stays.
LEMMA CutPrefix ==
  ASSUME NEW c \in Seq(Nat), NEW a \in Nat, NEW n \in Nat, a + n <= Len(c),
         NEW d, IsCut(d, c, a, n),
         NEW q \in Nat, NEW o \in Nat, NEW m \in Nat, NEW l \in Nat,
         BlockIn(c, q, o, m), l <= m, q + l <= a
  PROVE  BlockIn(d, q, o, l)
<1>0. Len(c) \in Nat
  BY LenProperties
<1> SUFFICES ASSUME NEW j \in q + 1 .. q + l
             PROVE  j <= Len(d) /\ d[j] = o + (j - q - 1)
  BY DEF BlockIn
<1>1. j \in q + 1 .. q + m /\ j <= a
  OBVIOUS
<1>2. c[j] = o + (j - q - 1)
  BY <1>1 DEF BlockIn
<1>3. j \in 1 .. Len(d)
  BY <1>0, <1>1 DEF IsCut
<1> QED
  BY <1>1, <1>2, <1>3 DEF IsCut

\* A relocation follows its byte; one without a byte stays stale.
LEMMA CutReloc ==
  ASSUME NEW c \in Seq(Nat), NEW a \in Nat, NEW n \in Nat, a + n <= Len(c),
         NEW b \in Nat, BlockIn(c, a, b, n), Increasing(c),
         NEW d, IsCut(d, c, a, n),
         NEW q \in Nat, NEW o \in Nat, PlaceIn(c, q, o), o <= b \/ o >= b + n
  PROVE  LET moved == IF q > a /\ q < Len(c) THEN q - n ELSE q
         IN moved \in Nat /\ PlaceIn(d, moved, o)
<1>0. Len(c) \in Nat /\ c \in [1 .. Len(c) -> Nat]
  BY LenProperties
<1> DEFINE moved == IF q > a /\ q < Len(c) THEN q - n ELSE q
<1>1. CASE AtIn(c, q, o) /\ q < Len(c)
  <2>1. q <= a \/ q >= a + n
    BY <1>0, <1>1, CutPlace
  <2>2. AtIn(d, IF q > a THEN q - n ELSE q, o)
    BY <1>0, <1>1, <2>1, CutAt
  <2> QED
    BY <1>0, <1>1, <2>1, <2>2 DEF PlaceIn
<1>2. CASE ~ (AtIn(c, q, o) /\ q < Len(c))
  <2>1. q >= Len(c) /\ ~ LeftIn(c, o)
    BY <1>0, <1>2 DEF PlaceIn, AtIn, LeftIn
  <2>2. ~ LeftIn(d, o)
    BY <1>0, <2>1, CutLeft
  <2> QED
    BY <1>0, <2>1, <2>2 DEF PlaceIn, IsCut
<1> QED
  BY <1>0, <1>1, <1>2

\* A function on the first n numbers is a sequence of length n.
LEMMA FunIsSeq ==
  ASSUME NEW S, NEW n \in Nat, NEW f \in [1 .. n -> S]
  PROVE  f \in Seq(S) /\ Len(f) = n /\ DOMAIN f = 1 .. n
<1>1. f \in Seq(S)
  BY SeqDef
<1>2. DOMAIN f = 1 .. n
  OBVIOUS
<1>3. Len(f) \in Nat /\ DOMAIN f = 1 .. Len(f)
  BY <1>1, LenProperties
<1> QED
  BY <1>1, <1>2, <1>3

-----------------------------------------------------------------------------
(* Sequences laid end to end                                               *)

\* q is the elements of D end to end; element c starts behind place off[c].
Joined(D, q, off) ==
  /\ \A c \in 1 .. Len(D) + 1 : off[c] \in 0 .. Len(q)
  /\ off[1] = 0 /\ off[Len(D) + 1] = Len(q)
  /\ \A c \in 1 .. Len(D) :
       /\ off[c + 1] = off[c] + Len(D[c])
       /\ \A y \in 1 .. Len(D[c]) : q[off[c] + y] = D[c][y]

\* Nothing joins to nothing.
LEMMA JoinedNone ==
  ASSUME NEW S, NEW D \in Seq(Seq(S)), NEW q \in Seq(S)
  PROVE  /\ \E off : Joined(<< >>, << >>, off)
         /\ \A off : Joined(D, q, off) /\ q # << >> => D # << >>
<1>1. ASSUME NEW off, off = [c \in 1 .. 1 |-> 0] PROVE Joined(<< >>, << >>, off)
  <2>1. Len(<< >>) = 0 /\ 1 .. 0 = {} /\ off[1] = 0 /\ 0 + 1 = 1 /\ 0 \in 0 .. 0
        /\ \A c \in 1 .. 1 : off[c] = 0
    BY <1>1
  <2> QED BY <2>1 DEF Joined
<1>2. ASSUME NEW off, Joined(<< >>, q, off) PROVE q = << >>
  <2>1. off[1] = 0 /\ off[0 + 1] = Len(q) /\ Len(<< >>) = 0
    BY <1>2 DEF Joined
  <2> QED BY <2>1
<1> QED BY <1>1, <1>2

\* A place within z places behind o.
LEMMA WithinSum ==
  ASSUME NEW l \in Nat, NEW o \in 0 .. l, NEW z \in Nat, o + z \in 0 .. l,
         NEW y \in 1 .. z
  PROVE  o + y \in 1 .. l
  OBVIOUS

\* One more sequence behind the others.
LEMMA JoinedMore ==
  ASSUME NEW S, NEW D \in Seq(Seq(S)), NEW q \in Seq(S), NEW d \in Seq(S),
         NEW off, Joined(D, q, off)
  PROVE  \E new : Joined(Append(D, d), q \o d, new)
<1>1. PICK n \in Nat, l \in Nat, m \in Nat : n = Len(D) /\ l = Len(q) /\ m = Len(d)
  BY LenProperties
<1> DEFINE E == Append(D, d)
           p == q \o d
           new == [c \in 1 .. n + 2 |-> IF c = n + 2 THEN l + m ELSE off[c]]
<1>2. /\ Len(E) = n + 1 /\ E[n + 1] = d
      /\ \A c \in 1 .. n : E[c] = D[c]
  BY <1>1, AppendProperties
<1>3. /\ Len(p) = l + m
      /\ \A y \in 1 .. l + m : p[y] = IF y <= l THEN q[y] ELSE d[y - l]
  BY <1>1, ConcatProperties
<1>4. /\ \A c \in 1 .. n + 1 : new[c] = off[c]
      /\ new[n + 2] = l + m
  <2>1. \A c \in 1 .. n + 1 : c \in 1 .. n + 2 /\ c # n + 2
    OBVIOUS
  <2>2. n + 2 \in 1 .. n + 2
    OBVIOUS
  <2> QED BY <2>1, <2>2
<1> HIDE DEF E, p, new
<1>5. /\ \A c \in 1 .. n + 1 : off[c] \in 0 .. l
      /\ off[1] = 0 /\ off[n + 1] = l
      /\ \A c \in 1 .. n : /\ off[c + 1] = off[c] + Len(D[c])
                           /\ \A y \in 1 .. Len(D[c]) : q[off[c] + y] = D[c][y]
  BY <1>1 DEF Joined
<1>6. \A c \in 1 .. n + 2 : new[c] \in 0 .. l + m
  <2>1. \A c \in 1 .. n + 2 : c \in 1 .. n + 1 \/ c = n + 2
    OBVIOUS
  <2>2. \A x \in 0 .. l : x \in 0 .. l + m
    OBVIOUS
  <2>3. l + m \in 0 .. l + m
    OBVIOUS
  <2> QED BY <1>4, <1>5, <2>1, <2>2, <2>3
<1>7. new[1] = 0 /\ new[n + 2] = l + m
  <2>1. 1 \in 1 .. n + 1
    OBVIOUS
  <2> QED BY <1>4, <1>5, <2>1
<1>8. ASSUME NEW c \in 1 .. n + 1
      PROVE  /\ new[c + 1] = new[c] + Len(E[c])
             /\ \A y \in 1 .. Len(E[c]) : p[new[c] + y] = E[c][y]
  <2>1. CASE c = n + 1
    <3>1. new[c] = l /\ new[c + 1] = l + m /\ E[c] = d
      BY <1>2, <1>4, <1>5, <2>1
    <3>2. ASSUME NEW y \in 1 .. m PROVE p[l + y] = d[y]
      <4>1. l + y \in 1 .. l + m /\ ~ (l + y <= l) /\ (l + y) - l = y
        OBVIOUS
      <4> QED BY <1>3, <4>1
    <3> QED BY <1>1, <3>1, <3>2
  <2>2. CASE c # n + 1
    <3>1. c \in 1 .. n /\ c + 1 \in 1 .. n + 1
      BY <2>2
    <3>2. /\ new[c] = off[c] /\ new[c + 1] = off[c + 1] /\ E[c] = D[c]
          /\ off[c + 1] = off[c] + Len(D[c])
          /\ off[c] \in 0 .. l /\ off[c + 1] \in 0 .. l
      BY <1>2, <1>4, <1>5, <3>1
    <3>3. Len(D[c]) \in Nat
      BY <1>1, <3>1, ElementOfSeq, LenProperties
    <3>4. ASSUME NEW y \in 1 .. Len(D[c]) PROVE p[off[c] + y] = D[c][y]
      <4>a. PICK o \in 0 .. l, z \in Nat : o = off[c] /\ z = Len(D[c]) /\ o + z \in 0 .. l
        BY <3>2, <3>3
      <4>b. y \in 1 .. z
        BY <4>a
      <4>c. o + y \in 1 .. l
        BY <4>a, <4>b, WithinSum
      <4>1. off[c] + y \in 1 .. l
        BY <4>a, <4>c
      <4>2. off[c] + y \in 1 .. l + m /\ off[c] + y <= l
        BY <4>1
      <4>3. p[off[c] + y] = q[off[c] + y]
        BY <1>3, <4>2
      <4>4. q[off[c] + y] = D[c][y]
        BY <1>5, <3>1
      <4> QED BY <4>3, <4>4
    <3> QED BY <3>2, <3>4
  <2> QED BY <2>1, <2>2
<1>9. n + 1 + 1 = n + 2
  OBVIOUS
<1>10. Joined(E, p, new)
  BY <1>2, <1>3, <1>6, <1>7, <1>8, <1>9 DEF Joined
<1> QED BY <1>10 DEF E, p

\* What follows the first sequence starts behind it.
LEMMA JoinedPast ==
  ASSUME NEW S, NEW D \in Seq(Seq(S)), D # << >>, NEW q \in Seq(S),
         NEW off, Joined(D, q, off), NEW c \in 2 .. Len(D) + 1
  PROVE  off[c] >= Len(D[1])
<1>a. PICK n \in Nat, l \in Nat : n = Len(D) /\ l = Len(q)
  BY LenProperties
<1>b. PICK z \in Nat : z = Len(D[1])
  <2>1. 1 \in 1 .. Len(D)
    BY <1>a, EmptySeq
  <2> QED BY <2>1, ElementOfSeq, LenProperties
<1>c. c \in 2 .. n + 1 /\ n > 0
  BY <1>a, EmptySeq
<1>d. /\ \A x \in 1 .. n + 1 : off[x] \in 0 .. l
      /\ off[1] = 0
      /\ \A x \in 1 .. n : off[x + 1] = off[x] + Len(D[x])
  BY <1>a DEF Joined
<1>e. off[2] = z
  <2>1. 1 \in 1 .. n /\ 1 + 1 = 2
    BY <1>c
  <2> QED BY <1>b, <1>d, <2>1
<1> DEFINE T == {x \in 2 .. n + 1 : off[x] < z}
<1>1. T \in SUBSET Nat
  OBVIOUS
<1>2. CASE T = {}
  <2>1. off[c] \in 0 .. l /\ ~ (off[c] < z)
    <3>1. c \in 1 .. n + 1
      BY <1>c
    <3>2. off[c] \in 0 .. l
      BY <1>d, <3>1
    <3>3. ~ (off[c] < z)
      BY <1>2, <1>c
    <3> QED BY <3>2, <3>3
  <2> QED BY <1>b, <2>1
<1>3. CASE T # {}
  <2> HIDE DEF T
  <2>1. PICK x \in T : \A y \in T : x <= y
    BY <1>1, <1>3, LeastNat
  <2>2. x \in 2 .. n + 1 /\ off[x] < z
    BY <2>1 DEF T
  <2>3. x # 2
    BY <1>e, <2>2
  <2>4. PICK w \in 2 .. n : x = w + 1
    BY <2>2, <2>3
  <2>5. w \in 1 .. n /\ w \in 2 .. n + 1 /\ w \in 1 .. n + 1 /\ w \notin T
    BY <2>1, <2>4
  <2>6. off[w] \in 0 .. l /\ ~ (off[w] < z) /\ off[x] = off[w] + Len(D[w])
        /\ Len(D[w]) \in Nat
    <3>1. off[w] \in 0 .. l /\ ~ (off[w] < z)
      BY <1>d, <2>5 DEF T
    <3>2. off[x] = off[w] + Len(D[w])
      BY <1>d, <2>4, <2>5
    <3>3. D[w] \in Seq(S)
      <4>1. PICK T1 : T1 = Seq(S)
        OBVIOUS
      <4>2. D \in Seq(T1) /\ w \in 1 .. Len(D)
        BY <1>a, <2>5, <4>1
      <4>3. D[w] \in T1
        BY <4>2, ElementOfSeq
      <4> QED BY <4>1, <4>3
    <3>4. Len(D[w]) \in Nat
      BY <3>3, LenProperties
    <3> QED BY <3>1, <3>2, <3>4
  <2>7. PICK u \in Nat, v \in Nat : u = off[w] /\ v = Len(D[w])
    BY <1>b, <2>6
  <2>8. ~ (u < z) /\ u + v < z
    BY <2>2, <2>6, <2>7, Zenon
  <2>9. FALSE
    BY <2>8
  <2> QED BY <2>9
<1> QED BY <1>2, <1>3

\* What is left of q behind its first n elements.
Behind(q, n) == SubSeq(q, n + 1, Len(q))

\* What is left of a queue of which n elements are taken.
LEMMA BehindProperties ==
  ASSUME NEW S, NEW q \in Seq(S), NEW n \in 0 .. Len(q)
  PROVE  /\ Behind(q, n) \in Seq(S) /\ Len(Behind(q, n)) = Len(q) - n
         /\ \A y \in 1 .. Len(q) - n : Behind(q, n)[y] = q[n + y]
<1>1. PICK l \in Nat : l = Len(q) /\ n \in 0 .. l
  BY LenProperties
<1>2. \A i \in n + 1 .. l : q[i] \in S
  <2>1. \A i \in n + 1 .. l : i \in 1 .. l
    BY <1>1
  <2> QED BY <1>1, <2>1, ElementOfSeq
<1>3. n + 1 \in Int /\ l \in Int /\ l - (n + 1) + 1 = l - n
      /\ \A y \in 1 .. l - n : (n + 1) + y - 1 = n + y
  BY <1>1
<1>4. /\ SubSeq(q, n + 1, l) \in Seq(S)
      /\ Len(SubSeq(q, n + 1, l)) = IF n + 1 <= l THEN l - (n + 1) + 1 ELSE 0
      /\ \A y \in 1 .. l - (n + 1) + 1 : SubSeq(q, n + 1, l)[y] = q[(n + 1) + y - 1]
  BY <1>2, <1>3, SubSeqProperties
<1>5. Len(SubSeq(q, n + 1, l)) = l - n
  BY <1>1, <1>4
<1>6. \A y \in 1 .. l - n : SubSeq(q, n + 1, l)[y] = q[n + y]
  BY <1>3, <1>4
<1> QED BY <1>1, <1>4, <1>5, <1>6 DEF Behind

\* The first of the sequences laid end to end starts the whole; the others
\* are left when it is taken.
LEMMA JoinedTake ==
  ASSUME NEW S, NEW D \in Seq(Seq(S)), D # << >>, NEW q \in Seq(S),
         NEW off, Joined(D, q, off)
  PROVE  /\ Len(Head(D)) <= Len(q)
         /\ \A y \in 1 .. Len(Head(D)) : q[y] = Head(D)[y]
         /\ \E new : Joined(Tail(D), Behind(q, Len(Head(D))), new)
<1>1. PICK n \in Nat, l \in Nat : n = Len(D) /\ l = Len(q)
  BY LenProperties
<1>2. /\ n > 0 /\ Head(D) = D[1] /\ Len(Tail(D)) = n - 1
      /\ \A c \in 1 .. n - 1 : Tail(D)[c] = D[c + 1]
  BY <1>1, EmptySeq, HeadTailProperties
<1>3. PICK z \in Nat : z = Len(D[1])
  BY <1>1, <1>2, ElementOfSeq, LenProperties
<1>4. /\ \A c \in 1 .. n + 1 : off[c] \in 0 .. l
      /\ off[1] = 0 /\ off[n + 1] = l
      /\ \A c \in 1 .. n : /\ off[c + 1] = off[c] + Len(D[c])
                           /\ \A y \in 1 .. Len(D[c]) : q[off[c] + y] = D[c][y]
  BY <1>1 DEF Joined
<1>5. z <= l /\ off[2] = z
  <2>1. 1 \in 1 .. n /\ 2 \in 1 .. n + 1 /\ 1 + 1 = 2
    BY <1>2
  <2>2. off[2] = z /\ off[2] \in 0 .. l
    BY <1>3, <1>4, <2>1
  <2> QED BY <2>2
<1>6. ASSUME NEW y \in 1 .. z PROVE q[y] = D[1][y]
  <2>1. 1 \in 1 .. n /\ off[1] + y = y
    BY <1>2, <1>4
  <2> QED BY <1>3, <1>4, <2>1
<1> DEFINE p == Behind(q, z)
           E == Tail(D)
           new == [c \in 1 .. n |-> off[c + 1] - z]
<1>7. Len(p) = l - z /\ \A y \in 1 .. l - z : p[y] = q[z + y]
  <2>1. z \in 0 .. Len(q)
    BY <1>1, <1>5
  <2> QED BY <1>1, <2>1, BehindProperties
<1>8. \A c \in 1 .. n : new[c] = off[c + 1] - z
  OBVIOUS
<1>9. Len(E) = n - 1 /\ \A c \in 1 .. n - 1 : E[c] = D[c + 1]
  BY <1>2
<1> HIDE DEF p, E, new
<1>10. \A c \in 2 .. n + 1 : off[c] >= z
  BY <1>1, <1>2, <1>3, JoinedPast
<1>11. \A c \in 1 .. n : new[c] \in 0 .. l - z
  <2> SUFFICES ASSUME NEW c \in 1 .. n PROVE new[c] \in 0 .. l - z
    OBVIOUS
  <2>1. c + 1 \in 2 .. n + 1 /\ c + 1 \in 1 .. n + 1
    OBVIOUS
  <2>2. PICK o \in 0 .. l : o = off[c + 1] /\ o >= z
    BY <1>4, <1>10, <2>1
  <2>3. o - z \in 0 .. l - z
    BY <1>5, <2>2
  <2> QED BY <1>8, <2>2, <2>3
<1>12. new[1] = 0 /\ new[n] = l - z
  <2>1. 1 \in 1 .. n /\ n \in 1 .. n /\ 1 + 1 = 2 /\ z - z = 0
    BY <1>2
  <2> QED BY <1>4, <1>5, <1>8, <2>1
<1>13. ASSUME NEW c \in 1 .. n - 1
       PROVE  /\ new[c + 1] = new[c] + Len(E[c])
              /\ \A y \in 1 .. Len(E[c]) : p[new[c] + y] = E[c][y]
  <2>1. /\ c \in 1 .. n /\ c + 1 \in 1 .. n /\ c + 1 \in 1 .. n + 1
        /\ (c + 1) + 1 \in 1 .. n + 1 /\ c + 1 \in 2 .. n + 1
    OBVIOUS
  <2>2. PICK o \in Nat, m \in Nat : o = off[c + 1] /\ m = Len(D[c + 1])
    <3>1. off[c + 1] \in 0 .. l
      BY <1>4, <2>1
    <3>2. D[c + 1] \in Seq(S)
      BY <1>1, <2>1, ElementOfSeq
    <3> QED BY <3>1, <3>2, LenProperties
  <2>3. off[(c + 1) + 1] = o + m /\ o >= z /\ o + m <= l
    <3>1. PICK e \in 0 .. l : e = off[(c + 1) + 1]
      BY <1>4, <2>1
    <3>2. e = o + m
      BY <1>4, <2>1, <2>2, <3>1
    <3>3. o >= z
      BY <1>10, <2>1, <2>2
    <3> QED BY <3>1, <3>2, <3>3
  <2>4. new[c] = o - z /\ new[c + 1] = (o + m) - z
    <3>1. new[c] = off[c + 1] - z /\ new[c + 1] = off[(c + 1) + 1] - z
      BY <1>8, <2>1
    <3>2. off[c + 1] = o /\ off[(c + 1) + 1] = o + m
      BY <2>2, <2>3
    <3> QED BY <3>1, <3>2, Zenon
  <2>5. ASSUME NEW y \in 1 .. m PROVE p[(o - z) + y] = D[c + 1][y]
    <3>1. (o - z) + y \in 1 .. l - z /\ z + ((o - z) + y) = o + y
      BY <2>3
    <3>2. p[(o - z) + y] = q[o + y]
      BY <1>7, <3>1
    <3> QED BY <1>4, <2>1, <2>2, <3>2
  <2>6. E[c] = D[c + 1]
    BY <1>9
  <2>7. new[c + 1] = new[c] + m
    BY <2>4
  <2> QED BY <2>2, <2>4, <2>5, <2>6, <2>7
<1>14. Joined(E, p, new)
  <2>1. (n - 1) + 1 = n
    OBVIOUS
  <2> QED BY <1>7, <1>9, <1>11, <1>12, <1>13, <2>1 DEF Joined
<1>15. z = Len(Head(D)) /\ D[1] = Head(D)
  BY <1>2, <1>3
<1>16. Joined(Tail(D), Behind(q, Len(Head(D))), new)
  BY <1>14, <1>15 DEF E, p
<1> HIDE DEF Joined
<1> QED BY <1>1, <1>5, <1>6, <1>15, <1>16

\* A single element is taken of the first sequence, which is longer.
LEMMA JoinedTakeOne ==
  ASSUME NEW S, NEW D \in Seq(Seq(S)), D # << >>, Len(Head(D)) > 1, NEW q \in Seq(S),
         NEW off, Joined(D, q, off)
  PROVE  \E new : Joined([D EXCEPT ![1] = Tail(@)], Behind(q, 1), new)
<1>1. PICK n \in Nat, l \in Nat : n = Len(D) /\ l = Len(q)
  BY LenProperties
<1>2. n > 0 /\ Head(D) = D[1] /\ D[1] \in Seq(S)
  BY <1>1, EmptySeq, HeadTailProperties
<1>3. PICK z \in Nat : z = Len(D[1]) /\ z > 1
  BY <1>2, LenProperties
<1> DEFINE p == Behind(q, 1)
           d == Tail(D[1])
           E == [D EXCEPT ![1] = d]
           new == [c \in 1 .. n + 1 |-> IF c = 1 THEN 0 ELSE off[c] - 1]
<1>4. D[1] # << >> /\ d \in Seq(S) /\ Len(d) = z - 1 /\ \A y \in 1 .. z - 1 : d[y] = D[1][y + 1]
  BY <1>2, <1>3, EmptySeq, HeadTailProperties
<1>5. /\ \A c \in 1 .. n + 1 : off[c] \in 0 .. l
      /\ off[1] = 0 /\ off[n + 1] = l
      /\ \A c \in 1 .. n : /\ off[c + 1] = off[c] + Len(D[c])
                           /\ \A y \in 1 .. Len(D[c]) : q[off[c] + y] = D[c][y]
  BY <1>1 DEF Joined
<1>6. \A c \in 2 .. n + 1 : off[c] >= z
  BY <1>1, <1>3, JoinedPast
<1>7. l >= z
  <2>1. n + 1 \in 2 .. n + 1
    BY <1>2
  <2> QED BY <1>5, <1>6, <2>1
<1>8. Len(p) = l - 1 /\ \A y \in 1 .. l - 1 : p[y] = q[1 + y]
  <2>1. 1 \in 0 .. l
    BY <1>3, <1>7
  <2> QED BY <1>1, <2>1, BehindProperties
<1>9. Len(E) = n /\ \A c \in 1 .. n : E[c] = IF c = 1 THEN d ELSE D[c]
  <2>1. 1 \in 1 .. Len(D)
    BY <1>1, <1>2
  <2> HIDE DEF d
  <2> QED BY <1>1, <1>4, <2>1, ExceptSeq
<1>10. \A c \in 1 .. n + 1 : new[c] = IF c = 1 THEN 0 ELSE off[c] - 1
  OBVIOUS
<1>11. E = [D EXCEPT ![1] = Tail(@)]
  OBVIOUS
<1> HIDE DEF p, E, new, d
<1>12. \A c \in 1 .. n + 1 : new[c] \in 0 .. l - 1
  <2> SUFFICES ASSUME NEW c \in 1 .. n + 1 PROVE new[c] \in 0 .. l - 1
    OBVIOUS
  <2>1. CASE c = 1
    BY <1>3, <1>7, <1>10, <2>1
  <2>2. CASE c # 1
    <3>1. c \in 2 .. n + 1
      BY <2>2
    <3>2. PICK o \in 0 .. l : o = off[c] /\ o >= z
      BY <1>5, <1>6, <3>1
    <3>3. o - 1 \in 0 .. l - 1
      BY <1>3, <3>2
    <3> QED BY <1>10, <2>2, <3>2, <3>3
  <2> QED BY <2>1, <2>2
<1>13. new[1] = 0 /\ new[n + 1] = l - 1
  <2>1. 1 \in 1 .. n + 1 /\ n + 1 \in 1 .. n + 1 /\ n + 1 # 1
    BY <1>2
  <2> QED BY <1>5, <1>10, <2>1
<1>14. ASSUME NEW c \in 1 .. n
       PROVE  /\ new[c + 1] = new[c] + Len(E[c])
              /\ \A y \in 1 .. Len(E[c]) : p[new[c] + y] = E[c][y]
  <2>1. c \in 1 .. n + 1 /\ c + 1 \in 1 .. n + 1 /\ c + 1 # 1
    OBVIOUS
  <2>2. PICK o \in Nat, m \in Nat : o = off[c] /\ m = Len(D[c])
    <3>1. off[c] \in 0 .. l
      BY <1>5, <2>1
    <3>2. D[c] \in Seq(S)
      BY <1>1, ElementOfSeq
    <3> QED BY <3>1, <3>2, LenProperties
  <2>3. off[c + 1] = o + m /\ o + m <= l /\ new[c + 1] = o + m - 1
    <3>1. off[c + 1] \in 0 .. l
      BY <1>5, <2>1
    <3>2. off[c + 1] = o + m
      BY <1>5, <2>2
    <3>3. new[c + 1] = off[c + 1] - 1
      BY <1>10, <2>1
    <3> QED BY <3>1, <3>2, <3>3
  <2>4. \A y \in 1 .. m : q[o + y] = D[c][y]
    BY <1>5, <2>2
  <2>5. CASE c = 1
    <3>1. o = 0 /\ m = z /\ new[c] = 0 /\ E[c] = d
      BY <1>3, <1>5, <1>9, <1>10, <2>1, <2>2, <2>5
    <3>2. ASSUME NEW y \in 1 .. z - 1 PROVE p[0 + y] = d[y]
      <4>1. y \in 1 .. l - 1 /\ y + 1 \in 1 .. m /\ 0 + y = y /\ o + (y + 1) = 1 + y
        BY <1>7, <3>1
      <4>2. q[o + (y + 1)] = D[c][y + 1]
        BY <2>4, <4>1
      <4>3. p[y] = q[1 + y]
        BY <1>8, <4>1
      <4> QED BY <1>4, <2>5, <4>1, <4>2, <4>3
    <3>3. new[c + 1] = new[c] + Len(d)
      BY <1>4, <2>3, <3>1
    <3>4. \A y \in 1 .. Len(d) : p[0 + y] = d[y]
      BY <1>4, <3>2
    <3> QED BY <3>1, <3>3, <3>4
  <2>6. CASE c # 1
    <3>1. c \in 2 .. n + 1 /\ new[c] = o - 1 /\ E[c] = D[c]
      BY <1>9, <1>10, <2>1, <2>2, <2>6
    <3>2. o >= z
      BY <1>6, <2>2, <3>1
    <3>3. ASSUME NEW y \in 1 .. m PROVE p[(o - 1) + y] = D[c][y]
      <4>1. (o - 1) + y \in 1 .. l - 1 /\ 1 + ((o - 1) + y) = o + y
        BY <1>3, <2>3, <3>2
      <4> QED BY <1>8, <2>4, <4>1
    <3>4. new[c + 1] = new[c] + m
      BY <2>3, <3>1
    <3> QED BY <2>2, <3>1, <3>3, <3>4
  <2> QED BY <2>5, <2>6
<1>15. Joined(E, p, new)
  BY <1>8, <1>9, <1>12, <1>13, <1>14 DEF Joined
<1> QED BY <1>11, <1>15 DEF p

\* Sequences end to end are what FlattenSeq makes of them.
LEMMA JoinedFlat ==
  ASSUME NEW S, NEW D \in Seq(Seq(S)), NEW q \in Seq(S), NEW off, Joined(D, q, off)
  PROVE  FlattenSeq(D) = q
<1>1. PICK n \in Nat, l \in Nat : n = Len(D) /\ l = Len(q)
  BY LenProperties
<1>2. CASE n = 0
  <2>1. D = << >> /\ Len(D) = 0
    BY <1>1, <1>2, EmptySeq
  <2>2. FlattenSeq(D) = << >>
    BY <2>1 DEF FlattenSeq
  <2>3. q = << >>
    BY <2>1, JoinedNone
  <2> QED BY <2>2, <2>3
<1>3. CASE n > 0
  <2> DEFINE P(g) == g = [i \in 1 .. n |-> IF i = 1 THEN D[i] ELSE g[i - 1] \o D[i]]
             h == [i \in 1 .. n |-> SubSeq(q, 1, off[i + 1])]
             f == CHOOSE g : P(g)
  <2>1. FlattenSeq(D) = f[n]
    BY <1>1, <1>3 DEF FlattenSeq
  <2>2. /\ \A c \in 1 .. n + 1 : off[c] \in 0 .. l
        /\ off[1] = 0 /\ off[n + 1] = l
        /\ \A c \in 1 .. n : /\ off[c + 1] = off[c] + Len(D[c])
                             /\ \A y \in 1 .. Len(D[c]) : q[off[c] + y] = D[c][y]
    BY <1>1 DEF Joined
  <2>3. ASSUME NEW m \in 0 .. l
        PROVE  /\ SubSeq(q, 1, m) \in Seq(S) /\ Len(SubSeq(q, 1, m)) = m
               /\ \A y \in 1 .. m : SubSeq(q, 1, m)[y] = q[y]
    <3>1. \A i \in 1 .. m : q[i] \in S
      BY <1>1, ElementOfSeq
    <3>2. \A y \in 1 .. m - 1 + 1 : 1 + y - 1 = y
      OBVIOUS
    <3>3. m - 1 + 1 = m /\ 1 \in Int /\ m \in Int
      OBVIOUS
    <3>4. /\ SubSeq(q, 1, m) \in Seq(S)
          /\ Len(SubSeq(q, 1, m)) = IF 1 <= m THEN m - 1 + 1 ELSE 0
          /\ \A y \in 1 .. m - 1 + 1 : SubSeq(q, 1, m)[y] = q[1 + y - 1]
      BY <3>1, <3>3, SubSeqProperties
    <3>5. Len(SubSeq(q, 1, m)) = m
      BY <3>4
    <3> QED BY <3>2, <3>3, <3>4, <3>5
  <2>4. ASSUME NEW c \in 1 .. n
        PROVE  /\ c = 1 => SubSeq(q, 1, off[c + 1]) = D[c]
               /\ SubSeq(q, 1, off[c]) \o D[c] = SubSeq(q, 1, off[c + 1])
    <3>1. c \in 1 .. n + 1 /\ c + 1 \in 1 .. n + 1
      OBVIOUS
    <3>2. PICK o \in 0 .. l, e \in 0 .. l : o = off[c] /\ e = off[c + 1]
      BY <2>2, <3>1
    <3>3. D[c] \in Seq(S)
      BY <1>1, ElementOfSeq
    <3>4. PICK m \in Nat : m = Len(D[c])
      BY <3>3, LenProperties
    <3>5. e = o + m /\ \A y \in 1 .. m : q[o + y] = D[c][y]
      BY <2>2, <3>2, <3>4
    <3>6. /\ SubSeq(q, 1, o) \in Seq(S) /\ Len(SubSeq(q, 1, o)) = o
          /\ \A y \in 1 .. o : SubSeq(q, 1, o)[y] = q[y]
      BY <2>3
    <3>7. /\ SubSeq(q, 1, e) \in Seq(S) /\ Len(SubSeq(q, 1, e)) = e
          /\ \A y \in 1 .. e : SubSeq(q, 1, e)[y] = q[y]
      BY <2>3
    <3> DEFINE a == SubSeq(q, 1, o)
               b == SubSeq(q, 1, e)
    <3> HIDE DEF a, b
    <3>8. /\ a \o D[c] \in Seq(S) /\ Len(a \o D[c]) = o + m
          /\ \A y \in 1 .. o + m : (a \o D[c])[y] = IF y <= o THEN a[y] ELSE D[c][y - o]
      <4>1. a \in Seq(S) /\ Len(a) = o
        BY <3>6 DEF a
      <4> QED BY <3>3, <3>4, <4>1, ConcatProperties
    <3>9. ASSUME NEW y \in 1 .. e PROVE (a \o D[c])[y] = b[y]
      <4>1. b[y] = q[y]
        BY <3>7 DEF b
      <4>2. CASE y <= o
        <5>1. a[y] = q[y]
          BY <3>6, <4>2 DEF a
        <5> QED BY <3>5, <3>8, <4>1, <4>2, <5>1
      <4>3. CASE y > o
        <5>1. y - o \in 1 .. m /\ o + (y - o) = y /\ y \in 1 .. o + m /\ ~ (y <= o)
          BY <3>5, <4>3
        <5>2. D[c][y - o] = q[y]
          BY <3>5, <5>1
        <5> QED BY <3>8, <4>1, <5>1, <5>2
      <4>4. y <= o \/ y > o
        OBVIOUS
      <4> QED BY <4>2, <4>3, <4>4
    <3>10. a \o D[c] = b
      <4>1. b \in Seq(S) /\ Len(b) = e
        BY <3>7 DEF b
      <4>2. Len(a \o D[c]) = Len(b) /\ \A y \in 1 .. Len(a \o D[c]) : (a \o D[c])[y] = b[y]
        BY <3>5, <3>8, <3>9, <4>1
      <4> QED BY <3>8, <4>1, <4>2, SeqEqual
    <3>11. c = 1 => a = << >>
      <4>1. c = 1 => o = 0
        BY <2>2, <3>2
      <4>2. a \in Seq(S) /\ Len(a) = o
        BY <3>6 DEF a
      <4> QED BY <4>1, <4>2, EmptySeq
    <3>12. c = 1 => b = D[c]
      BY <3>3, <3>10, <3>11, ConcatEmptySeq
    <3> QED BY <3>2, <3>10, <3>12 DEF a, b
  <2>5. P(h)
    <3>1. ASSUME NEW i \in 1 .. n
          PROVE  SubSeq(q, 1, off[i + 1]) = IF i = 1 THEN D[i] ELSE h[i - 1] \o D[i]
      <4>1. CASE i = 1
        BY <2>4, <4>1
      <4>2. CASE i # 1
        <5>1. i - 1 \in 1 .. n /\ (i - 1) + 1 = i
          BY <4>2
        <5>2. h[i - 1] = SubSeq(q, 1, off[i])
          BY <5>1
        <5> HIDE DEF h
        <5> QED BY <2>4, <4>2, <5>2
      <4> QED BY <4>1, <4>2
    <3> QED BY <3>1
  <2>6. P(f)
    <3> HIDE DEF h
    <3>1. \E g : P(g)
      BY <2>5
    <3> HIDE DEF P
    <3> QED BY <3>1
  <2>7. \A i \in 1 .. n : f[i] = IF i = 1 THEN D[i] ELSE f[i - 1] \o D[i]
    <3> HIDE DEF f
    <3> QED BY <2>6
  <2>8. \A i \in 1 .. n : h[i] = SubSeq(q, 1, off[i + 1])
    OBVIOUS
  <2> HIDE DEF P, f, h
  <2>9. f[n] = h[n]
    <3> DEFINE T == {i \in 1 .. n : f[i] # h[i]}
    <3>1. CASE T # {}
      <4>1. T \in SUBSET Nat
        OBVIOUS
      <4> HIDE DEF T
      <4>2. PICK i \in T : \A j \in T : i <= j
        BY <3>1, <4>1, LeastNat
      <4>3. i \in 1 .. n /\ f[i] # h[i]
        BY <4>2 DEF T
      <4>4. CASE i = 1
        BY <2>4, <2>7, <2>8, <4>3, <4>4
      <4>5. CASE i # 1
        <5>1. i - 1 \in 1 .. n /\ (i - 1) + 1 = i /\ ~ (i <= i - 1)
          BY <4>3, <4>5
        <5>2. f[i - 1] = h[i - 1]
          <6>1. i - 1 \notin T
            BY <4>2, <5>1
          <6> QED BY <5>1, <6>1 DEF T
        <5>3. h[i - 1] = SubSeq(q, 1, off[i])
          BY <2>8, <5>1
        <5>4. f[i] = f[i - 1] \o D[i]
          BY <2>7, <4>3, <4>5
        <5>5. h[i] = SubSeq(q, 1, off[i]) \o D[i]
          BY <2>4, <2>8, <4>3
        <5> QED BY <4>3, <5>2, <5>3, <5>4, <5>5
      <4> QED BY <4>4, <4>5
    <3>2. CASE T = {}
      <4>1. n \in 1 .. n
        BY <1>3
      <4> QED BY <3>2, <4>1
    <3> QED BY <3>1, <3>2
  <2>10. h[n] = q
    <3>1. n \in 1 .. n /\ off[n + 1] = Len(q)
      BY <1>1, <1>3, <2>2
    <3>2. h[n] = SubSeq(q, 1, Len(q))
      BY <2>8, <3>1
    <3> QED BY <3>2, SubSeqFull
  <2> QED BY <2>1, <2>9, <2>10
<1> QED BY <1>1, <1>2, <1>3

\* Two ends laid one behind the other.
LEMMA JoinedBoth ==
  ASSUME NEW S, NEW D \in Seq(Seq(S)), NEW q \in Seq(S), NEW a, Joined(D, q, a),
         NEW E \in Seq(Seq(S)), NEW p \in Seq(S), NEW b, Joined(E, p, b)
  PROVE  \E new : Joined(D \o E, q \o p, new)
<1>1. PICK n \in Nat, m \in Nat, k \in Nat, l \in Nat :
        n = Len(D) /\ m = Len(E) /\ k = Len(q) /\ l = Len(p)
  BY LenProperties
<1>2. PICK F : F = D \o E
  OBVIOUS
<1>3. PICK s : s = q \o p
  OBVIOUS
<1>4. /\ Len(F) = n + m
      /\ \A c \in 1 .. n : F[c] = D[c]
      /\ \A c \in 1 .. m : F[n + c] = E[c]
  <2>1. /\ Len(F) = n + m
        /\ \A c \in 1 .. n + m : F[c] = IF c <= n THEN D[c] ELSE E[c - n]
    BY <1>1, <1>2, ConcatProperties
  <2>2. ASSUME NEW c \in 1 .. m PROVE F[n + c] = E[c]
    <3>1. n + c \in 1 .. n + m /\ ~ (n + c <= n) /\ (n + c) - n = c
      OBVIOUS
    <3> QED BY <2>1, <3>1
  <2>3. \A c \in 1 .. n : c \in 1 .. n + m /\ c <= n
    OBVIOUS
  <2> QED BY <2>1, <2>2, <2>3
<1>5. /\ Len(s) = k + l
      /\ \A y \in 1 .. k : s[y] = q[y]
      /\ \A y \in 1 .. l : s[k + y] = p[y]
  <2>1. /\ Len(s) = k + l
        /\ \A y \in 1 .. k + l : s[y] = IF y <= k THEN q[y] ELSE p[y - k]
    BY <1>1, <1>3, ConcatProperties
  <2>2. ASSUME NEW y \in 1 .. l PROVE s[k + y] = p[y]
    <3>1. k + y \in 1 .. k + l /\ ~ (k + y <= k) /\ (k + y) - k = y
      OBVIOUS
    <3> QED BY <2>1, <3>1
  <2>3. \A y \in 1 .. k : y \in 1 .. k + l /\ y <= k
    OBVIOUS
  <2> QED BY <2>1, <2>2, <2>3
<1>6. /\ \A c \in 1 .. n + 1 : a[c] \in 0 .. k
      /\ a[1] = 0 /\ a[n + 1] = k
      /\ \A c \in 1 .. n : /\ a[c + 1] = a[c] + Len(D[c])
                           /\ \A y \in 1 .. Len(D[c]) : q[a[c] + y] = D[c][y]
  BY <1>1 DEF Joined
<1>7. /\ \A c \in 1 .. m + 1 : b[c] \in 0 .. l
      /\ b[1] = 0 /\ b[m + 1] = l
      /\ \A c \in 1 .. m : /\ b[c + 1] = b[c] + Len(E[c])
                           /\ \A y \in 1 .. Len(E[c]) : p[b[c] + y] = E[c][y]
  BY <1>1 DEF Joined
<1>8. PICK new : new = [c \in 1 .. (n + m) + 1 |-> IF c <= n THEN a[c] ELSE k + b[c - n]]
  OBVIOUS
<1>9. \A c \in 1 .. n : new[c] = a[c]
  <2>1. \A c \in 1 .. n : c \in 1 .. (n + m) + 1 /\ c <= n
    OBVIOUS
  <2> QED BY <1>8, <2>1
<1>10. \A c \in 1 .. m + 1 : new[n + c] = k + b[c]
  <2> SUFFICES ASSUME NEW c \in 1 .. m + 1 PROVE new[n + c] = k + b[c]
    OBVIOUS
  <2>1. n + c \in 1 .. (n + m) + 1 /\ ~ (n + c <= n) /\ (n + c) - n = c
    OBVIOUS
  <2> QED BY <1>8, <2>1
<1>11. new[n + 1] = k /\ new[(n + m) + 1] = k + l
  <2>1. 1 \in 1 .. m + 1 /\ m + 1 \in 1 .. m + 1 /\ n + (m + 1) = (n + m) + 1 /\ k + 0 = k
    OBVIOUS
  <2> QED BY <1>7, <1>10, <2>1
<1>12. new[1] = 0
  <2>1. CASE n = 0
    <3>1. n + 1 = 1 /\ n + 1 = 0 + 1
      BY <2>1
    <3>2. k = 0
      BY <1>6, <3>1
    <3> QED BY <1>11, <3>1, <3>2
  <2>2. CASE n # 0
    <3>1. 1 \in 1 .. n
      BY <2>2
    <3> QED BY <1>6, <1>9, <3>1
  <2> QED BY <2>1, <2>2
<1>13. ASSUME NEW c \in 1 .. (n + m) + 1 PROVE new[c] \in 0 .. k + l
  <2>1. CASE c <= n
    <3>1. c \in 1 .. n /\ c \in 1 .. n + 1
      BY <2>1
    <3>2. a[c] \in 0 .. k
      BY <1>6, <3>1
    <3>3. \A x \in 0 .. k : x \in 0 .. k + l
      OBVIOUS
    <3> QED BY <1>9, <3>1, <3>2, <3>3
  <2>2. CASE ~ (c <= n)
    <3>1. PICK e \in 1 .. m + 1 : e = c - n
      BY <2>2
    <3>2. c = n + e
      BY <3>1
    <3>3. b[e] \in 0 .. l
      BY <1>7
    <3>4. \A x \in 0 .. l : k + x \in 0 .. k + l
      OBVIOUS
    <3> QED BY <1>10, <3>2, <3>3, <3>4
  <2> QED BY <2>1, <2>2
<1>14. ASSUME NEW c \in 1 .. n + m
       PROVE  /\ new[c + 1] = new[c] + Len(F[c])
              /\ \A y \in 1 .. Len(F[c]) : s[new[c] + y] = F[c][y]
  <2>1. CASE c <= n
    <3>1. c \in 1 .. n /\ c \in 1 .. n + 1 /\ c + 1 \in 1 .. n + 1
      BY <2>1
    <3>2. new[c] = a[c] /\ F[c] = D[c]
      BY <1>4, <1>9, <3>1
    <3>3. new[c + 1] = a[c + 1]
      <4>1. CASE c + 1 \in 1 .. n
        BY <1>9, <4>1
      <4>2. CASE c + 1 = n + 1
        BY <1>6, <1>11, <4>2
      <4> QED BY <3>1, <4>1, <4>2
    <3>4. PICK z \in Nat : z = Len(D[c])
      BY <1>1, <3>1, ElementOfSeq, LenProperties
    <3>5. PICK o \in 0 .. k : o = a[c]
      BY <1>6, <3>1
    <3>6. o + z \in 0 .. k
      BY <1>6, <3>1, <3>4, <3>5
    <3>7. ASSUME NEW y \in 1 .. z PROVE s[o + y] = D[c][y]
      <4>1. o + y \in 1 .. k
        BY <3>6, WithinSum
      <4>2. s[o + y] = q[o + y]
        BY <1>5, <4>1
      <4> QED BY <1>6, <3>1, <3>4, <3>5, <4>2
    <3> QED BY <1>6, <3>1, <3>2, <3>3, <3>4, <3>5, <3>7
  <2>2. CASE ~ (c <= n)
    <3>1. PICK e \in 1 .. m : e = c - n
      BY <2>2
    <3>2. c = n + e /\ c + 1 = n + (e + 1) /\ e + 1 \in 1 .. m + 1 /\ e \in 1 .. m + 1
      BY <3>1
    <3>3. new[c] = k + b[e] /\ new[c + 1] = k + b[e + 1] /\ F[c] = E[e]
      BY <1>4, <1>10, <3>2
    <3>4. PICK z \in Nat : z = Len(E[e])
      BY <1>1, ElementOfSeq, LenProperties
    <3>5. PICK o \in 0 .. l : o = b[e]
      BY <1>7, <3>2
    <3>6. b[e + 1] = o + z /\ o + z \in 0 .. l
      <4>1. b[e + 1] = o + z /\ b[e + 1] \in 0 .. l
        BY <1>7, <3>2, <3>4, <3>5
      <4> QED BY <4>1
    <3>7. ASSUME NEW y \in 1 .. z PROVE s[(k + o) + y] = E[e][y]
      <4>1. o + y \in 1 .. l /\ (k + o) + y = k + (o + y)
        BY <3>6, WithinSum
      <4>2. s[k + (o + y)] = p[o + y]
        BY <1>5, <4>1
      <4> QED BY <1>7, <3>4, <3>5, <4>1, <4>2
    <3>8. k + (o + z) = (k + o) + z
      OBVIOUS
    <3> QED BY <3>3, <3>4, <3>5, <3>6, <3>7, <3>8
  <2> QED BY <2>1, <2>2
<1>15. Joined(F, s, new)
  BY <1>4, <1>5, <1>11, <1>12, <1>13, <1>14 DEF Joined
<1> QED BY <1>2, <1>3, <1>15

\* The n sequences of D are the pieces of g elements of q.
EvenPieces(D, q, g, n) ==
  /\ Len(D) = n /\ Len(q) = g * n
  /\ \A c \in 1 .. n : /\ Len(D[c]) = g
                       /\ \A y \in 1 .. g : D[c][y] = q[(c - 1) * g + y]

\* Pieces of one length are laid end to end.
LEMMA JoinedEqual ==
  ASSUME NEW g \in Nat \ {0}, NEW n \in Nat, NEW D, NEW q, EvenPieces(D, q, g, n)
  PROVE  \E off : Joined(D, q, off)
<1>a. /\ Len(D) = n /\ Len(q) = g * n
      /\ \A c \in 1 .. n : /\ Len(D[c]) = g
                           /\ \A y \in 1 .. g : D[c][y] = q[(c - 1) * g + y]
  BY DEF EvenPieces
<1>1. PICK off : off = [c \in 1 .. n + 1 |-> (c - 1) * g]
  OBVIOUS
<1>2. \A c \in 1 .. n + 1 : off[c] = (c - 1) * g
  BY <1>1
<1>3. PICK l \in Nat : l = g * n
  OBVIOUS
<1>4. ASSUME NEW c \in 1 .. n PROVE /\ (c - 1) * g \in Nat /\ (c - 1) * g + g <= l
                                    /\ ((c + 1) - 1) * g = (c - 1) * g + g
  <2>1. c - 1 \in 0 .. n - 1 /\ (c + 1) - 1 = (c - 1) + 1 /\ n \in Nat \ {0}
    OBVIOUS
  <2>2. (c - 1) * g \in Nat /\ (c - 1) * g + g <= g * n
    BY <2>1, PieceInside
  <2>3. ASSUME NEW x \in Nat PROVE (x + 1) * g = x * g + g
    OBVIOUS
  <2>4. c - 1 \in Nat
    OBVIOUS
  <2> QED BY <1>3, <2>1, <2>2, <2>3, <2>4
<1>5. off[1] = 0 /\ off[n + 1] = l
  <2>1. 1 \in 1 .. n + 1 /\ n + 1 \in 1 .. n + 1 /\ (1 - 1) * g = 0
        /\ ((n + 1) - 1) * g = n * g /\ n * g = g * n
    OBVIOUS
  <2> QED BY <1>2, <1>3, <2>1
<1>6. ASSUME NEW c \in 1 .. n + 1 PROVE off[c] \in 0 .. l
  <2>1. CASE c = n + 1
    BY <1>5, <2>1
  <2>2. CASE c \in 1 .. n
    <3>1. PICK x \in Nat : x = (c - 1) * g /\ x + g <= l
      BY <1>4, <2>2
    <3>2. x \in 0 .. l
      BY <3>1
    <3> QED BY <1>2, <3>1, <3>2
  <2> QED BY <2>1, <2>2
<1>7. ASSUME NEW c \in 1 .. n
      PROVE  /\ off[c + 1] = off[c] + Len(D[c])
             /\ \A y \in 1 .. Len(D[c]) : q[off[c] + y] = D[c][y]
  <2>1. c \in 1 .. n + 1 /\ c + 1 \in 1 .. n + 1
    OBVIOUS
  <2>2. PICK o : o = (c - 1) * g
    OBVIOUS
  <2>3. off[c] = o /\ off[c + 1] = o + g
    BY <1>2, <1>4, <2>1, <2>2
  <2>4. Len(D[c]) = g /\ \A y \in 1 .. g : D[c][y] = q[o + y]
    BY <1>a, <2>2, Zenon
  <2> QED BY <2>3, <2>4
<1>8. Len(D) = n /\ Len(q) = l
  BY <1>a, <1>3
<1>9. Joined(D, q, off)
  BY <1>5, <1>6, <1>7, <1>8, Zenon DEF Joined
<1> QED BY <1>9

\* Every place of sequences laid end to end is a place of one of them.
LEMMA JoinedPlace ==
  ASSUME NEW S, NEW D \in Seq(Seq(S)), NEW q \in Seq(S), NEW off, Joined(D, q, off),
         NEW j \in 1 .. Len(q)
  PROVE  \E c \in 1 .. Len(D) : \E y \in 1 .. Len(D[c]) :
           j = off[c] + y /\ q[j] = D[c][y]
<1>1. PICK n \in Nat, l \in Nat : n = Len(D) /\ l = Len(q)
  BY LenProperties
<1>2. /\ \A c \in 1 .. n + 1 : off[c] \in 0 .. l
      /\ off[1] = 0 /\ off[n + 1] = l
      /\ \A c \in 1 .. n : /\ off[c + 1] = off[c] + Len(D[c])
                           /\ \A y \in 1 .. Len(D[c]) : q[off[c] + y] = D[c][y]
  BY <1>1 DEF Joined
<1>3. j \in 1 .. l
  BY <1>1
<1> DEFINE T == {c \in 1 .. n + 1 : ~ (off[c] < j)}
<1>4. T \in SUBSET Nat /\ n + 1 \in T
  <2>1. n + 1 \in 1 .. n + 1 /\ ~ (off[n + 1] < j)
    BY <1>2, <1>3
  <2> QED BY <2>1
<1>5. PICK e \in T : \A y \in T : e <= y
  BY <1>4, LeastNat
<1>6. e # 1
  <2>1. off[1] < j
    BY <1>2, <1>3
  <2> QED BY <2>1
<1>7. e \in 1 .. n + 1 /\ ~ (off[e] < j)
  OBVIOUS
<1>8. PICK c \in 1 .. n : e = c + 1
  <2>1. e - 1 \in 1 .. n /\ e = (e - 1) + 1
    BY <1>6, <1>7
  <2> QED BY <2>1
<1>9. c \in 1 .. n + 1 /\ c \notin T
  BY <1>5, <1>8
<1>10. off[c] < j /\ off[c] \in 0 .. l
  BY <1>2, <1>9
<1> HIDE DEF T
<1>11. D[c] \in Seq(S)
  <2>1. PICK T1 : T1 = Seq(S)
    OBVIOUS
  <2>2. D \in Seq(T1) /\ c \in 1 .. Len(D)
    BY <1>1, <2>1
  <2>3. D[c] \in T1
    BY <2>2, ElementOfSeq
  <2> QED BY <2>1, <2>3
<1>12. Len(D[c]) \in Nat
  BY <1>11, LenProperties
<1>13. PICK u \in 0 .. l, v \in Nat : u = off[c] /\ v = Len(D[c])
  BY <1>10, <1>12
<1>14. off[e] = u + v
  BY <1>2, <1>8, <1>13, Zenon
<1>15. u < j /\ ~ (u + v < j)
  BY <1>7, <1>10, <1>13, <1>14
<1>16. PICK y \in 1 .. v : j = u + y
  <2>1. j - u \in 1 .. v /\ j = u + (j - u)
    BY <1>3, <1>15
  <2> QED BY <2>1
<1>17. q[off[c] + y] = D[c][y]
  BY <1>2, <1>13, <1>16
<1> QED BY <1>1, <1>13, <1>16, <1>17

\* Every sequence of sequences can be laid end to end.
LEMMA JoinedAny ==
  ASSUME NEW S, NEW D \in Seq(Seq(S))
  PROVE  \E q \in Seq(S) : \E off : Joined(D, q, off)
<1>1. PICK n \in Nat : n = Len(D)
  BY LenProperties
<1> DEFINE E(k) == SubSeq(D, 1, k)
           T == {k \in 0 .. n : ~ \E q \in Seq(S) : \E off : Joined(E(k), q, off)}
<1>2. E(n) = D
  BY <1>1, SubSeqFull
<1>3. CASE T # {}
  <2>1. T \in SUBSET Nat
    OBVIOUS
  <2> HIDE DEF T, E
  <2>2. PICK k \in T : \A j \in T : k <= j
    BY <1>3, <2>1, LeastNat
  <2>3. k \in 0 .. n /\ ~ \E q \in Seq(S) : \E off : Joined(E(k), q, off)
    BY <2>2 DEF T
  <2>4. CASE k = 0
    <3>1. E(0) = << >>
      BY SubSeqEmpty DEF E
    <3>2. << >> \in Seq(S) /\ \E off : Joined(<< >>, << >>, off)
      BY JoinedNone
    <3> QED BY <2>3, <2>4, <3>1, <3>2
  <2>5. CASE k # 0
    <3>1. PICK j \in 0 .. n : k = j + 1
      <4>1. k - 1 \in 0 .. n /\ k = (k - 1) + 1
        BY <2>3, <2>5
      <4> QED BY <4>1
    <3>2. j \notin T
      <4>1. ~ (k <= j)
        BY <3>1
      <4> QED BY <2>2, <4>1
    <3>3. PICK q \in Seq(S) : \E off : Joined(E(j), q, off)
      BY <3>2 DEF T
    <3>4. PICK off : Joined(E(j), q, off)
      BY <3>3
    <3>5. /\ \A i \in 1 .. n : D[i] \in Seq(S)
          /\ 1 .. j \subseteq 1 .. n /\ 1 .. k \subseteq 1 .. n /\ k \in 1 .. n
      BY <1>1, <2>3, <3>1, ElementOfSeq
    <3>6. ASSUME NEW m \in 0 .. n
          PROVE  /\ E(m) \in Seq(Seq(S)) /\ Len(E(m)) = m
                 /\ \A i \in 1 .. m : E(m)[i] = D[i]
      <4>1. \A i \in 1 .. m : D[i] \in Seq(S)
        BY <3>5
      <4>2. \A i \in 1 .. m - 1 + 1 : 1 + i - 1 = i
        OBVIOUS
      <4>3. m - 1 + 1 = m /\ 1 \in Int /\ m \in Int
        OBVIOUS
      <4>4. /\ E(m) \in Seq(Seq(S)) /\ Len(E(m)) = IF 1 <= m THEN m - 1 + 1 ELSE 0
            /\ \A i \in 1 .. m - 1 + 1 : E(m)[i] = D[1 + i - 1]
        BY <4>1, <4>3, SubSeqProperties DEF E
      <4>5. Len(E(m)) = m
        BY <4>4
      <4> QED BY <4>2, <4>3, <4>4, <4>5
    <3>7. /\ E(j) \in Seq(Seq(S)) /\ Len(E(j)) = j /\ \A i \in 1 .. j : E(j)[i] = D[i]
          /\ E(k) \in Seq(Seq(S)) /\ Len(E(k)) = k /\ \A i \in 1 .. k : E(k)[i] = D[i]
      BY <2>3, <3>6
    <3>8. E(k) = Append(E(j), D[k])
      <4>1. /\ Append(E(j), D[k]) \in Seq(Seq(S))
            /\ Len(Append(E(j), D[k])) = j + 1
            /\ \A i \in 1 .. j : Append(E(j), D[k])[i] = E(j)[i]
            /\ Append(E(j), D[k])[j + 1] = D[k]
        BY <3>5, <3>7, AppendProperties
      <4>2. ASSUME NEW i \in 1 .. k PROVE E(k)[i] = Append(E(j), D[k])[i]
        <5>1. i \in 1 .. j \/ i = j + 1
          BY <3>1
        <5>2. E(k)[i] = D[i]
          BY <3>7
        <5>3. CASE i \in 1 .. j
          BY <3>7, <4>1, <5>2, <5>3
        <5>4. CASE i = j + 1
          BY <3>1, <4>1, <5>2, <5>4
        <5> QED BY <5>1, <5>3, <5>4
      <4> QED BY <3>1, <3>7, <4>1, <4>2, SeqEqual
    <3>9. \E p \in Seq(S) : \E new : Joined(E(k), p, new)
      <4>1. D[k] \in Seq(S) /\ q \o D[k] \in Seq(S)
        BY <3>5, ConcatProperties
      <4>2. \E new : Joined(Append(E(j), D[k]), q \o D[k], new)
        BY <3>4, <3>7, <4>1, JoinedMore
      <4> QED BY <3>8, <4>1, <4>2
    <3> QED BY <2>3, <3>9
  <2> QED BY <2>4, <2>5
<1>4. CASE T = {}
  <2>1. n \in 0 .. n
    OBVIOUS
  <2> QED BY <1>2, <1>4, <2>1
<1> QED BY <1>3, <1>4

\* What FlattenSeq makes of sequences is the first one and the others behind it.
LEMMA FlattenFirst ==
  ASSUME NEW S, NEW D \in Seq(Seq(S))
  PROVE  /\ FlattenSeq(D) \in Seq(S)
         /\ D = << >> => FlattenSeq(D) = << >>
         /\ D # << >> => FlattenSeq(D) = Head(D) \o FlattenSeq(Tail(D))
<1>1. FlattenSeq(D) \in Seq(S)
  BY JoinedAny, JoinedFlat
<1>2. ASSUME D = << >> PROVE FlattenSeq(D) = << >>
  <2>1. Len(D) = 0
    BY <1>2
  <2> QED BY <1>2, <2>1 DEF FlattenSeq
<1>3. ASSUME D # << >> PROVE FlattenSeq(D) = Head(D) \o FlattenSeq(Tail(D))
  <2>1. Head(D) \in Seq(S) /\ Tail(D) \in Seq(Seq(S))
    BY <1>3, HeadTailProperties
  <2> DEFINE d == Head(D)
             E == Tail(D)
             F == << d >>
  <2>2. F \o E = D /\ F \in Seq(Seq(S))
    BY <1>3, <2>1
  <2> HIDE DEF d, E, F
  <2>3. \E off : Joined(F, d, off)
    <3>1. \E off : Joined(Append(<< >>, d), << >> \o d, off)
      <4>1. << >> \in Seq(S) /\ << >> \in Seq(Seq(S)) /\ d \in Seq(S)
        BY <2>1 DEF d
      <4>2. PICK off : Joined(<< >>, << >>, off)
        BY <4>1, JoinedNone
      <4> QED BY <4>1, <4>2, JoinedMore
    <3>2. << >> \o d = d
      BY <2>1, ConcatEmptySeq DEF d
    <3>3. Append(<< >>, d) = F
      BY DEF F
    <3> QED BY <3>1, <3>2, <3>3
  <2>4. PICK q \in Seq(S) : \E off : Joined(E, q, off)
    BY <2>1, JoinedAny DEF E
  <2>5. FlattenSeq(E) = q
    BY <2>1, <2>4, JoinedFlat DEF E
  <2>6. \E off : Joined(F \o E, d \o q, off)
    BY <2>1, <2>2, <2>3, <2>4, JoinedBoth DEF d, E
  <2>7. d \o q \in Seq(S)
    BY <2>1, <2>4, ConcatProperties DEF d
  <2>8. FlattenSeq(D) = d \o q
    BY <2>2, <2>6, <2>7, JoinedFlat
  <2> QED BY <2>5, <2>8 DEF d, E
<1> QED BY <1>1, <1>2, <1>3

\* A sequence is a prefix of what it begins.
LEMMA PrefixOf ==
  ASSUME NEW S, NEW s \in Seq(S), NEW r \in Seq(S) PROVE IsPrefix(s, s \o r)
<1>1. PICK m \in Nat, n \in Nat : m = Len(s) /\ n = Len(r)
  BY LenProperties
<1>2. /\ s \o r \in Seq(S) /\ Len(s \o r) = m + n
      /\ \A i \in 1 .. m + n : (s \o r)[i] = IF i <= m THEN s[i] ELSE r[i - m]
  BY <1>1, ConcatProperties
<1>3. \A i \in 1 .. m : i \in 1 .. m + n /\ i <= m
  OBVIOUS
<1>4. \A i \in 1 .. m : s[i] \in S /\ (s \o r)[i] = s[i]
  BY <1>1, <1>2, <1>3, ElementOfSeq
<1> QED BY <1>1, <1>2, <1>4 DEF IsPrefix

\* What stands between a prefix and the end.
LEMMA PrefixRest ==
  ASSUME NEW S, NEW s \in Seq(S), NEW t \in Seq(S), IsPrefix(s, t)
  PROVE  \E r \in Seq(S) : s \o r = t
<1>1. PICK m \in Nat, n \in Nat : m = Len(s) /\ n = Len(t)
  BY LenProperties
<1>2. m <= n /\ SubSeq(s, 1, m) = SubSeq(t, 1, m)
  BY <1>1 DEF IsPrefix
<1>3. SubSeq(s, 1, m) = s
  BY <1>1, SubSeqFull
<1> DEFINE r == SubSeq(t, m + 1, n)
<1>4. PICK k \in Nat : k = n - m
  BY <1>2
<1>5. \A i \in 1 .. n : t[i] \in S
  BY <1>1, ElementOfSeq
<1>6. /\ \A i \in 1 .. m : i \in 1 .. n /\ 1 + i - 1 = i
      /\ \A i \in m + 1 .. n : i \in 1 .. n
      /\ m - 1 + 1 = m /\ n - (m + 1) + 1 = k
      /\ \A i \in 1 .. k : (m + 1) + i - 1 = m + i
  BY <1>2, <1>4
<1>7. \A i \in 1 .. m : s[i] = t[i]
  <2>1. \A i \in 1 .. m : t[i] \in S
    BY <1>5, <1>6
  <2>2. \A i \in 1 .. m - 1 + 1 : SubSeq(t, 1, m)[i] = t[1 + i - 1]
    BY <2>1, SubSeqProperties
  <2> QED BY <1>2, <1>3, <1>6, <2>2
<1>8. /\ r \in Seq(S) /\ Len(r) = k
      /\ \A i \in 1 .. k : r[i] = t[m + i]
  <2>1. \A i \in m + 1 .. n : t[i] \in S
    BY <1>5, <1>6
  <2>2. /\ r \in Seq(S)
        /\ Len(r) = IF m + 1 <= n THEN n - (m + 1) + 1 ELSE 0
        /\ \A i \in 1 .. n - (m + 1) + 1 : r[i] = t[(m + 1) + i - 1]
    BY <2>1, SubSeqProperties
  <2>3. Len(r) = k
    BY <1>2, <1>4, <2>2
  <2> QED BY <1>6, <2>2, <2>3
<1> HIDE DEF r
<1>9. /\ s \o r \in Seq(S) /\ Len(s \o r) = m + k
      /\ \A i \in 1 .. m + k : (s \o r)[i] = IF i <= m THEN s[i] ELSE r[i - m]
  <2>1. /\ s \o r \in Seq(S) /\ Len(s \o r) = Len(s) + Len(r)
        /\ \A i \in 1 .. Len(s) + Len(r) :
             (s \o r)[i] = IF i <= Len(s) THEN s[i] ELSE r[i - Len(s)]
    BY <1>8, ConcatProperties
  <2>2. Len(s) = m /\ Len(r) = k
    BY <1>1, <1>8
  <2> QED BY <2>1, <2>2, Zenon
<1>10. ASSUME NEW i \in 1 .. n PROVE (s \o r)[i] = t[i]
  <2>1. i \in 1 .. m + k
    BY <1>4
  <2>2. CASE i <= m
    <3>1. i \in 1 .. m
      BY <2>2
    <3> QED BY <1>7, <1>9, <2>1, <2>2, <3>1
  <2>3. CASE ~ (i <= m)
    <3>1. i - m \in 1 .. k /\ m + (i - m) = i
      BY <1>4, <2>3
    <3> QED BY <1>8, <1>9, <2>1, <2>3, <3>1
  <2> QED BY <2>2, <2>3
<1>11. m + k = n
  BY <1>4
<1>12. s \o r = t
  BY <1>1, <1>9, <1>10, <1>11, SeqEqual
<1> QED BY <1>8, <1>12

\* An element between two sequences belongs to either.
LEMMA AppendThen ==
  ASSUME NEW S, NEW s \in Seq(S), NEW a \in S, NEW r \in Seq(S)
  PROVE  Append(s, a) \o r = s \o (<< a >> \o r)
<1>1. Append(s, a) = s \o << a >> /\ << a >> \in Seq(S)
  BY AppendIsConcat
<1> QED BY <1>1, ConcatAssociative

-----------------------------------------------------------------------------
(* Running sums                                                            *)

\* t is the sum of len[1] to len[n].
Sums(len, n, t) ==
  \E d : /\ d \in [0 .. n -> Int] /\ d[0] = 0 /\ d[n] = t
         /\ \A i \in 1 .. n : d[i] = d[i - 1] + len[i]

\* The sum of nothing.
LEMMA SumsNone == ASSUME NEW len PROVE Sums(len, 0, 0)
<1> DEFINE d == [i \in 0 .. 0 |-> 0]
<1>1. /\ d \in [0 .. 0 -> Int] /\ d[0] = 0
      /\ \A i \in 1 .. 0 : d[i] = d[i - 1] + len[i]
  OBVIOUS
<1> QED BY <1>1, Zenon DEF Sums

\* A sum depends on the numbers summed only.
LEMMA SumsType ==
  ASSUME NEW n \in Nat, NEW len, NEW t, Sums(len, n, t)
  PROVE  t \in Int /\ (n = 0 => t = 0)
  BY DEF Sums

\* One more number adds to the sum.
LEMMA SumsMore ==
  ASSUME NEW n \in Nat, NEW len, NEW t, Sums(len, n, t),
         NEW more, NEW x \in Nat, more[n + 1] = x,
         \A i \in 1 .. n : more[i] = len[i]
  PROVE  Sums(more, n + 1, t + x)
<1>1. PICK d : /\ d \in [0 .. n -> Int] /\ d[0] = 0 /\ d[n] = t
               /\ \A i \in 1 .. n : d[i] = d[i - 1] + len[i]
  BY DEF Sums
<1>2. PICK e : e = [i \in 0 .. n + 1 |-> IF i <= n THEN d[i] ELSE t + x]
  OBVIOUS
<1>3. t \in Int
  BY <1>1
<1>4. e \in [0 .. n + 1 -> Int] /\ e[0] = 0 /\ e[n + 1] = t + x
  BY <1>1, <1>2, <1>3
<1>5. ASSUME NEW i \in 1 .. n + 1 PROVE e[i] = e[i - 1] + more[i]
  <2>1. CASE i = n + 1
    BY <1>1, <1>2, <2>1
  <2>2. CASE i \in 1 .. n
    <3>1. e[i] = d[i] /\ e[i - 1] = d[i - 1] /\ more[i] = len[i]
      BY <1>2, <2>2
    <3> QED BY <1>1, <2>2, <3>1
  <2> QED BY <2>1, <2>2
<1> QED BY <1>4, <1>5 DEF Sums

\* Without its first number, which is 0, the sum is the same.
LEMMA SumsTail ==
  ASSUME NEW n \in Nat \ {0}, NEW len, NEW t, Sums(len, n, t), len[1] = 0,
         NEW rest, \A i \in 1 .. n - 1 : rest[i] = len[i + 1]
  PROVE  Sums(rest, n - 1, t)
<1>1. PICK d : /\ d \in [0 .. n -> Int] /\ d[0] = 0 /\ d[n] = t
               /\ \A i \in 1 .. n : d[i] = d[i - 1] + len[i]
  BY DEF Sums
<1>2. PICK e : e = [i \in 0 .. n - 1 |-> d[i + 1]]
  OBVIOUS
<1>3. d[1] = 0
  BY <1>1
<1>4. e \in [0 .. n - 1 -> Int] /\ e[0] = 0 /\ e[n - 1] = t
  BY <1>1, <1>2, <1>3
<1>5. ASSUME NEW i \in 1 .. n - 1 PROVE e[i] = e[i - 1] + rest[i]
  <2>1. i + 1 \in 1 .. n /\ i \in 0 .. n - 1 /\ i - 1 \in 0 .. n - 1 /\ (i + 1) - 1 = i
        /\ (i - 1) + 1 = i
    OBVIOUS
  <2>2. d[i + 1] = d[i] + len[i + 1]
    BY <1>1, <2>1
  <2> QED BY <1>2, <2>1, <2>2
<1> QED BY <1>4, <1>5 DEF Sums

\* A first number that is one less makes the sum one less.
LEMMA SumsFirst ==
  ASSUME NEW n \in Nat \ {0}, NEW len, NEW t, Sums(len, n, t),
         \A i \in 1 .. n : len[i] \in Nat,
         NEW less, less[1] = len[1] - 1, \A i \in 2 .. n : less[i] = len[i]
  PROVE  Sums(less, n, t - 1)
<1>1. PICK d : /\ d \in [0 .. n -> Int] /\ d[0] = 0 /\ d[n] = t
               /\ \A i \in 1 .. n : d[i] = d[i - 1] + len[i]
  BY DEF Sums
<1>2. PICK e : e = [i \in 0 .. n |-> IF i = 0 THEN 0 ELSE d[i] - 1]
  OBVIOUS
<1>3. e \in [0 .. n -> Int] /\ e[0] = 0 /\ e[n] = t - 1
  BY <1>1, <1>2
<1>4. ASSUME NEW i \in 1 .. n PROVE e[i] = e[i - 1] + less[i]
  <2>1. CASE i = 1
    BY <1>1, <1>2, <2>1
  <2>2. CASE i \in 2 .. n
    <3>1. e[i] = d[i] - 1 /\ e[i - 1] = d[i - 1] - 1 /\ less[i] = len[i]
      BY <1>2, <2>2
    <3>2. d[i] = d[i - 1] + len[i] /\ d[i] \in Int /\ d[i - 1] \in Int
      BY <1>1, <2>2
    <3>3. len[i] \in Nat
      OBVIOUS
    <3> QED BY <3>1, <3>2, <3>3
  <2> QED BY <2>1, <2>2
<1> QED BY <1>3, <1>4 DEF Sums

\* The function that adds up the numbers one by one ends with their sum.
LEMMA SumsRun ==
  ASSUME NEW n \in Nat, NEW len, NEW t, Sums(len, n, t)
  PROVE  LET run == CHOOSE f : f = [i \in 0 .. n |-> IF i = 0 THEN 0
                                                   ELSE f[i - 1] + len[i]]
         IN run[n] = t
<1>1. PICK d : /\ d \in [0 .. n -> Int] /\ d[0] = 0 /\ d[n] = t
               /\ \A i \in 1 .. n : d[i] = d[i - 1] + len[i]
  BY DEF Sums
<1>2. d = [i \in 0 .. n |-> IF i = 0 THEN 0 ELSE d[i - 1] + len[i]]
  <2>1. \A i \in 0 .. n : i = 0 \/ i \in 1 .. n
    OBVIOUS
  <2>2. \A i \in 0 .. n : d[i] = IF i = 0 THEN 0 ELSE d[i - 1] + len[i]
    BY <1>1, <2>1
  <2> QED BY <1>1, <2>2
<1> DEFINE run == CHOOSE f : f = [i \in 0 .. n |-> IF i = 0 THEN 0
                                                 ELSE f[i - 1] + len[i]]
<1>3. run = [i \in 0 .. n |-> IF i = 0 THEN 0 ELSE run[i - 1] + len[i]]
  BY <1>2, Zenon
<1> HIDE DEF run
<1>4. /\ run[0] = 0
      /\ \A i \in 1 .. n : run[i] = run[i - 1] + len[i]
  <2>1. 0 \in 0 .. n /\ \A i \in 1 .. n : i \in 0 .. n /\ i # 0
    OBVIOUS
  <2>2. \A i \in 0 .. n : run[i] = IF i = 0 THEN 0 ELSE run[i - 1] + len[i]
    BY <1>3
  <2> QED BY <2>1, <2>2
<1>5. \A i \in 0 .. n : run[i] = d[i]
  <2> DEFINE D == {i \in 0 .. n : run[i] # d[i]}
  <2> SUFFICES ASSUME D # {} PROVE FALSE
    OBVIOUS
  <2>1. D \in SUBSET Nat
    OBVIOUS
  <2>2. PICK i \in D : \A j \in D : i <= j
    BY <2>1, LeastNat
  <2>3. i \in 1 .. n
    BY <1>1, <1>4
  <2>4. i - 1 \in 0 .. n /\ i - 1 \notin D
    BY <2>2, <2>3
  <2>5. run[i - 1] = d[i - 1]
    BY <2>4
  <2> QED BY <1>1, <1>4, <2>3, <2>5
<1>6. run[n] = t
  BY <1>1, <1>5
<1> QED BY <1>6 DEF run

-----------------------------------------------------------------------------
(* Folds over the first numbers                                            *)

\* The greatest of some of the first numbers.
LEMMA MaxOf ==
  ASSUME NEW n \in Nat, NEW T \in SUBSET (1 .. n), T # {}
  PROVE  Max(T) \in T /\ \A y \in T : y <= Max(T)
<1>1. PICK x \in T : \A y \in T : y <= x
  <2>1. T \in SUBSET (0 .. n)
    OBVIOUS
  <2> QED BY <2>1, GreatestNat
<1>2. \E x1 \in T : \A y \in T : x1 >= y
  BY <1>1
<1>3. Max(T) \in T /\ \A y \in T : Max(T) >= y
  BY <1>2, Zenon DEF Max
<1> QED
  BY <1>3

\* What a fold of functions over the first n numbers goes through.
FoldOver(g, n, base, F) ==
  g = [s \in SUBSET (1 .. n) |->
         IF s = {} THEN base ELSE F[Max(s)][g[s \ {Max(s)}]]]

\* A fold over the first n numbers exists if every step stays in a set.
LEMMA FoldExists ==
  ASSUME NEW T, NEW base \in T, NEW n \in Nat, NEW F \in [1 .. n -> [T -> T]]
  PROVE  \E g \in [SUBSET (1 .. n) -> T] : FoldOver(g, n, base, F)
<1> DEFINE Has(m) == \E g \in [SUBSET (1 .. m) -> T] : FoldOver(g, m, base, F)
           Bad == {m \in 0 .. n : ~ Has(m)}
<1>1. Has(0)
  <2> DEFINE g == [s \in SUBSET (1 .. 0) |-> base]
  <2>1. g \in [SUBSET (1 .. 0) -> T]
    OBVIOUS
  <2>2. \A s \in SUBSET (1 .. 0) : s = {}
    OBVIOUS
  <2>3. g = [s \in SUBSET (1 .. 0) |->
               IF s = {} THEN base ELSE F[Max(s)][g[s \ {Max(s)}]]]
    BY <2>2, Zenon
  <2> QED BY <2>1, <2>3 DEF FoldOver
<1>2. ASSUME NEW m \in 1 .. n, Has(m - 1) PROVE Has(m)
  <2>1. PICK g \in [SUBSET (1 .. m - 1) -> T] : FoldOver(g, m - 1, base, F)
    BY <1>2
  <2> DEFINE h == [s \in SUBSET (1 .. m) |->
                     IF m \in s THEN F[m][g[s \ {m}]] ELSE g[s]]
  <2>2. \A s \in SUBSET (1 .. m) :
          /\ m \in s => s \ {m} \in SUBSET (1 .. m - 1)
          /\ m \notin s => s \in SUBSET (1 .. m - 1)
    OBVIOUS
  <2>3. ASSUME NEW s \in SUBSET (1 .. m) PROVE h[s] \in T
    <3>1. CASE m \in s
      <4>1. g[s \ {m}] \in T
        BY <2>1, <2>2, <3>1
      <4>2. F[m] \in [T -> T]
        OBVIOUS
      <4> QED BY <3>1, <4>1, <4>2
    <3>2. CASE m \notin s
      BY <2>1, <2>2, <3>2
    <3> QED BY <3>1, <3>2
  <2>4. ASSUME NEW s \in SUBSET (1 .. m)
        PROVE  h[s] = IF s = {} THEN base ELSE F[Max(s)][h[s \ {Max(s)}]]
    <3>1. CASE m \in s
      <4>1. Max(s) = m
        <5>1. m \in Nat /\ s # {}
          BY <3>1
        <5>2. Max(s) \in s /\ m <= Max(s)
          BY <3>1, <5>1, MaxOf, Zenon
        <5>3. Max(s) \in 1 .. m
          BY <5>2
        <5> QED BY <5>2, <5>3
      <4>2. h[s \ {m}] = g[s \ {m}]
        BY <2>2
      <4> QED BY <3>1, <4>1, <4>2
    <3>2. CASE m \notin s
      <4>1. s \in SUBSET (1 .. m - 1) /\ h[s] = g[s]
        BY <2>2, <3>2
      <4>2. g[s] = IF s = {} THEN base ELSE F[Max(s)][g[s \ {Max(s)}]]
        BY <2>1, <4>1, Zenon DEF FoldOver
      <4>3. h[s \ {Max(s)}] = g[s \ {Max(s)}]
        BY <3>2
      <4> QED BY <4>1, <4>2, <4>3
    <3> QED BY <3>1, <3>2
  <2>5. h \in [SUBSET (1 .. m) -> T]
    BY <2>3
  <2>6. h = [s \in SUBSET (1 .. m) |->
               IF s = {} THEN base ELSE F[Max(s)][h[s \ {Max(s)}]]]
    <3>1. h = [s \in SUBSET (1 .. m) |-> h[s]]
      BY Zenon
    <3> HIDE DEF h
    <3> QED BY <2>4, <3>1, Zenon
  <2> QED BY <2>5, <2>6 DEF FoldOver
<1> HIDE DEF Has
<1>3. Bad = {}
  <2> SUFFICES ASSUME Bad # {} PROVE FALSE
    OBVIOUS
  <2>0. Bad \in SUBSET Nat
    OBVIOUS
  <2>1. PICK m \in Bad : \A y \in Bad : m <= y
    BY <2>0, LeastNat
  <2>2. m \in 1 .. n
    BY <1>1, <2>1
  <2>3. Has(m - 1)
    BY <2>1, <2>2
  <2> QED BY <1>2, <2>1, <2>2, <2>3
<1>4. Has(n)
  BY <1>3
<1> QED BY <1>4 DEF Has

\* The greatest of the first numbers, and the others.
LEMMA MaxOfFirst ==
  ASSUME NEW m \in Nat \ {0}
  PROVE  Max(1 .. m) = m /\ (1 .. m) \ {Max(1 .. m)} = 1 .. m - 1
<1>1. m \in Nat /\ 1 .. m \in SUBSET (1 .. m) /\ m \in 1 .. m /\ 1 .. m # {}
  OBVIOUS
<1>2. Max(1 .. m) \in 1 .. m /\ m <= Max(1 .. m)
  BY <1>1, MaxOf, Zenon
<1> QED BY <1>2

\* What a fold h over the first n numbers goes through, if every step stays
\* in a set.
LEMMA FoldStays ==
  ASSUME NEW T, NEW n \in Nat, NEW h, h[{}] \in T,
         \A m \in 1 .. n : h[1 .. m - 1] \in T => h[1 .. m] \in T
  PROVE  \A m \in 0 .. n : h[1 .. m] \in T
<1> DEFINE Bad == {m \in 0 .. n : h[1 .. m] \notin T}
<1>1. 1 .. 0 = {}
  OBVIOUS
<1>2. Bad = {}
  <2> SUFFICES ASSUME Bad # {} PROVE FALSE
    OBVIOUS
  <2>0. Bad \in SUBSET Nat
    OBVIOUS
  <2>1. PICK m \in Bad : \A y \in Bad : m <= y
    BY <2>0, LeastNat
  <2>2. m \in 1 .. n
    BY <1>1, <2>1
  <2>3. m - 1 \in 0 .. n /\ m - 1 \notin Bad
    BY <2>1, <2>2
  <2> QED BY <2>1, <2>2, <2>3
<1> QED BY <1>2
=============================================================================
