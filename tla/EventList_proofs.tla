-------------------------- MODULE EventList_proofs --------------------------
(***************************************************************************)
(* What happens to the elements of a list when it is sieved, extended,     *)
(* shortened or joined to another one.                                     *)
(***************************************************************************)
EXTENDS EventList, SequencesExt, SequenceTheorems, WellFoundedInduction,
        NaturalsInduction, TLAPS

\* A list that has nothing twice.
Once(q) == \A i, j \in DOMAIN q : q[i] = q[j] => i = j

\* The elements of a list that is made longer at its end.
LEMMA AppendElements ==
  ASSUME NEW X, NEW q \in Seq(X), NEW x \in X
  PROVE  /\ Append(q, x) \in Seq(X) /\ Append(q, x) # <<>>
         /\ ToSet(Append(q, x)) = ToSet(q) \cup {x}
         /\ Once(q) /\ x \notin ToSet(q) => Once(Append(q, x))
<1>1. /\ Append(q, x) \in Seq(X) /\ Append(q, x) # <<>> /\ Len(q) \in Nat
      /\ DOMAIN q = 1 .. Len(q) /\ DOMAIN Append(q, x) = 1 .. (Len(q) + 1)
      /\ \A i \in 1 .. Len(q) : Append(q, x)[i] = q[i]
      /\ Append(q, x)[Len(q) + 1] = x
  BY AppendProperties, LenProperties
<1> DEFINE s == Append(q, x)
           n == Len(q)
<1> HIDE DEF s, n
<1>2. ToSet(s) = ToSet(q) \cup {x}
  <2>1. /\ n \in Nat /\ DOMAIN q = 1 .. n /\ DOMAIN s = 1 .. (n + 1)
        /\ \A i \in 1 .. n : s[i] = q[i]
        /\ s[n + 1] = x
    BY <1>1 DEF s, n
  <2>2. \A y : y \in ToSet(s) <=> y \in ToSet(q) \/ y = x
    BY <2>1 DEF ToSet
  <2>3. QED
    BY <2>2
<1>3. Once(q) /\ x \notin ToSet(q) => Once(s)
  BY <1>1 DEF Once, ToSet, s
<1>4. QED
  BY <1>1, <1>2, <1>3 DEF s

\* The elements of a list without its first one.
LEMMA TailElements ==
  ASSUME NEW X, NEW q \in Seq(X), q # <<>>
  PROVE  /\ Tail(q) \in Seq(X) /\ Head(q) \in X
         /\ ToSet(q) = {Head(q)} \cup ToSet(Tail(q))
         /\ Once(q) => Once(Tail(q)) /\ Head(q) \notin ToSet(Tail(q))
<1> DEFINE t == Tail(q)
           n == Len(q)
<1>1. /\ t \in Seq(X) /\ Head(q) \in X /\ n \in Nat /\ n >= 1
      /\ DOMAIN q = 1 .. n /\ DOMAIN t = 1 .. (n - 1)
      /\ \A i \in 1 .. (n - 1) : t[i] = q[i + 1]
      /\ Head(q) = q[1]
  BY HeadTailProperties, LenProperties, EmptySeq
<1> HIDE DEF t, n
<1>2. ToSet(q) = {Head(q)} \cup ToSet(t)
  <2>1. \A i \in 1 .. n : i = 1 \/ (i - 1 \in 1 .. (n - 1) /\ q[i] = t[i - 1])
    BY <1>1
  <2>2. \A y : y \in ToSet(q) => y = Head(q) \/ y \in ToSet(t)
    <3> SUFFICES ASSUME NEW i \in 1 .. n
                 PROVE  q[i] = Head(q) \/ q[i] \in {t[j] : j \in 1 .. (n - 1)}
      BY <1>1 DEF ToSet
    <3>1. CASE i = 1
      BY <1>1, <3>1
    <3>2. CASE i - 1 \in 1 .. (n - 1) /\ q[i] = t[i - 1]
      BY <3>2
    <3>3. QED
      BY <2>1, <3>1, <3>2
  <2>3. \A i \in 1 .. (n - 1) : i + 1 \in 1 .. n /\ 1 \in 1 .. n
    BY <1>1
  <2>4. \A y : y = Head(q) \/ y \in ToSet(t) => y \in ToSet(q)
    BY <1>1, <2>3, SMTT(30) DEF ToSet
  <2>5. QED
    BY <2>2, <2>4
<1>3. ASSUME Once(q)
      PROVE  Once(t) /\ Head(q) \notin ToSet(t)
  <2>1. \A i \in 1 .. (n - 1) : i + 1 \in 1 .. n /\ t[i] = q[i + 1] /\ i + 1 # 1
    BY <1>1
  <2>2. \A i, j \in 1 .. n : q[i] = q[j] => i = j
    BY <1>1, <1>3 DEF Once
  <2>3. Once(t)
    <3> SUFFICES ASSUME NEW i \in 1 .. (n - 1), NEW j \in 1 .. (n - 1), t[i] = t[j]
                 PROVE  i = j
      BY <1>1 DEF Once
    <3>1. i + 1 = j + 1
      BY <2>1, <2>2
    <3>2. QED
      BY <1>1, <3>1
  <2>4. 1 \in 1 .. n
    BY <1>1
  <2>5. \A i \in 1 .. (n - 1) : t[i] # q[1]
    BY <1>1, <1>3, <2>1, <2>4 DEF Once
  <2>6. QED
    BY <1>1, <2>3, <2>5 DEF ToSet
<1>4. QED
  BY <1>1, <1>2, <1>3 DEF t

\* The elements of two lists that are joined.
LEMMA JoinElements ==
  ASSUME NEW X, NEW q \in Seq(X), NEW r \in Seq(X)
  PROVE  /\ q \o r \in Seq(X)
         /\ ToSet(q \o r) = ToSet(q) \cup ToSet(r)
         /\ Once(q) /\ Once(r) /\ ToSet(q) \cap ToSet(r) = {} => Once(q \o r)
<1> DEFINE s == q \o r
           m == Len(q)
           n == Len(r)
<1>1. /\ s \in Seq(X) /\ m \in Nat /\ n \in Nat
      /\ DOMAIN q = 1 .. m /\ DOMAIN r = 1 .. n /\ DOMAIN s = 1 .. (m + n)
      /\ \A i \in 1 .. (m + n) : s[i] = IF i <= m THEN q[i] ELSE r[i - m]
  BY ConcatProperties, LenProperties
<1> HIDE DEF s, m, n
<1>2. \A i \in 1 .. (m + n) : \/ i \in 1 .. m /\ s[i] = q[i]
                             \/ /\ ~(i \in 1 .. m) /\ i - m \in 1 .. n /\ s[i] = r[i - m]
  <2> TAKE i \in 1 .. (m + n)
  <2>1. CASE i <= m
    BY <1>1, <2>1
  <2>2. CASE ~(i <= m)
    <3>1. i - m \in 1 .. n /\ ~(i \in 1 .. m)
      BY <1>1, <2>2
    <3>2. s[i] = r[i - m]
      BY <1>1, <2>2
    <3>3. QED
      BY <3>1, <3>2
  <2>3. QED
    BY <2>1, <2>2
<1>3. ToSet(s) = ToSet(q) \cup ToSet(r)
  <2>1. \A y : y \in ToSet(s) => y \in ToSet(q) \/ y \in ToSet(r)
    BY <1>1, <1>2 DEF ToSet
  <2>2. /\ \A i \in 1 .. m : i \in 1 .. (m + n) /\ s[i] = q[i]
        /\ \A i \in 1 .. n : i + m \in 1 .. (m + n) /\ s[i + m] = r[i]
    BY <1>1
  <2>3. \A y : y \in ToSet(q) => y \in ToSet(s)
    BY <1>1, <2>2 DEF ToSet
  <2>4. \A y : y \in ToSet(r) => y \in ToSet(s)
    <3> SUFFICES ASSUME NEW i \in 1 .. n
                 PROVE  r[i] \in {s[j] : j \in 1 .. (m + n)}
      BY <1>1 DEF ToSet
    <3>1. i + m \in 1 .. (m + n) /\ s[i + m] = r[i]
      BY <2>2
    <3>2. QED
      BY <3>1
  <2>5. QED
    BY <2>1, <2>3, <2>4
<1>4. ASSUME Once(q), Once(r), ToSet(q) \cap ToSet(r) = {}
      PROVE  Once(s)
  <2>1. \A i \in 1 .. m, j \in 1 .. n : q[i] # r[j]
    BY <1>1, <1>4 DEF ToSet
  <2>5. \A i, j \in 1 .. m : q[i] = q[j] => i = j
    BY <1>1, <1>4 DEF Once
  <2>6. \A i, j \in 1 .. n : r[i] = r[j] => i = j
    BY <1>1, <1>4 DEF Once
  <2> SUFFICES ASSUME NEW i \in 1 .. (m + n), NEW j \in 1 .. (m + n), s[i] = s[j]
               PROVE  i = j
    BY <1>1 DEF Once
  <2>2. CASE i \in 1 .. m /\ j \in 1 .. m
    <3>1. s[i] = q[i] /\ s[j] = q[j]
      BY <1>2, <2>2
    <3>2. QED
      BY <2>2, <2>5, <3>1
  <2>3. CASE ~(i \in 1 .. m) /\ ~(j \in 1 .. m)
    <3>1. i - m \in 1 .. n /\ j - m \in 1 .. n /\ r[i - m] = r[j - m]
      BY <1>2, <2>3
    <3>2. i - m = j - m
      BY <2>6, <3>1
    <3>3. QED
      BY <1>1, <3>2
  <2>4. CASE (i \in 1 .. m) # (j \in 1 .. m)
    BY <1>2, <2>1, <2>4
  <2>7. QED
    BY <2>2, <2>3, <2>4
<1>5. QED
  BY <1>1, <1>3, <1>4 DEF s

\* A list from which one element is taken: the others stay, in new places.
LEMMA RemoveAtElements ==
  ASSUME NEW X, NEW q \in Seq(X), NEW k \in DOMAIN q
  PROVE  /\ RemoveAt(q, k) \in Seq(X)
         /\ \A i \in DOMAIN RemoveAt(q, k) :
              \E p \in DOMAIN q : p # k /\ RemoveAt(q, k)[i] = q[p] /\ p = IF i < k THEN i ELSE i + 1
<1> DEFINE n == Len(q)
           a == SubSeq(q, 1, k - 1)
           b == SubSeq(q, k + 1, n)
           s == RemoveAt(q, k)
<1>1. n \in Nat /\ DOMAIN q = 1 .. n /\ k \in 1 .. n
  BY LenProperties
<1>2. /\ a \in Seq(X) /\ Len(a) = k - 1 /\ \A i \in 1 .. (k - 1) : a[i] = q[i]
  <2>1. \A i \in 1 .. (k - 1) : i \in 1 .. n
    BY <1>1
  <2>2. QED
    BY <1>1, <2>1, SubSeqProperties
<1>3. /\ b \in Seq(X) /\ Len(b) = n - k /\ \A i \in 1 .. (n - k) : b[i] = q[i + k]
  <2>1. \A i \in (k + 1) .. n : i \in 1 .. n
    BY <1>1
  <2>2. QED
    BY <1>1, <2>1, SubSeqProperties
<1>4. s = a \o b
  BY DEF RemoveAt
<1> HIDE DEF a, b, n, s
<1>5. /\ s \in Seq(X) /\ DOMAIN s = 1 .. (n - 1)
      /\ \A i \in 1 .. (n - 1) : s[i] = IF i < k THEN q[i] ELSE q[i + 1]
  <2>1. /\ s \in Seq(X) /\ Len(s) = n - 1 /\ DOMAIN s = 1 .. (n - 1)
        /\ \A i \in 1 .. (n - 1) : s[i] = IF i <= k - 1 THEN a[i] ELSE b[i - (k - 1)]
    <3>1. /\ s \in Seq(X) /\ Len(s) = Len(a) + Len(b)
          /\ \A i \in 1 .. (Len(a) + Len(b)) :
                s[i] = IF i <= Len(a) THEN a[i] ELSE b[i - Len(a)]
      BY <1>2, <1>3, <1>4, ConcatProperties
    <3>2. Len(a) + Len(b) = n - 1 /\ Len(a) = k - 1
      BY <1>1, <1>2, <1>3
    <3>3. QED
      BY <3>1, <3>2, LenProperties
  <2>2. \A i \in 1 .. (n - 1) : i <= k - 1 => s[i] = q[i]
    BY <1>1, <1>2, <2>1
  <2>3. \A i \in 1 .. (n - 1) : ~(i <= k - 1) => s[i] = q[i + 1]
    <3> TAKE i \in 1 .. (n - 1)
    <3> HAVE ~(i <= k - 1)
    <3>1. i - (k - 1) \in 1 .. (n - k) /\ (i - (k - 1)) + k = i + 1
      BY <1>1
    <3>2. QED
      BY <1>3, <2>1, <3>1
  <2>4. QED
    BY <1>1, <2>1, <2>2, <2>3
<1>6. \A i \in 1 .. (n - 1) :
        \E p \in 1 .. n : p # k /\ s[i] = q[p] /\ p = IF i < k THEN i ELSE i + 1
  <2> TAKE i \in 1 .. (n - 1)
  <2>1. CASE i < k
    BY <1>1, <1>5, <2>1
  <2>2. CASE ~(i < k)
    BY <1>1, <1>5, <2>2
  <2>3. QED
    BY <2>1, <2>2
<1>7. QED
  BY <1>1, <1>5, <1>6 DEF s

-----------------------------------------------------------------------------
\* A set of numbers has a least one: induction, for whoever looks at the least exception.
LEMMA LeastNumber ==
  ASSUME NEW T \in SUBSET Nat, T # {}
  PROVE  \E x \in T : \A y \in T : x <= y
<1>1. PICK x \in T : \A y \in T : <<y, x>> \notin OpToRel(<, Nat)
  BY NatLessThanWellFounded, WFMin, Zenon
<1>2. \A y \in T : ~(y < x)
  BY <1>1, Zenon DEF OpToRel
<1>3. QED
  BY <1>2

\* A recursion over numbers ends: there is a function that obeys it.
Recurs(f, base, step, k) ==
  f = [n \in 0 .. k |-> IF n = 0 THEN base ELSE step[n][f[n - 1]]]

LEMMA Recursion ==
  ASSUME NEW D, NEW base \in D, NEW m \in Nat, NEW step \in [1 .. m -> [D -> D]]
  PROVE  \E f \in [0 .. m -> D] : Recurs(f, base, step, m)
<1> DEFINE T == {k \in 0 .. m : ~ \E f \in [0 .. k -> D] : Recurs(f, base, step, k)}
<1>1. T = {}
  <2> SUFFICES ASSUME T # {}
               PROVE  FALSE
    OBVIOUS
  <2>1. PICK k \in T : \A y \in T : k <= y
    <3>1. T \in SUBSET Nat
      OBVIOUS
    <3> HIDE DEF T
    <3>2. QED
      BY <3>1, LeastNumber
  <2>2. CASE k = 0
    <3> DEFINE f == [n \in 0 .. 0 |-> base]
    <3>1. f \in [0 .. 0 -> D] /\ Recurs(f, base, step, 0)
      BY DEF Recurs
    <3>2. QED
      BY <2>1, <2>2, <3>1
  <2>3. CASE k # 0
    <3>1. k - 1 \in 0 .. m /\ ~(k <= k - 1) /\ k \in Nat /\ k \in 1 .. m
      BY <2>1, <2>3
    <3>2. k - 1 \notin T
      BY <2>1, <3>1
    <3>3. PICK f \in [0 .. (k - 1) -> D] : Recurs(f, base, step, k - 1)
      BY <3>1, <3>2
    <3> DEFINE g == [n \in 0 .. k |-> IF n < k THEN f[n] ELSE step[n][f[n - 1]]]
    <3>4. \A n \in 0 .. (k - 1) : f[n] = IF n = 0 THEN base ELSE step[n][f[n - 1]]
      BY <3>3, Zenon DEF Recurs
    <3>5. \A n \in 0 .. k : n # 0 => n - 1 \in 0 .. k /\ n - 1 < k
      BY <3>1
    <3>6. \A n \in 0 .. k : n # 0 => g[n - 1] = f[n - 1]
      BY <3>5
    <3>7. \A n \in 0 .. k : n = k \/ (n < k /\ n \in 0 .. (k - 1))
      BY <3>1
    <3>8. \A n \in 0 .. k : g[n] = IF n = 0 THEN base ELSE step[n][g[n - 1]]
      <4> TAKE n \in 0 .. k
      <4>1. CASE n = k
        BY <2>3, <3>1, <3>6, <4>1
      <4>2. CASE n < k /\ n \in 0 .. (k - 1)
        BY <3>4, <3>6, <4>2
      <4>3. QED
        BY <3>7, <4>1, <4>2
    <3>9. \A n \in 0 .. k : g[n] \in D
      <4>1. step[k] \in [D -> D] /\ f[k - 1] \in D
        BY <3>1, <3>3
      <4>2. \A n \in 0 .. (k - 1) : f[n] \in D
        BY <3>3
      <4>3. QED
        BY <3>7, <4>1, <4>2
    <3>10. g = [n \in 0 .. k |-> g[n]]
      OBVIOUS
    <3> HIDE DEF g
    <3>11. g \in [0 .. k -> D] /\ Recurs(g, base, step, k)
      BY <3>8, <3>9, <3>10 DEF Recurs
    <3>12. QED
      BY <2>1, <3>11
  <2>4. QED
    BY <2>2, <2>3
<1>2. QED
  BY <1>1

KeepsOn(s, q, I) ==
  \A n \in 0 .. Len(q) :
    s[n] = IF n = 0 THEN <<>>
           ELSE IF n \in I THEN Append(s[n - 1], q[n]) ELSE s[n - 1]

LEMMA KeptSteps ==
  ASSUME NEW X, NEW q \in Seq(X), NEW I
  PROVE  KeepsOn(Kept(q, I), q, I)
<1> DEFINE m == Len(q)
           step == [n \in 1 .. m |-> [s \in Seq(X) |-> IF n \in I THEN Append(s, q[n]) ELSE s]]
           Body(f) == [n \in 0 .. m |-> IF n = 0 THEN <<>>
                                        ELSE IF n \in I THEN Append(f[n - 1], q[n]) ELSE f[n - 1]]
<1>1. m \in Nat /\ \A n \in 1 .. m : q[n] \in X
  OBVIOUS
<1>2. step \in [1 .. m -> [Seq(X) -> Seq(X)]] /\ <<>> \in Seq(X)
  BY <1>1
<1>3. \A n \in 1 .. m, s \in Seq(X) : step[n][s] = IF n \in I THEN Append(s, q[n]) ELSE s
  OBVIOUS
<1> HIDE DEF step
<1>4. PICK f \in [0 .. m -> Seq(X)] : Recurs(f, <<>>, step, m)
  BY <1>1, <1>2, Recursion
<1>5. f = Body(f)
  <2>1. \A n \in 0 .. m : n # 0 => n \in 1 .. m /\ n - 1 \in 0 .. m
    BY <1>1
  <2>2. \A n \in 0 .. m : f[n] = IF n = 0 THEN <<>> ELSE step[n][f[n - 1]]
    BY <1>4, Zenon DEF Recurs
  <2>3. \A n \in 0 .. m : f[n] = Body(f)[n]
    BY <1>3, <2>1, <2>2, ZenonT(30)
  <2>4. QED
    BY <2>3
<1>6. Kept(q, I) = CHOOSE g : g = Body(g)
  BY DEF Kept
<1> HIDE DEF Body
<1>7. Kept(q, I) = Body(Kept(q, I))
  BY <1>5, <1>6
<1> DEFINE s == Kept(q, I)
<1>8. s = Body(s)
  BY <1>7
<1> HIDE DEF s
<1>9. \A n \in 0 .. m : s[n] = IF n = 0 THEN <<>>
                              ELSE IF n \in I THEN Append(s[n - 1], q[n]) ELSE s[n - 1]
  BY <1>8, Zenon DEF Body
<1>10. QED
  BY <1>9, Zenon DEF KeepsOn, s

\* Induction over the places of a list, as a fact about the set of good numbers.
LEMMA Climb ==
  ASSUME NEW m \in Nat, NEW G, 0 \in G, \A n \in 1 .. m : n - 1 \in G => n \in G
  PROVE  \A n \in 0 .. m : n \in G
<1> DEFINE T == {n \in 0 .. m : n \notin G}
<1>1. ASSUME T # {}
      PROVE  FALSE
  <2>1. PICK k \in T : \A y \in T : k <= y
    <3>1. T \in SUBSET Nat
      OBVIOUS
    <3> HIDE DEF T
    <3>2. QED
      BY <1>1, <3>1, LeastNumber
  <2>2. k \in 1 .. m /\ k - 1 \in 0 .. m /\ ~(k <= k - 1)
    BY <2>1
  <2>3. k - 1 \in G
    BY <2>1, <2>2
  <2>4. QED
    BY <2>1, <2>2, <2>3
<1>2. QED
  BY <1>1

\* What a list keeps, that it has nothing twice unless the whole one had, and that it gets
\* shorter when its last element goes.
LEMMA KeepElements ==
  ASSUME NEW X, NEW q \in Seq(X), NEW I
  PROVE  /\ Keep(q, I) \in Seq(X)
         /\ ToSet(Keep(q, I)) = {q[i] : i \in DOMAIN q \cap I}
         /\ Once(q) => Once(Keep(q, I))
         /\ Len(Keep(q, I)) <= Len(q)
         /\ Len(q) # 0 /\ Len(q) \notin I => Len(Keep(q, I)) < Len(q)
<1> DEFINE s == Kept(q, I)
           First(n) == {q[i] : i \in (1 .. n) \cap I}
           Good(n) == /\ s[n] \in Seq(X)
                      /\ ToSet(s[n]) = First(n)
                      /\ Once(q) => Once(s[n])
                      /\ Len(s[n]) <= n
           G == {n \in 0 .. Len(q) : Good(n)}
<1>1. Len(q) \in Nat /\ DOMAIN q = 1 .. Len(q) /\ \A i \in 1 .. Len(q) : q[i] \in X
  OBVIOUS
<1>2. \A n \in 0 .. Len(q) :
        s[n] = IF n = 0 THEN <<>>
               ELSE IF n \in I THEN Append(s[n - 1], q[n]) ELSE s[n - 1]
  <2>1. KeepsOn(s, q, I)
    BY KeptSteps
  <2> HIDE DEF s
  <2>2. QED
    BY <2>1, Zenon DEF KeepsOn
<1> HIDE DEF s
<1>3. Good(0)
  <2>1. s[0] = <<>>
    BY <1>1, <1>2
  <2>2. First(0) = {} /\ ToSet(<<>>) = {} /\ Once(<<>>) /\ Len(<<>>) = 0 /\ <<>> \in Seq(X)
    BY DEF ToSet, Once
  <2>3. QED
    BY <2>1, <2>2
<1>4. ASSUME NEW n \in 1 .. Len(q), Good(n - 1)
      PROVE  Good(n)
  <2>1. /\ n \in 0 .. Len(q) /\ n # 0 /\ n \in Nat /\ q[n] \in X
        /\ \A i : i \in 1 .. n <=> i = n \/ i \in 1 .. (n - 1)
        /\ n \notin 1 .. (n - 1) /\ 1 .. n \subseteq DOMAIN q
    BY <1>1
  <2>2. Len(s[n - 1]) \in Nat
    BY <1>4
  <2>3. CASE n \in I
    <3>1. s[n] = Append(s[n - 1], q[n])
      BY <1>2, <2>1, <2>3
    <3>2. /\ s[n] \in Seq(X) /\ ToSet(s[n]) = ToSet(s[n - 1]) \cup {q[n]}
          /\ Once(s[n - 1]) /\ q[n] \notin ToSet(s[n - 1]) => Once(s[n])
      BY <1>4, <2>1, <3>1, AppendElements
    <3>3. First(n) = First(n - 1) \cup {q[n]}
      BY <2>1, <2>3
    <3>4. Once(q) => q[n] \notin First(n - 1)
      BY <2>1 DEF Once
    <3>5. Len(s[n]) <= n
      <4>1. Len(s[n]) = Len(s[n - 1]) + 1
        BY <1>4, <2>1, <3>1
      <4>2. QED
        BY <1>4, <2>1, <2>2, <4>1
    <3> HIDE DEF First
    <3>6. QED
      BY <1>4, <3>2, <3>3, <3>4, <3>5
  <2>4. CASE n \notin I
    <3>1. s[n] = s[n - 1]
      BY <1>2, <2>1, <2>4
    <3>2. First(n) = First(n - 1)
      BY <2>1, <2>4
    <3>3. Len(s[n]) <= n
      BY <1>4, <2>1, <2>2, <3>1
    <3> HIDE DEF First
    <3>4. QED
      BY <1>4, <3>1, <3>2, <3>3
  <2>5. QED
    BY <2>3, <2>4
<1>5. \A n \in 0 .. Len(q) : Good(n)
  <2> HIDE DEF Good
  <2>1. 0 \in G
    BY <1>1, <1>3
  <2>2. \A n \in 1 .. Len(q) : n - 1 \in G => n \in G
    BY <1>1, <1>4
  <2> HIDE DEF G
  <2>3. \A n \in 0 .. Len(q) : n \in G
    BY <1>1, <2>1, <2>2, Climb
  <2>4. QED
    BY <2>3 DEF G
<1>6. Good(Len(q))
  <2> HIDE DEF Good
  <2>1. QED
    BY <1>1, <1>5
<1>7. First(Len(q)) = {q[i] : i \in DOMAIN q \cap I}
  BY <1>1
<1>8. Len(q) # 0 /\ Len(q) \notin I => Len(s[Len(q)]) < Len(q)
  <2>1. ASSUME Len(q) # 0, Len(q) \notin I
        PROVE  Len(s[Len(q)]) < Len(q)
    <3>1. Len(q) - 1 \in 0 .. Len(q) /\ Len(q) \in 0 .. Len(q)
      BY <1>1, <2>1
    <3>2. s[Len(q)] = s[Len(q) - 1]
      BY <1>2, <2>1, <3>1
    <3>3. Len(s[Len(q) - 1]) <= Len(q) - 1 /\ Len(s[Len(q) - 1]) \in Nat
      BY <1>5, <3>1
    <3>4. QED
      BY <1>1, <3>2, <3>3
  <2>2. QED
    BY <2>1
<1> HIDE DEF First
<1>9. QED
  BY <1>6, <1>7, <1>8 DEF Keep, s

LEMMA SieveElements ==
  ASSUME NEW X, NEW q \in Seq(X), NEW S
  PROVE  /\ Sieve(q, S) \in Seq(X)
         /\ ToSet(Sieve(q, S)) = {x \in ToSet(q) : x \in S}
         /\ Once(q) => Once(Sieve(q, S))
<1> DEFINE I == {i \in DOMAIN q : q[i] \in S}
<1>1. {q[i] : i \in DOMAIN q \cap I} = {x \in ToSet(q) : x \in S}
  BY DEF ToSet
<1>2. Sieve(q, S) = Keep(q, I)
  BY DEF Sieve
<1> HIDE DEF I
<1>3. QED
  BY <1>1, <1>2, KeepElements
=============================================================================
