---------------------------- MODULE BasicLemmas -----------------------------
(* Facts that the proofs about several components share: arithmetic modulo *)
(* a ring's size or the number of sequence numbers, the least element of a *)
(* set of natural numbers, the entries of a FIFO, and sums.                *)
EXTENDS SeqSums, WellFoundedInduction, TLAPS

-----------------------------------------------------------------------------
(* Remainders *)

(* A remainder is less than the modulus. *)
LEMMA ModRange == \A a \in Int, m \in Nat \ {0} : a % m \in 0 .. m - 1
  OBVIOUS

(* A number is its quotient and its remainder. *)
LEMMA ModDiv ==
  \A a \in Int, m \in Nat \ {0} : (a \div m) \in Int /\ a = m * (a \div m) + (a % m)
  OBVIOUS

(* There is only one remainder. *)
LEMMA ModUnique ==
  ASSUME NEW a \in Int, NEW m \in Nat \ {0}, NEW q \in Int, NEW r \in 0 .. m - 1,
         a = m * q + r
  PROVE  a % m = r
  OBVIOUS

(* Adding at most one turn wraps at most once. *)
LEMMA ModAdd ==
  ASSUME NEW a \in Int, NEW m \in Nat \ {0}, NEW d \in 0 .. m
  PROVE  (a + d) % m = IF (a % m) + d < m THEN (a % m) + d ELSE (a % m) + d - m
<1> DEFINE q == a \div m
           r == a % m
<1>1. q \in Int /\ a = m * q + r /\ r \in 0 .. m - 1
  BY ModRange, ModDiv
<1> HIDE DEF q, r
<1>2. ASSUME r + d < m PROVE (a + d) % m = r + d
  <2>1. a + d = m * q + (r + d)
    BY <1>1
  <2> QED
    BY <1>1, <1>2, <2>1, ModUnique
<1>3. ASSUME ~(r + d < m) PROVE (a + d) % m = r + d - m
  <2>1. a + d = m * (q + 1) + (r + d - m) /\ q + 1 \in Int /\ a + d \in Int
    BY <1>1
  <2>2. r + d - m \in 0 .. m - 1
    BY <1>1, <1>3
  <2> QED
    BY <2>1, <2>2, ModUnique
<1> QED
  BY <1>2, <1>3 DEF r

(* Numbers of the first three turns. *)
LEMMA ModSmall ==
  ASSUME NEW m \in Nat \ {0}, NEW x \in 0 .. m - 1
  PROVE  x % m = x /\ (x + m) % m = x /\ (x + m + m) % m = x
<1>1. x % m = x
  <2>1. x = m * 0 + x
    OBVIOUS
  <2> QED
    BY <2>1, ModUnique
<1>2. (x + m) % m = x
  BY <1>1, ModAdd
<1>3. (x + m + m) % m = x
  <2>1. x + m \in Int /\ m \in 0 .. m
    OBVIOUS
  <2> QED
    BY <1>2, <2>1, ModAdd
<1> QED
  BY <1>1, <1>2, <1>3

(* A ring whose size divides the modulus does not see the modulus. *)
LEMMA ModMod ==
  ASSUME NEW a \in Int, NEW m \in Nat \ {0}, NEW s \in Nat \ {0}, s % m = 0
  PROVE  (a % s) % m = a % m
<1> DEFINE k == s \div m
           q == a \div s
           r == a % s
           p == r \div m
           t == r % m
<1>1. k \in Int /\ s = m * k
  BY ModDiv
<1>2. q \in Int /\ r \in Int /\ a = s * q + r
  BY ModRange, ModDiv
<1>3. p \in Int /\ t \in 0 .. m - 1 /\ r = m * p + t
  BY ModRange, ModDiv, <1>2
<1> HIDE DEF k, q, r, p, t
<1>4. a = m * (k * q + p) + t
  BY <1>1, <1>2, <1>3
<1>5. k * q + p \in Int
  BY <1>1, <1>2, <1>3
<1>6. a % m = t
  BY <1>3, <1>4, <1>5, ModUnique
<1> QED
  BY <1>6 DEF t, r

-----------------------------------------------------------------------------
(* Induction *)

(* A set of natural numbers that is not empty has a least element. *)
LEMMA LeastNumber ==
  ASSUME NEW T \in SUBSET Nat, T # {}
  PROVE  \E n \in T : \A m \in T : n <= m
<1> DEFINE R == {p \in Nat \X Nat : p[1] < p[2]}
<1>1. IsWellFoundedOn(R, Nat)
  BY NatLessThanWellFounded DEF OpToRel
<1>2. \E n \in T : \A m \in T : ~(<<m, n>> \in R)
  <2> HIDE DEF R
  <2> QED
    BY <1>1, WFMin
<1>3. \A m, n \in T : ~(<<m, n>> \in R) => n <= m
  OBVIOUS
<1> QED
  BY <1>2, <1>3

-----------------------------------------------------------------------------
(* Sequences *)

(* The first entry of a queue, and what is left. *)
LEMMA HeadAndTail ==
  ASSUME NEW S, NEW q \in Seq(S), q # <<>>
  PROVE  /\ Head(q) \in S /\ Head(q) = q[1] /\ Len(q) \in Nat \ {0}
         /\ Tail(q) \in Seq(S) /\ Len(Tail(q)) = Len(q) - 1
         /\ \A i \in 1 .. Len(q) - 1 : Tail(q)[i] = q[i + 1]
  OBVIOUS

(* A function on the first n numbers is a sequence. *)
LEMMA FunctionIsSeq ==
  ASSUME NEW S, NEW n \in Nat, NEW f \in [1 .. n -> S]
  PROVE  f \in Seq(S) /\ Len(f) = n
  OBVIOUS

(* Two sequences, one after the other. *)
LEMMA Concatenated ==
  ASSUME NEW S, NEW a \in Seq(S), NEW b \in Seq(S)
  PROVE  /\ a \o b \in Seq(S) /\ Len(a \o b) = Len(a) + Len(b)
         /\ \A i \in 1 .. Len(a) : (a \o b)[i] = a[i]
         /\ \A i \in Len(a) + 1 .. Len(a) + Len(b) : (a \o b)[i] = b[i - Len(a)]
  OBVIOUS

(* A queue with one more entry. *)
LEMMA Appended ==
  ASSUME NEW S, NEW q \in Seq(S), NEW e \in S
  PROVE  /\ Append(q, e) \in Seq(S) /\ Len(Append(q, e)) = Len(q) + 1
         /\ \A i \in 1 .. Len(q) : Append(q, e)[i] = q[i]
         /\ Append(q, e)[Len(q) + 1] = e
  OBVIOUS

-----------------------------------------------------------------------------
(* Sums *)

(* e[i] is the sum of the first i entries of s. *)
SumUp(s, e) == /\ e[0] = 0
               /\ \A i \in 1 .. Len(s) : e[i] = e[i - 1] + s[i]

(* There are such sums. *)
LEMMA SumsExist ==
  ASSUME NEW s \in Seq(Nat)
  PROVE  \E e \in [0 .. Len(s) -> Nat] : SumUp(s, e)
<1> DEFINE Part(n, e) == /\ e \in [0 .. n -> Nat] /\ e[0] = 0
                         /\ \A i \in 1 .. n : e[i] = e[i - 1] + s[i]
           Bad == {n \in Nat : n <= Len(s) /\ ~\E e : Part(n, e)}
<1>1. Len(s) \in Nat /\ \A i \in 1 .. Len(s) : s[i] \in Nat
  OBVIOUS
<1>2. Bad = {}
  <2> SUFFICES ASSUME Bad # {} PROVE FALSE
    OBVIOUS
  <2>1. PICK n \in Bad : \A m \in Bad : n <= m
    BY LeastNumber
  <2>2. n # 0
    <3> DEFINE z == [i \in 0 .. 0 |-> 0]
    <3>1. Part(0, z)
      OBVIOUS
    <3> HIDE DEF z, Part
    <3> QED
      BY <2>1, <3>1
  <2>a. n \in Nat /\ n <= Len(s)
    <3> HIDE DEF Part
    <3> QED
      BY <2>1
  <2>b. n - 1 \notin Bad
    <3> HIDE DEF Bad
    <3> QED
      BY <2>1, <2>a
  <2>3. n \in 1 .. Len(s) /\ n - 1 \in Nat /\ n - 1 <= Len(s) /\ n - 1 \notin Bad
    <3> HIDE DEF Bad
    <3> QED
      BY <2>a, <2>b, <2>2, <1>1
  <2>4. PICK e : Part(n - 1, e)
    <3> HIDE DEF Part
    <3> QED
      BY <2>3
  <2> DEFINE d == [i \in 0 .. n |-> IF i = n THEN e[n - 1] + s[n] ELSE e[i]]
  <2>5. e[n - 1] \in Nat /\ s[n] \in Nat
    BY <1>1, <2>3, <2>4
  <2>6. d \in [0 .. n -> Nat] /\ d[0] = 0
    BY <2>3, <2>4, <2>5
  <2>7. ASSUME NEW i \in 1 .. n PROVE d[i] = d[i - 1] + s[i]
    <3>1. i - 1 \in 0 .. n /\ i - 1 # n /\ i \in 0 .. n
      BY <2>3
    <3>2. CASE i = n
      BY <3>1, <3>2
    <3>3. CASE i # n
      <4>1. i \in 1 .. n - 1
        BY <2>3, <3>3
      <4> QED
        BY <2>4, <3>1, <3>3, <4>1
    <3> QED
      BY <3>2, <3>3
  <2>8. Part(n, d)
    BY <2>6, <2>7
  <2> QED
    BY <2>8, <2>1
<1>3. PICK e : Part(Len(s), e)
  <2> HIDE DEF Part
  <2> QED
    BY <1>1, <1>2
<1>4. e \in [0 .. Len(s) -> Nat] /\ SumUp(s, e)
  BY <1>3 DEF SumUp
<1> QED
  BY <1>4

(* There is only one way to sum up. *)
LEMMA SumsUnique ==
  ASSUME NEW s \in Seq(Nat), NEW d, NEW e, SumUp(s, d), SumUp(s, e)
  PROVE  \A i \in 0 .. Len(s) : d[i] = e[i]
<1> DEFINE Bad == {n \in Nat : n <= Len(s) /\ d[n] # e[n]}
<1>1. Len(s) \in Nat
  OBVIOUS
<1>2. Bad = {}
  <2> SUFFICES ASSUME Bad # {} PROVE FALSE
    OBVIOUS
  <2>1. PICK n \in Bad : \A m \in Bad : n <= m
    BY LeastNumber
  <2>2. n # 0
    BY <2>1 DEF SumUp
  <2>3. n \in 1 .. Len(s) /\ n - 1 \in Nat /\ n - 1 <= Len(s) /\ n - 1 \notin Bad
    BY <2>1, <2>2, <1>1
  <2>4. d[n - 1] = e[n - 1]
    BY <2>3
  <2> QED
    BY <2>1, <2>3, <2>4 DEF SumUp
<1> QED
  BY <1>1, <1>2

(* The recursive function that defines the sums sums up. *)
LEMMA SumsAre ==
  ASSUME NEW s \in Seq(Nat)
  PROVE  /\ SumUp(s, Sums(s))
         /\ \A i \in 0 .. Len(s) : Sums(s)[i] \in Nat
         /\ Total(s) = Sums(s)[Len(s)] /\ Total(s) \in Nat
<1> DEFINE Def(f) == [i \in 0 .. Len(s) |-> IF i = 0 THEN 0 ELSE f[i - 1] + s[i]]
           sum == CHOOSE f : f = Def(f)
<1>1. Len(s) \in Nat
  OBVIOUS
<1>2. PICK e \in [0 .. Len(s) -> Nat] : SumUp(s, e)
  BY SumsExist
<1>3. e = Def(e)
  <2>1. \A n \in 0 .. Len(s) : e[n] = Def(e)[n]
    BY <1>1, <1>2 DEF SumUp
  <2> QED
    BY <2>1
<1>4. sum = Def(sum)
  BY <1>3
<1>5. Sums(s) = sum
  BY DEF Sums
<1> HIDE DEF sum
<1>6. SumUp(s, sum)
  <2>1. \A n \in 0 .. Len(s) : sum[n] = Def(sum)[n]
    BY <1>4
  <2> QED
    BY <2>1, <1>1 DEF SumUp
<1>7. \A i \in 0 .. Len(s) : sum[i] = e[i]
  BY <1>2, <1>6, SumsUnique
<1>8. \A i \in 0 .. Len(s) : sum[i] \in Nat
  BY <1>7
<1> QED
  BY <1>1, <1>5, <1>6, <1>8 DEF Total

(* Sums only grow. *)
LEMMA SumsGrow ==
  ASSUME NEW s \in Seq(Nat), NEW i \in 0 .. Len(s), NEW j \in i .. Len(s)
  PROVE  Sums(s)[i] <= Sums(s)[j]
<1> DEFINE e == Sums(s)
           Bad == {n \in Nat : n \in i .. Len(s) /\ ~(e[i] <= e[n])}
<1>1. Len(s) \in Nat /\ i \in Nat
      /\ \A n \in 1 .. Len(s) : e[n] = e[n - 1] + s[n] /\ s[n] \in Nat
  BY SumsAre DEF SumUp
<1>2. \A n \in 0 .. Len(s) : e[n] \in Nat
  BY SumsAre
<1> HIDE DEF e
<1>3. Bad = {}
  <2> SUFFICES ASSUME Bad # {} PROVE FALSE
    OBVIOUS
  <2>1. PICK n \in Bad : \A m \in Bad : n <= m
    BY LeastNumber
  <2>2. n # i
    BY <2>1, <1>2
  <2>3. n \in 1 .. Len(s) /\ n - 1 \in Nat /\ n - 1 \in i .. Len(s) /\ n - 1 \notin Bad
    BY <2>1, <2>2, <1>1
  <2>4. e[i] <= e[n - 1]
    BY <2>3
  <2>5. e[n - 1] \in Nat /\ e[i] \in Nat /\ s[n] \in Nat /\ e[n] = e[n - 1] + s[n]
    BY <1>1, <1>2, <2>3
  <2> QED
    BY <2>1, <2>4, <2>5
<1>4. j \in Nat
  BY <1>1
<1> QED
  BY <1>3, <1>4 DEF e

(* The empty sequence. *)
LEMMA SumsEmpty == Total(<<>>) = 0 /\ Sums(<<>>)[0] = 0
<1>1. <<>> \in Seq(Nat) /\ Len(<<>>) = 0
  OBVIOUS
<1> QED
  BY <1>1, SumsAre DEF SumUp

(* One more number. *)
LEMMA SumsAppend ==
  ASSUME NEW s \in Seq(Nat), NEW n \in Nat
  PROVE  /\ \A i \in 0 .. Len(s) : Sums(Append(s, n))[i] = Sums(s)[i]
         /\ Sums(Append(s, n))[Len(s) + 1] = Total(s) + n
         /\ Total(Append(s, n)) = Total(s) + n
<1> DEFINE t == Append(s, n)
           e == Sums(t)
<1>1. Len(s) \in Nat /\ t \in Seq(Nat) /\ Len(t) = Len(s) + 1 /\ t[Len(s) + 1] = n
      /\ \A i \in 1 .. Len(s) : t[i] = s[i]
  BY Appended
<1> HIDE DEF t
<1>2. SumUp(t, e) /\ Total(t) = e[Len(t)]
  BY <1>1, SumsAre
<1> HIDE DEF e
<1>3. SumUp(s, e)
  BY <1>1, <1>2 DEF SumUp
<1>4. \A i \in 0 .. Len(s) : e[i] = Sums(s)[i]
  BY <1>3, SumsAre, SumsUnique
<1>5. e[Len(s) + 1] = e[Len(s)] + n
  BY <1>1, <1>2 DEF SumUp
<1>6. e[Len(s)] = Total(s)
  BY <1>1, <1>4, SumsAre
<1> QED
  BY <1>1, <1>2, <1>4, <1>5, <1>6 DEF e, t

(* The first number taken away. *)
LEMMA SumsTail ==
  ASSUME NEW s \in Seq(Nat), s # <<>>
  PROVE  /\ \A i \in 0 .. Len(s) - 1 : Sums(Tail(s))[i] = Sums(s)[i + 1] - s[1]
         /\ Total(Tail(s)) = Total(s) - s[1]
         /\ Sums(s)[1] = s[1] /\ s[1] \in Nat /\ s[1] <= Total(s)
<1> DEFINE t == Tail(s)
           e == Sums(s)
           d == [i \in 0 .. Len(s) - 1 |-> e[i + 1] - s[1]]
<1>1. Len(s) \in Nat \ {0} /\ t \in Seq(Nat) /\ Len(t) = Len(s) - 1 /\ s[1] \in Nat
      /\ \A i \in 1 .. Len(s) - 1 : t[i] = s[i + 1] /\ s[i + 1] \in Nat
  BY HeadAndTail
<1> HIDE DEF t
<1>2. SumUp(s, e) /\ Total(s) = e[Len(s)] /\ \A i \in 0 .. Len(s) : e[i] \in Nat
  BY SumsAre
<1> HIDE DEF e
<1>3. e[1] = s[1]
  <2>1. 1 \in 1 .. Len(s) /\ 1 - 1 = 0
    BY <1>1
  <2> QED
    BY <1>1, <1>2, <2>1 DEF SumUp
<1>4. SumUp(t, d)
  <2>1. d[0] = 0
    BY <1>1, <1>3
  <2>2. ASSUME NEW i \in 1 .. Len(s) - 1 PROVE d[i] = d[i - 1] + t[i]
    <3>1. i + 1 \in 1 .. Len(s) /\ i \in 0 .. Len(s) - 1 /\ i - 1 \in 0 .. Len(s) - 1
          /\ (i + 1) - 1 = i /\ (i - 1) + 1 = i /\ i \in 0 .. Len(s)
      BY <1>1
    <3>2. d[i] = e[i + 1] - s[1] /\ d[i - 1] = e[i] - s[1]
      BY <3>1
    <3>3. e[i + 1] = e[i] + s[i + 1]
      BY <1>2, <3>1 DEF SumUp
    <3>4. e[i] \in Nat /\ s[i + 1] \in Nat /\ t[i] = s[i + 1]
      BY <1>1, <1>2, <3>1
    <3> QED
      BY <1>1, <3>2, <3>3, <3>4, SMTT(40)
  <2> QED
    BY <1>1, <2>1, <2>2 DEF SumUp
<1>5. \A i \in 0 .. Len(s) - 1 : Sums(t)[i] = d[i]
  <2>1. SumUp(t, Sums(t))
    BY <1>1, SumsAre
  <2> HIDE DEF d
  <2>2. \A i \in 0 .. Len(t) : Sums(t)[i] = d[i]
    BY <1>1, <1>4, <2>1, SumsUnique
  <2> QED
    BY <1>1, <2>2
<1>6. Total(t) = d[Len(s) - 1]
  <2>1. Len(s) - 1 \in 0 .. Len(s) - 1 /\ Total(t) = Sums(t)[Len(s) - 1]
    BY <1>1, SumsAre
  <2> HIDE DEF d
  <2> QED
    BY <1>5, <2>1
<1>7. s[1] <= e[Len(s)]
  <2>1. 1 \in 0 .. Len(s) /\ Len(s) \in 1 .. Len(s)
    BY <1>1
  <2> QED
    BY <1>1, <1>3, <2>1, SumsGrow DEF e
<1>8. d[Len(s) - 1] = e[Len(s)] - s[1]
  BY <1>1
<1>9. \A i \in 0 .. Len(s) - 1 : d[i] = e[i + 1] - s[1]
  OBVIOUS
<1> HIDE DEF d
<1> QED
  BY <1>1, <1>2, <1>3, <1>5, <1>6, <1>7, <1>8, <1>9 DEF t, e

(* A zero taken out.  *)
LEMMA SumsRemove ==
  ASSUME NEW s \in Seq(Nat), NEW i \in 1 .. Len(s), s[i] = 0, NEW t \in Seq(Nat),
         Len(t) = Len(s) - 1,
         \A k \in 1 .. Len(s) - 1 : t[k] = IF k < i THEN s[k] ELSE s[k + 1]
  PROVE  /\ \A k \in 0 .. Len(s) - 1 : Sums(t)[k] = IF k < i THEN Sums(s)[k] ELSE Sums(s)[k + 1]
         /\ Total(t) = Total(s)
<1> DEFINE e == Sums(s)
           d == [k \in 0 .. Len(s) - 1 |-> IF k < i THEN e[k] ELSE e[k + 1]]
<1>1. Len(s) \in Nat \ {0} /\ \A k \in 1 .. Len(s) : s[k] \in Nat
  OBVIOUS
<1>2. SumUp(s, e) /\ Total(s) = e[Len(s)] /\ \A k \in 0 .. Len(s) : e[k] \in Nat
  BY SumsAre
<1> HIDE DEF e
<1>3. e[i] = e[i - 1]
  <2>1. e[i] = e[i - 1] + 0 /\ e[i - 1] \in Nat
    BY <1>1, <1>2 DEF SumUp
  <2> QED
    BY <2>1
<1>4. SumUp(t, d)
  <2>1. d[0] = 0
    BY <1>1, <1>2 DEF SumUp
  <2>2. ASSUME NEW k \in 1 .. Len(s) - 1 PROVE d[k] = d[k - 1] + t[k]
    <3>1. k \in 1 .. Len(s) /\ k + 1 \in 1 .. Len(s) /\ k \in 0 .. Len(s) - 1
          /\ k - 1 \in 0 .. Len(s) - 1 /\ (k + 1) - 1 = k /\ (k - 1) + 1 = k
      BY <1>1
    <3>2. e[k] = e[k - 1] + s[k] /\ e[k + 1] = e[k] + s[k + 1]
      BY <1>2, <3>1 DEF SumUp
    <3>3. CASE k < i
      <4>1. k - 1 < i
        BY <1>1, <3>3
      <4>2. d[k] = e[k] /\ d[k - 1] = e[k - 1] /\ t[k] = s[k]
        BY <3>1, <3>3, <4>1
      <4> QED
        BY <3>2, <4>2
    <3>4. CASE k = i
      <4>1. k - 1 < i /\ ~(k < i)
        BY <1>1, <3>4
      <4>2. d[k] = e[k + 1] /\ d[k - 1] = e[k - 1] /\ t[k] = s[k + 1]
        BY <3>1, <4>1
      <4> QED
        BY <1>3, <3>2, <3>4, <4>2
    <3>5. CASE k > i
      <4>1. ~(k - 1 < i) /\ ~(k < i)
        BY <1>1, <3>5
      <4>2. d[k] = e[k + 1] /\ d[k - 1] = e[k] /\ t[k] = s[k + 1]
        BY <3>1, <4>1
      <4> QED
        BY <3>2, <4>2
    <3> QED
      BY <3>3, <3>4, <3>5, <1>1
  <2> QED
    BY <2>1, <2>2 DEF SumUp
<1>5. \A k \in 0 .. Len(s) - 1 : d[k] = IF k < i THEN e[k] ELSE e[k + 1]
  OBVIOUS
<1>6. Len(s) - 1 \in 0 .. Len(s) - 1 /\ (Len(s) - 1) + 1 = Len(s)
  BY <1>1
<1>7. d[Len(s) - 1] = e[Len(s)]
  <2>1. CASE Len(s) - 1 < i
    <3>1. i = Len(s)
      BY <1>1, <2>1
    <3> QED
      BY <1>3, <1>5, <1>6, <2>1, <3>1
  <2>2. CASE ~(Len(s) - 1 < i)
    BY <1>5, <1>6, <2>2
  <2> QED
    BY <2>1, <2>2
<1> HIDE DEF d
<1>8. SumUp(t, Sums(t)) /\ Total(t) = Sums(t)[Len(t)]
  BY SumsAre
<1>9. \A k \in 0 .. Len(t) : Sums(t)[k] = d[k]
  BY <1>4, <1>8, SumsUnique
<1> QED
  BY <1>2, <1>5, <1>6, <1>7, <1>8, <1>9 DEF e

(* Where a number below the total lies. *)
LEMMA SumsLocate ==
  ASSUME NEW s \in Seq(Nat), NEW x \in Nat, x < Total(s)
  PROVE  \E i \in 1 .. Len(s) : Sums(s)[i - 1] <= x /\ x < Sums(s)[i - 1] + s[i]
<1> DEFINE e == Sums(s)
           Above == {n \in Nat : n <= Len(s) /\ x < e[n]}
<1>1. Len(s) \in Nat /\ SumUp(s, e) /\ Total(s) = e[Len(s)] /\ \A k \in 0 .. Len(s) : e[k] \in Nat
  BY SumsAre
<1> HIDE DEF e
<1>2. Len(s) \in Above
  BY <1>1
<1>3. PICK n \in Above : \A m \in Above : n <= m
  BY <1>2, LeastNumber
<1>4. n # 0
  BY <1>1, <1>3 DEF SumUp
<1>5. n \in 1 .. Len(s) /\ n - 1 \in Nat /\ n - 1 <= Len(s) /\ n - 1 \notin Above
  BY <1>1, <1>3, <1>4
<1>6. e[n - 1] <= x
  BY <1>1, <1>5
<1>7. e[n] = e[n - 1] + s[n]
  BY <1>1, <1>5 DEF SumUp
<1> QED
  BY <1>3, <1>5, <1>6, <1>7 DEF e
=============================================================================
