---------------------------- MODULE RxPathProofs ----------------------------
(* Proofs about the receive path of a TCP session, in both builds, for     *)
(* every ring size, FIFO depth, stream and way to cut it into segments.    *)
EXTENDS RxPath, BasicLemmas

-----------------------------------------------------------------------------
(* Selections: u holds, in their order, the entries of q that c marks      *)
(* with 1.                                                                 *)

Bits == {0, 1}
Selects(q, c, u) == /\ Len(c) = Len(q) /\ Len(u) = Total(c)
                    /\ \A i \in 1 .. Len(q) : c[i] = 1 => u[Sums(c)[i]] = q[i]

LEMMA BitsAreNumbers ==
  ASSUME NEW c \in Seq(Bits)
  PROVE  c \in Seq(Nat) /\ \A i \in 1 .. Len(c) : c[i] = 0 \/ c[i] = 1
  BY DEF Bits

(* The place of a marked entry in the selection. *)
LEMMA SelectedPlace ==
  ASSUME NEW c \in Seq(Bits), NEW i \in 1 .. Len(c), c[i] = 1
  PROVE  Sums(c)[i] \in 1 .. Total(c)
<1>1. c \in Seq(Nat) /\ Len(c) \in Nat
  BY BitsAreNumbers
<1>2. /\ Sums(c)[i] = Sums(c)[i - 1] + c[i]
      /\ Sums(c)[i - 1] \in Nat /\ Total(c) = Sums(c)[Len(c)] /\ Total(c) \in Nat
  BY <1>1, SumsAre DEF SumUp
<1>3. i \in 0 .. Len(c) /\ Len(c) \in i .. Len(c)
  BY <1>1
<1>4. Sums(c)[i] <= Sums(c)[Len(c)]
  BY <1>1, <1>3, SumsGrow
<1> QED
  BY <1>2, <1>4

LEMMA SelectsEmpty == Selects(<<>>, <<>>, <<>>)
  BY SumsEmpty DEF Selects

(* One more entry, marked or not. *)
LEMMA SelectsAppend ==
  ASSUME NEW S, NEW q \in Seq(S), NEW u \in Seq(S), NEW c \in Seq(Bits), NEW x \in S,
         Selects(q, c, u)
  PROVE  /\ Selects(Append(q, x), Append(c, 1), Append(u, x))
         /\ Selects(Append(q, x), Append(c, 0), u)
<1> DEFINE n == Len(q)
<1>1. n \in Nat /\ Len(c) = n /\ Len(u) \in Nat /\ Len(u) = Total(c) /\ c \in Seq(Nat)
  BY BitsAreNumbers DEF Selects
<1>2. ASSUME NEW b \in Bits, NEW w \in Seq(S), Len(w) = Total(c) + b,
             \A k \in 1 .. Len(u) : w[k] = u[k], b = 1 => w[Len(u) + 1] = x
      PROVE  Selects(Append(q, x), Append(c, b), w)
  <2> DEFINE p == Append(q, x)
             d == Append(c, b)
  <2>1. Len(p) = n + 1 /\ Len(d) = n + 1 /\ (\A i \in 1 .. n : p[i] = q[i] /\ d[i] = c[i])
        /\ p[n + 1] = x /\ d[n + 1] = b
    BY <1>1
  <2>2. b \in Nat
    BY DEF Bits
  <2>3. (\A i \in 0 .. n : Sums(d)[i] = Sums(c)[i]) /\ Sums(d)[n + 1] = Total(c) + b
        /\ Total(d) = Total(c) + b
    BY <1>1, <2>2, SumsAppend
  <2> HIDE DEF p, d
  <2>4. ASSUME NEW i \in 1 .. n + 1, d[i] = 1 PROVE w[Sums(d)[i]] = p[i]
    <3>1. CASE i = n + 1
      BY <1>1, <1>2, <2>1, <2>3, <2>4, <3>1
    <3>2. CASE i # n + 1
      <4>1. i \in 1 .. n /\ i \in 0 .. n /\ i \in 1 .. Len(c)
        BY <1>1, <3>2
      <4>2. c[i] = 1 /\ p[i] = q[i] /\ Sums(d)[i] = Sums(c)[i]
        BY <2>1, <2>3, <2>4, <4>1
      <4>3. u[Sums(c)[i]] = q[i]
        BY <4>1, <4>2 DEF Selects
      <4>4. Sums(c)[i] \in 1 .. Len(u)
        BY <1>1, <4>1, <4>2, SelectedPlace
      <4> QED
        BY <1>2, <4>2, <4>3, <4>4
    <3> QED
      BY <3>1, <3>2
  <2>5. Selects(p, d, w)
    BY <1>2, <2>1, <2>3, <2>4 DEF Selects
  <2> QED
    BY <2>5 DEF p, d
<1>3. Selects(Append(q, x), Append(c, 1), Append(u, x))
  <2> DEFINE w == Append(u, x)
  <2>1. w \in Seq(S) /\ Len(w) = Total(c) + 1 /\ (\A k \in 1 .. Len(u) : w[k] = u[k])
        /\ w[Len(u) + 1] = x /\ 1 \in Bits
    BY <1>1 DEF Bits
  <2> HIDE DEF w
  <2>2. Selects(Append(q, x), Append(c, 1), w)
    BY <1>2, <2>1
  <2> QED
    BY <2>2 DEF w
<1>4. Selects(Append(q, x), Append(c, 0), u)
  <2>1. Len(u) = Total(c) + 0 /\ 0 \in Bits
    BY <1>1 DEF Bits
  <2> QED
    BY <1>2, <2>1
<1> QED
  BY <1>3, <1>4

(* The first entry taken away. *)
LEMMA SelectsTail ==
  ASSUME NEW S, NEW q \in Seq(S), NEW u \in Seq(S), NEW c \in Seq(Bits), q # <<>>,
         Selects(q, c, u)
  PROVE  /\ c # <<>> /\ c[1] \in Bits
         /\ c[1] = 1 => u # <<>> /\ u[1] = q[1] /\ Selects(Tail(q), Tail(c), Tail(u))
         /\ c[1] = 0 => Selects(Tail(q), Tail(c), u)
<1> DEFINE n == Len(q)
<1>1. n \in Nat \ {0} /\ Len(c) = n /\ c # <<>> /\ Len(u) \in Nat /\ Len(u) = Total(c)
      /\ c \in Seq(Nat) /\ c[1] \in Bits
  BY BitsAreNumbers DEF Selects
<1>2. Len(Tail(q)) = n - 1 /\ Len(Tail(c)) = n - 1
      /\ \A i \in 1 .. n - 1 : Tail(q)[i] = q[i + 1] /\ Tail(c)[i] = c[i + 1]
  BY <1>1
<1>3. (\A i \in 0 .. n - 1 : Sums(Tail(c))[i] = Sums(c)[i + 1] - c[1])
      /\ Total(Tail(c)) = Total(c) - c[1] /\ Sums(c)[1] = c[1]
  BY <1>1, SumsTail
<1>4. ASSUME NEW i \in 1 .. n - 1, Tail(c)[i] = 1
      PROVE  /\ u[Sums(c)[i + 1]] = Tail(q)[i] /\ Sums(c)[i + 1] \in 1 .. Len(u)
             /\ Sums(Tail(c))[i] = Sums(c)[i + 1] - c[1]
             /\ Sums(Tail(c))[i] >= 1
  <2>1. i + 1 \in 1 .. n /\ i \in 0 .. n - 1
    BY <1>1
  <2>2. c[i + 1] = 1 /\ Tail(q)[i] = q[i + 1]
    BY <1>2, <1>4
  <2>3. Sums(c)[i + 1] \in 1 .. Len(u)
    BY <1>1, <2>1, <2>2, SelectedPlace
  <2>4. Tail(c) \in Seq(Bits) /\ i \in 1 .. Len(Tail(c))
    BY <1>1, <1>2
  <2>5. Sums(Tail(c))[i] \in 1 .. Total(Tail(c))
    BY <1>4, <2>4, SelectedPlace
  <2> QED
    BY <1>3, <2>1, <2>2, <2>3, <2>5 DEF Selects
<1>5. ASSUME c[1] = 1
      PROVE  u # <<>> /\ u[1] = q[1] /\ Selects(Tail(q), Tail(c), Tail(u))
  <2>1. 1 \in 1 .. Len(c) /\ 1 \in 1 .. n
    BY <1>1
  <2>2. 1 \in 1 .. Len(u) /\ u[1] = q[1]
    BY <1>1, <1>3, <1>5, <2>1, SelectedPlace DEF Selects
  <2>3. u # <<>> /\ Len(u) \in Nat \ {0}
    BY <1>1, <2>2
  <2>4. Len(Tail(u)) = Len(u) - 1 /\ \A k \in 1 .. Len(u) - 1 : Tail(u)[k] = u[k + 1]
    BY <2>3, HeadAndTail
  <2>5. ASSUME NEW i \in 1 .. n - 1, Tail(c)[i] = 1
        PROVE  Tail(u)[Sums(Tail(c))[i]] = Tail(q)[i]
    <3> DEFINE k == Sums(Tail(c))[i]
    <3>1. u[Sums(c)[i + 1]] = Tail(q)[i] /\ Sums(c)[i + 1] \in 1 .. Len(u)
          /\ k = Sums(c)[i + 1] - 1 /\ k >= 1
      BY <1>4, <1>5, <2>5
    <3>2. k \in 1 .. Len(u) - 1 /\ k + 1 = Sums(c)[i + 1]
      BY <1>1, <3>1, SMTT(40)
    <3> QED
      BY <2>4, <3>1, <3>2
  <2> QED
    BY <1>1, <1>2, <1>3, <1>5, <2>2, <2>3, <2>4, <2>5 DEF Selects
<1>6. ASSUME c[1] = 0 PROVE Selects(Tail(q), Tail(c), u)
  <2>1. ASSUME NEW i \in 1 .. n - 1, Tail(c)[i] = 1
        PROVE  u[Sums(Tail(c))[i]] = Tail(q)[i]
    <3>1. u[Sums(c)[i + 1]] = Tail(q)[i] /\ Sums(c)[i + 1] \in 1 .. Len(u)
          /\ Sums(Tail(c))[i] = Sums(c)[i + 1] - 0
      BY <1>4, <1>6, <2>1
    <3>2. Sums(c)[i + 1] - 0 = Sums(c)[i + 1]
      BY <1>1, <3>1
    <3> QED
      BY <3>1, <3>2
  <2> QED
    BY <1>1, <1>2, <1>3, <1>6, <2>1 DEF Selects
<1> QED
  BY <1>1, <1>5, <1>6

-----------------------------------------------------------------------------
(* What the sums are taken of: lengths, and marks of the entries that      *)
(* count.                                                                  *)

(* 1 for a notification that waits for a write status. *)
Waits(q) == [i \in DOMAIN q |-> IF ClosedOnly(q[i]) THEN 0 ELSE 1]

(* A function of the entries of a queue, after an entry is added. *)
LEMMA MapAppended ==
  ASSUME NEW S, NEW q \in Seq(S), NEW x \in S, NEW T, NEW m \in Seq(T), Len(m) = Len(q),
         NEW y \in T, NEW w \in Seq(T), Len(w) = Len(q) + 1, w[Len(q) + 1] = y,
         \A i \in 1 .. Len(q) : w[i] = m[i]
  PROVE  w = Append(m, y)
  OBVIOUS

(* The same, after the first is taken. *)
LEMMA MapTail ==
  ASSUME NEW S, NEW q \in Seq(S), q # <<>>, NEW T, NEW m \in Seq(T), Len(m) = Len(q),
         NEW w \in Seq(T), Len(w) = Len(q) - 1,
         \A i \in 1 .. Len(q) - 1 : w[i] = m[i + 1]
  PROVE  w = Tail(m)
  OBVIOUS

(* Records with a length. *)
WithLen(S) == \A x \in S : x.len \in Nat

LEMMA LensAre ==
  ASSUME NEW S, WithLen(S), NEW q \in Seq(S)
  PROVE  /\ Lens(q) \in Seq(Nat) /\ Len(Lens(q)) = Len(q)
         /\ \A i \in 1 .. Len(q) : Lens(q)[i] = q[i].len
  BY DEF Lens, WithLen

LEMMA LensAppend ==
  ASSUME NEW S, WithLen(S), NEW q \in Seq(S), NEW x \in S
  PROVE  /\ Lens(Append(q, x)) = Append(Lens(q), x.len)
         /\ \A i \in 0 .. Len(q) : Sums(Lens(Append(q, x)))[i] = Sums(Lens(q))[i]
         /\ Sums(Lens(Append(q, x)))[Len(q) + 1] = Total(Lens(q)) + x.len
         /\ Total(Lens(Append(q, x))) = Total(Lens(q)) + x.len
<1> DEFINE p == Append(q, x)
           w == Lens(p)
           m == Lens(q)
<1>1. p \in Seq(S) /\ Len(p) = Len(q) + 1 /\ (\A i \in 1 .. Len(q) : p[i] = q[i])
      /\ p[Len(q) + 1] = x /\ Len(q) \in Nat
  BY Appended
<1> HIDE DEF p
<1>2. w \in Seq(Nat) /\ Len(w) = Len(q) + 1 /\ \A i \in 1 .. Len(q) + 1 : w[i] = p[i].len
  BY <1>1, LensAre
<1>3. m \in Seq(Nat) /\ Len(m) = Len(q) /\ \A i \in 1 .. Len(q) : m[i] = q[i].len
  BY LensAre
<1>4. x.len \in Nat
  BY DEF WithLen
<1>a. w[Len(q) + 1] = x.len /\ \A i \in 1 .. Len(q) : w[i] = m[i]
  <2> HIDE DEF w, m
  <2> QED
    BY <1>1, <1>2, <1>3, SMTT(40)
<1> HIDE DEF w, m
<1>5. w = Append(m, x.len)
  BY <1>1, <1>2, <1>3, <1>4, <1>a, MapAppended
<1> QED
  BY <1>3, <1>4, <1>5, SumsAppend DEF p, w, m

LEMMA LensTail ==
  ASSUME NEW S, WithLen(S), NEW q \in Seq(S), q # <<>>
  PROVE  /\ Lens(Tail(q)) = Tail(Lens(q))
         /\ \A i \in 0 .. Len(q) - 1 : Sums(Lens(Tail(q)))[i] = Sums(Lens(q))[i + 1] - q[1].len
         /\ Total(Lens(Tail(q))) = Total(Lens(q)) - q[1].len
         /\ Sums(Lens(q))[1] = q[1].len /\ q[1].len \in Nat /\ q[1].len <= Total(Lens(q))
<1> DEFINE p == Tail(q)
           w == Lens(p)
           m == Lens(q)
<1>1. p \in Seq(S) /\ Len(p) = Len(q) - 1 /\ (\A i \in 1 .. Len(q) - 1 : p[i] = q[i + 1])
      /\ Len(q) \in Nat \ {0}
  BY HeadAndTail
<1> HIDE DEF p
<1>2. w \in Seq(Nat) /\ Len(w) = Len(q) - 1 /\ \A i \in 1 .. Len(q) - 1 : w[i] = p[i].len
  BY <1>1, LensAre
<1>3. m \in Seq(Nat) /\ Len(m) = Len(q) /\ \A i \in 1 .. Len(q) : m[i] = q[i].len
  BY LensAre
<1> HIDE DEF w, m
<1>4. ASSUME NEW i \in 1 .. Len(q) - 1 PROVE w[i] = m[i + 1]
  <2>1. i + 1 \in 1 .. Len(q) /\ p[i] = q[i + 1]
    BY <1>1
  <2> QED
    BY <1>2, <1>3, <2>1
<1>5. w = Tail(m)
  BY <1>1, <1>2, <1>3, <1>4, MapTail
<1>6. m # <<>> /\ m[1] = q[1].len
  BY <1>1, <1>3
<1> QED
  BY <1>3, <1>5, <1>6, SumsTail DEF p, w, m

LEMMA PendingAre ==
  ASSUME NEW S, NEW q \in Seq(S)
  PROVE  /\ Pending(q) \in Seq(Bits) /\ Len(Pending(q)) = Len(q)
         /\ \A i \in 1 .. Len(q) : Pending(q)[i] = IF q[i].len # 0 THEN 1 ELSE 0
  BY DEF Pending, Bits

LEMMA PendingAppend ==
  ASSUME NEW S, NEW q \in Seq(S), NEW x \in S
  PROVE  Pending(Append(q, x)) = Append(Pending(q), IF x.len # 0 THEN 1 ELSE 0)
<1> DEFINE p == Append(q, x)
           w == Pending(p)
           m == Pending(q)
           y == IF x.len # 0 THEN 1 ELSE 0
<1>1. p \in Seq(S) /\ Len(p) = Len(q) + 1 /\ (\A i \in 1 .. Len(q) : p[i] = q[i])
      /\ p[Len(q) + 1] = x /\ Len(q) \in Nat
  BY Appended
<1> HIDE DEF p
<1>2. w \in Seq(Bits) /\ Len(w) = Len(q) + 1
      /\ \A i \in 1 .. Len(q) + 1 : w[i] = IF p[i].len # 0 THEN 1 ELSE 0
  BY <1>1, PendingAre
<1>3. m \in Seq(Bits) /\ Len(m) = Len(q)
      /\ \A i \in 1 .. Len(q) : m[i] = IF q[i].len # 0 THEN 1 ELSE 0
  BY PendingAre
<1>4. y \in Bits /\ w[Len(q) + 1] = y
  BY <1>1, <1>2 DEF Bits
<1>5. \A i \in 1 .. Len(q) : w[i] = m[i]
  BY <1>1, <1>2, <1>3
<1> HIDE DEF w, m, y
<1>6. w = Append(m, y)
  BY <1>1, <1>2, <1>3, <1>4, <1>5, MapAppended
<1> QED
  BY <1>6 DEF p, w, m, y

LEMMA PendingTail ==
  ASSUME NEW S, NEW q \in Seq(S), q # <<>>
  PROVE  Pending(Tail(q)) = Tail(Pending(q)) /\ Pending(q)[1] = IF q[1].len # 0 THEN 1 ELSE 0
<1> DEFINE p == Tail(q)
           w == Pending(p)
           m == Pending(q)
<1>1. p \in Seq(S) /\ Len(p) = Len(q) - 1 /\ (\A i \in 1 .. Len(q) - 1 : p[i] = q[i + 1])
      /\ Len(q) \in Nat \ {0}
  BY HeadAndTail
<1> HIDE DEF p
<1>2. w \in Seq(Bits) /\ Len(w) = Len(q) - 1
      /\ \A i \in 1 .. Len(q) - 1 : w[i] = IF p[i].len # 0 THEN 1 ELSE 0
  BY <1>1, PendingAre
<1>3. m \in Seq(Bits) /\ Len(m) = Len(q)
      /\ \A i \in 1 .. Len(q) : m[i] = IF q[i].len # 0 THEN 1 ELSE 0
  BY PendingAre
<1> HIDE DEF w, m
<1>4. ASSUME NEW i \in 1 .. Len(q) - 1 PROVE w[i] = m[i + 1]
  <2>1. i + 1 \in 1 .. Len(q) /\ p[i] = q[i + 1]
    BY <1>1
  <2> QED
    BY <1>2, <1>3, <2>1
<1>5. w = Tail(m)
  BY <1>1, <1>2, <1>3, <1>4, MapTail
<1> QED
  BY <1>1, <1>3, <1>5 DEF p, w, m

LEMMA UndroppedAre ==
  ASSUME NEW q \in Seq(BOOLEAN)
  PROVE  /\ Undropped(q) \in Seq(Bits) /\ Len(Undropped(q)) = Len(q)
         /\ \A i \in 1 .. Len(q) : Undropped(q)[i] = IF q[i] THEN 0 ELSE 1
  BY DEF Undropped, Bits

LEMMA UndroppedAppend ==
  ASSUME NEW q \in Seq(BOOLEAN), NEW x \in BOOLEAN
  PROVE  Undropped(Append(q, x)) = Append(Undropped(q), IF x THEN 0 ELSE 1)
<1> DEFINE p == Append(q, x)
           w == Undropped(p)
           m == Undropped(q)
           y == IF x THEN 0 ELSE 1
<1>1. p \in Seq(BOOLEAN) /\ Len(p) = Len(q) + 1 /\ (\A i \in 1 .. Len(q) : p[i] = q[i])
      /\ p[Len(q) + 1] = x /\ Len(q) \in Nat
  BY Appended
<1> HIDE DEF p
<1>2. w \in Seq(Bits) /\ Len(w) = Len(q) + 1
      /\ \A i \in 1 .. Len(q) + 1 : w[i] = IF p[i] THEN 0 ELSE 1
  BY <1>1, UndroppedAre
<1>3. m \in Seq(Bits) /\ Len(m) = Len(q)
      /\ \A i \in 1 .. Len(q) : m[i] = IF q[i] THEN 0 ELSE 1
  BY UndroppedAre
<1>4. y \in Bits /\ w[Len(q) + 1] = y
  BY <1>1, <1>2 DEF Bits
<1>5. \A i \in 1 .. Len(q) : w[i] = m[i]
  BY <1>1, <1>2, <1>3
<1> HIDE DEF w, m, y
<1>6. w = Append(m, y)
  BY <1>1, <1>2, <1>3, <1>4, <1>5, MapAppended
<1> QED
  BY <1>6 DEF p, w, m, y

LEMMA UndroppedTail ==
  ASSUME NEW q \in Seq(BOOLEAN), q # <<>>
  PROVE  Undropped(Tail(q)) = Tail(Undropped(q)) /\ Undropped(q)[1] = IF q[1] THEN 0 ELSE 1
<1> DEFINE p == Tail(q)
           w == Undropped(p)
           m == Undropped(q)
<1>1. p \in Seq(BOOLEAN) /\ Len(p) = Len(q) - 1 /\ (\A i \in 1 .. Len(q) - 1 : p[i] = q[i + 1])
      /\ Len(q) \in Nat \ {0}
  BY HeadAndTail
<1> HIDE DEF p
<1>2. w \in Seq(Bits) /\ Len(w) = Len(q) - 1
      /\ \A i \in 1 .. Len(q) - 1 : w[i] = IF p[i] THEN 0 ELSE 1
  BY <1>1, UndroppedAre
<1>3. m \in Seq(Bits) /\ Len(m) = Len(q)
      /\ \A i \in 1 .. Len(q) : m[i] = IF q[i] THEN 0 ELSE 1
  BY UndroppedAre
<1> HIDE DEF w, m
<1>4. ASSUME NEW i \in 1 .. Len(q) - 1 PROVE w[i] = m[i + 1]
  <2>1. i + 1 \in 1 .. Len(q) /\ p[i] = q[i + 1]
    BY <1>1
  <2> QED
    BY <1>2, <1>3, <2>1
<1>5. w = Tail(m)
  BY <1>1, <1>2, <1>3, <1>4, MapTail
<1> QED
  BY <1>1, <1>3, <1>5 DEF p, w, m

Note == [len : Nat, closed : BOOLEAN]

LEMMA WaitsAre ==
  ASSUME NEW q \in Seq(Note)
  PROVE  /\ Waits(q) \in Seq(Bits) /\ Waits(q) \in Seq(Nat) /\ Len(Waits(q)) = Len(q)
         /\ \A i \in 1 .. Len(q) : Waits(q)[i] = IF ClosedOnly(q[i]) THEN 0 ELSE 1
<1>1. /\ Waits(q) \in Seq(Bits) /\ Len(Waits(q)) = Len(q)
      /\ \A i \in 1 .. Len(q) : Waits(q)[i] = IF ClosedOnly(q[i]) THEN 0 ELSE 1
  BY DEF Waits, Bits
<1> QED
  BY <1>1, BitsAreNumbers

LEMMA WaitsAppend ==
  ASSUME NEW q \in Seq(Note), NEW x \in Note, NEW b \in Bits, b = IF ClosedOnly(x) THEN 0 ELSE 1
  PROVE  /\ \A i \in 0 .. Len(q) : Sums(Waits(Append(q, x)))[i] = Sums(Waits(q))[i]
         /\ Sums(Waits(Append(q, x)))[Len(q) + 1] = Total(Waits(q)) + b
         /\ Total(Waits(Append(q, x))) = Total(Waits(q)) + b
<1> DEFINE p == Append(q, x)
           w == Waits(p)
           m == Waits(q)
<1>1. p \in Seq(Note) /\ Len(p) = Len(q) + 1 /\ (\A i \in 1 .. Len(q) : p[i] = q[i])
      /\ p[Len(q) + 1] = x /\ Len(q) \in Nat
  BY Appended
<1> HIDE DEF p
<1>2. w \in Seq(Nat) /\ Len(w) = Len(q) + 1
      /\ \A i \in 1 .. Len(q) + 1 : w[i] = IF ClosedOnly(p[i]) THEN 0 ELSE 1
  BY <1>1, WaitsAre
<1>3. m \in Seq(Nat) /\ Len(m) = Len(q)
      /\ \A i \in 1 .. Len(q) : m[i] = IF ClosedOnly(q[i]) THEN 0 ELSE 1
  BY WaitsAre
<1>4. b \in Nat /\ w[Len(q) + 1] = b
  BY <1>1, <1>2 DEF Bits
<1>5. \A i \in 1 .. Len(q) : w[i] = m[i]
  BY <1>1, <1>2, <1>3
<1> HIDE DEF w, m
<1>6. w = Append(m, b)
  BY <1>1, <1>2, <1>3, <1>4, <1>5, MapAppended
<1> QED
  BY <1>3, <1>4, <1>6, SumsAppend DEF p, w, m

LEMMA WaitsTail ==
  ASSUME NEW q \in Seq(Note), q # <<>>, NEW b \in Bits, b = IF ClosedOnly(q[1]) THEN 0 ELSE 1
  PROVE  /\ \A i \in 0 .. Len(q) - 1 : Sums(Waits(Tail(q)))[i] = Sums(Waits(q))[i + 1] - b
         /\ Total(Waits(Tail(q))) = Total(Waits(q)) - b
<1> DEFINE p == Tail(q)
           w == Waits(p)
           m == Waits(q)
<1>1. p \in Seq(Note) /\ Len(p) = Len(q) - 1 /\ (\A i \in 1 .. Len(q) - 1 : p[i] = q[i + 1])
      /\ Len(q) \in Nat \ {0}
  BY HeadAndTail
<1> HIDE DEF p
<1>2. w \in Seq(Nat) /\ Len(w) = Len(q) - 1
      /\ \A i \in 1 .. Len(q) - 1 : w[i] = IF ClosedOnly(p[i]) THEN 0 ELSE 1
  BY <1>1, WaitsAre
<1>3. m \in Seq(Nat) /\ Len(m) = Len(q)
      /\ \A i \in 1 .. Len(q) : m[i] = IF ClosedOnly(q[i]) THEN 0 ELSE 1
  BY WaitsAre
<1> HIDE DEF w, m
<1>4. ASSUME NEW i \in 1 .. Len(q) - 1 PROVE w[i] = m[i + 1]
  <2>1. i + 1 \in 1 .. Len(q) /\ p[i] = q[i + 1]
    BY <1>1
  <2> QED
    BY <1>2, <1>3, <2>1
<1>5. w = Tail(m)
  BY <1>1, <1>2, <1>3, <1>4, MapTail
<1>6. m # <<>> /\ m[1] = b
  BY <1>1, <1>3
<1> QED
  BY <1>3, <1>5, <1>6, SumsTail DEF p, w, m

-----------------------------------------------------------------------------
(* Sequence numbers and the cells of the ring *)

LEMMA SizeFacts ==
  /\ SeqSpace \in Nat \ {0} /\ BufSize \in Nat \ {0} /\ Short \in Nat \ {0}
  /\ StreamLen \in Nat \ {0} /\ Depth \in Nat \ {0} /\ SeqSpace % BufSize = 0
  /\ \A s \in Starts : s.bypass \in BOOLEAN /\ s.isn \in 0 .. SeqSpace - 1
  /\ \A s \in Segments : /\ s.pos \in 0 .. StreamLen /\ s.len \in 0 .. StreamLen
                         /\ s.flags \in {"ACK", "FIN", "RST", "other"}
  BY SizeAssumption DEF Segment

(* A remainder may be taken first. *)
LEMMA ModPlus ==
  ASSUME NEW a \in Int, NEW m \in Nat \ {0}, NEW n \in Int
  PROVE  ((a % m) + n) % m = (a + n) % m
<1> DEFINE r == a % m
           q == a \div m
           t == (r + n) % m
           p == (r + n) \div m
<1>1. q \in Int /\ r \in Int /\ a = m * q + r
  BY ModRange, ModDiv
<1> HIDE DEF q, r
<1>2. p \in Int /\ t \in 0 .. m - 1 /\ r + n = m * p + t
  BY <1>1, ModRange, ModDiv
<1> HIDE DEF p, t
<1>3. a + n = m * (q + p) + t /\ q + p \in Int /\ a + n \in Int
  BY <1>1, <1>2
<1>4. (a + n) % m = t
  BY <1>2, <1>3, ModUnique
<1> QED
  BY <1>4 DEF t, r

(* Numbers less than a turn apart have different remainders, and the       *)
(* remainders tell their distance.                                         *)
LEMMA ModApart ==
  ASSUME NEW a \in Int, NEW m \in Nat \ {0}, NEW d \in 0 .. m - 1
  PROVE  /\ (a + d) % m = a % m => d = 0
         /\ (((a + d) % m) + m - (a % m)) % m = d
<1> DEFINE r == a % m
           t == (a + d) % m
<1>1. r \in 0 .. m - 1 /\ t = IF r + d < m THEN r + d ELSE r + d - m
  <2>1. r \in 0 .. m - 1
    BY ModRange
  <2>2. d \in 0 .. m
    OBVIOUS
  <2>3. t = IF r + d < m THEN r + d ELSE r + d - m
    BY <2>2, ModAdd
  <2> QED
    BY <2>1, <2>3
<1> HIDE DEF r, t
<1>2. t = r => d = 0
  BY <1>1
<1>3. (t + m - r) % m = d
  <2>1. t + m - r = d \/ t + m - r = d + m
    BY <1>1
  <2>2. d % m = d /\ (d + m) % m = d
    BY ModSmall
  <2> QED
    BY <2>1, <2>2
<1> QED
  BY <1>2, <1>3 DEF r, t

(* The cell of the ring buffer for byte p of the stream. *)
Cell(p) == (Isn + p) % BufSize

LEMMA CellFacts ==
  ASSUME start \in Starts, NEW p \in Nat
  PROVE  /\ Cell(p) \in 0 .. BufSize - 1
         /\ SeqNumb(p) \in 0 .. SeqSpace - 1
         /\ SeqNumb(p) % BufSize = Cell(p)
         /\ \A n \in Nat : /\ (Cell(p) + n) % BufSize = Cell(p + n)
                           /\ (SeqNumb(p) + n) % SeqSpace = SeqNumb(p + n)
         /\ \A d \in 0 .. BufSize - 1 : /\ Cell(p + d) = Cell(p) => d = 0
                                        /\ (Cell(p + d) + BufSize - Cell(p)) % BufSize = d
<1> DEFINE a == Isn + p
<1>1. a \in Int /\ a \in Nat /\ Isn \in Nat
  BY SizeFacts DEF Isn
<1>2. Cell(p) \in 0 .. BufSize - 1 /\ SeqNumb(p) \in 0 .. SeqSpace - 1
  BY <1>1, SizeFacts, ModRange DEF Cell, SeqNumb
<1>3. SeqNumb(p) % BufSize = Cell(p)
  <2> HIDE DEF a
  <2>1. (a % SeqSpace) % BufSize = a % BufSize
    BY <1>1, SizeFacts, ModMod
  <2> QED
    BY <2>1 DEF SeqNumb, Cell, a
<1>4. ASSUME NEW n \in Nat
      PROVE  /\ (Cell(p) + n) % BufSize = Cell(p + n)
             /\ (SeqNumb(p) + n) % SeqSpace = SeqNumb(p + n)
  <2>1. Isn + (p + n) = a + n
    BY <1>1
  <2> HIDE DEF a
  <2>2. n \in Int /\ a \in Int /\ BufSize \in Nat \ {0} /\ SeqSpace \in Nat \ {0}
    BY <1>1, SizeFacts
  <2>3. ((a % BufSize) + n) % BufSize = (a + n) % BufSize
    BY <2>2, ModPlus
  <2>4. ((a % SeqSpace) + n) % SeqSpace = (a + n) % SeqSpace
    BY <2>2, ModPlus
  <2> QED
    BY <2>1, <2>3, <2>4 DEF SeqNumb, Cell, a
<1>5. ASSUME NEW d \in 0 .. BufSize - 1
      PROVE  /\ Cell(p + d) = Cell(p) => d = 0
             /\ (Cell(p + d) + BufSize - Cell(p)) % BufSize = d
  <2>1. Isn + (p + d) = a + d
    BY <1>1, SizeFacts
  <2> HIDE DEF a
  <2>a. a \in Int /\ BufSize \in Nat \ {0}
    BY <1>1, SizeFacts
  <2>2. /\ (a + d) % BufSize = a % BufSize => d = 0
        /\ (((a + d) % BufSize) + BufSize - (a % BufSize)) % BufSize = d
    BY <2>a, ModApart
  <2> QED
    BY <2>1, <2>2 DEF Cell, a
<1> QED
  BY <1>2, <1>3, <1>4, <1>5

(* Two bytes of one turn have different cells. *)
LEMMA CellsDiffer ==
  ASSUME start \in Starts, NEW b \in Nat, NEW p \in b .. b + BufSize - 1,
         NEW q \in b .. b + BufSize - 1, Cell(p) = Cell(q)
  PROVE  p = q
<1>1. p \in Nat /\ q \in Nat
  BY SizeFacts
<1>2. CASE p <= q
  <2>1. q - p \in 0 .. BufSize - 1 /\ p + (q - p) = q
    BY <1>1, <1>2, SizeFacts
  <2>2. Cell(p + (q - p)) = Cell(p) => q - p = 0
    BY <1>1, <2>1, CellFacts
  <2> QED
    BY <1>1, <2>1, <2>2
<1>3. CASE q <= p
  <2>1. p - q \in 0 .. BufSize - 1 /\ q + (p - q) = p
    BY <1>1, <1>3, SizeFacts
  <2>2. Cell(q + (p - q)) = Cell(q) => p - q = 0
    BY <1>1, <2>1, CellFacts
  <2> QED
    BY <1>1, <2>1, <2>2
<1> QED
  BY <1>1, <1>2, <1>3

(* Sequence numbers tell the positions of the stream apart. *)
LEMMA SeqFacts ==
  ASSUME SteadyPeer, start \in Starts, NEW p \in 0 .. StreamLen + 1
  PROVE  /\ Pos(SeqNumb(p)) = p
         /\ \A q \in 0 .. StreamLen + 1 : SeqNumb(p) = SeqNumb(q) => p = q
         /\ ~DdrBypass => SeqNumb(p) = Isn + p
<1>1. StreamLen + 1 < SeqSpace /\ Isn \in 0 .. SeqSpace - 1 /\ SeqSpace \in Nat \ {0}
      /\ StreamLen \in Nat
  BY SizeFacts DEF SteadyPeer, Isn
<1>2. \A q \in 0 .. StreamLen + 1 : Pos(SeqNumb(q)) = q
  <2>1. ASSUME NEW q \in 0 .. StreamLen + 1 PROVE Pos(SeqNumb(q)) = q
    <3>1. q \in 0 .. SeqSpace - 1 /\ Isn \in Int /\ q \in 0 .. SeqSpace
      BY <1>1
    <3>2. ((Isn + q) % SeqSpace) + SeqSpace - (Isn % SeqSpace) \in Int
          /\ (((Isn + q) % SeqSpace) + SeqSpace - (Isn % SeqSpace)) % SeqSpace = q
      BY <1>1, <3>1, ModApart, ModRange
    <3>3. Isn % SeqSpace = Isn
      BY <1>1, ModSmall
    <3> QED
      BY <3>2, <3>3 DEF Pos, SeqNumb
  <2> QED
    BY <2>1
<1>3. ASSUME ~DdrBypass PROVE SeqNumb(p) = Isn + p
  <2>1. Isn + p \in 0 .. SeqSpace - 1
    BY <1>1, <1>3 DEF SteadyPeer, DdrBypass, Isn
  <2> QED
    BY <1>1, <2>1, ModSmall DEF SeqNumb
<1>4. \A q \in 0 .. StreamLen + 1 : SeqNumb(p) = SeqNumb(q) => p = q
  BY <1>2
<1> QED
  BY <1>2, <1>3, <1>4

-----------------------------------------------------------------------------
(* The inductive invariant *)

SarEntry == [recvd : 0 .. SeqSpace - 1, head : 0 .. SeqSpace - 1, offset : 0 .. SeqSpace - 1,
             gap : BOOLEAN, appd : 0 .. BufSize - 1]
Command == [addr : 0 .. BufSize - 1, len : Nat]
FsmEntry == [seg : Segments, sar : SarEntry]

Types ==
  /\ start \in Starts /\ sar \in SarEntry /\ state \in {"ESTABLISHED", "LAST_ACK", "CLOSED"}
  /\ payloads \in Seq(Segments) /\ Len(payloads) <= Depth
  /\ fsmMeta \in Seq(Segments) /\ Len(fsmMeta) <= Depth
  /\ kept \in Seq(Segments) /\ Len(kept) <= Depth
  /\ drop1 \in Seq(BOOLEAN) /\ Len(drop1) <= Depth
  /\ drop2 \in Seq(BOOLEAN) /\ Len(drop2) <= Depth
  /\ fsm \in Seq(FsmEntry) /\ Len(fsm) <= 1
  /\ writes \in Seq(Command) /\ Len(writes) <= Depth
  /\ reads \in Seq(Command) /\ Len(reads) <= Depth
  /\ delayed \in Seq(Note) /\ Len(delayed) <= Depth
  /\ notes \in Seq(Note) /\ Len(notes) <= Depth
  /\ mem \in [0 .. BufSize - 1 -> -1 .. StreamLen - 1] /\ statuses \in Nat
  /\ delivered \in Seq(Nat)

(* rxTcpFSM is to decide about a payload. *)
Deciding == fsm # <<>> /\ fsm[1].seg.len # 0

(* The payloads that rxMetadataHandler has not dropped, U, are those       *)
(* rxTcpFSM has decided about, D, the one it is to decide about, and those *)
(* of the segments it has not loaded, P.                                   *)
Joined(U, D, P) ==
  /\ Len(D) = Len(drop2)
  /\ \A i \in 1 .. Len(D) : U[i] = D[i]
  /\ Deciding => /\ Len(U) = Len(D) + 1 + Len(P) /\ U[Len(D) + 1] = fsm[1].seg
                 /\ \A j \in 1 .. Len(P) : U[Len(D) + 1 + j] = P[j]
  /\ ~Deciding => /\ Len(U) = Len(D) + Len(P)
                  /\ \A j \in 1 .. Len(P) : U[Len(D) + j] = P[j]

(* C: the payloads accepted and not yet taken to the memory or to the      *)
(* application; first those the dropper has forwarded, then those, A,      *)
(* whose decision it has not read.                                         *)
Accounts(C, U, D, P, A) ==
  /\ Len(payloads) = Len(drop1)
  /\ Selects(payloads, Undropped(drop1), U)
  /\ Selects(fsmMeta, Pending(fsmMeta), P)
  /\ Joined(U, D, P)
  /\ Selects(D, Undropped(drop2), A)
  /\ Len(C) = Len(kept) + Len(A)
  /\ \A i \in 1 .. Len(kept) : C[i] = kept[i]
  /\ \A j \in 1 .. Len(A) : C[Len(kept) + j] = A[j]
Matched(C) == \E U, D, P, A \in Seq(Segments) : Accounts(C, U, D, P, A)

(* Where the data that is in order ends, when recvd is at R. *)
DataEnd(R) == IF R = StreamLen + 1 THEN StreamLen ELSE R

InWindow(seg) == seg.pos + seg.len <= WindowEdge
Windows(C) == /\ \A i \in 1 .. Len(fsmMeta) : InWindow(fsmMeta[i])
              /\ \A i \in 1 .. Len(fsm) : InWindow(fsm[i].seg)
              /\ \A i \in 1 .. Len(C) : InWindow(C[i])

(* recvd, head and offset are at R, H and O.  Notified is all that is in   *)
(* order; the entry that rxTcpFSM has read is only behind in appd.         *)
Pointers(R, H, O) ==
  /\ sar.recvd = SeqNumb(R) /\ sar.head = SeqNumb(H)
  /\ sar.gap => sar.offset = SeqNumb(O)
  /\ AppPos + Total(Lens(notes)) + Total(Lens(delayed)) = DataEnd(R)
  /\ fsm # <<>> => /\ fsm[1].sar.recvd = sar.recvd /\ fsm[1].sar.head = sar.head
                   /\ fsm[1].sar.offset = sar.offset /\ fsm[1].sar.gap = sar.gap

(* The build with the FIFO: the payloads in it follow each other, and      *)
(* every one has its read or its notification, of its length.              *)
FifoOf(C, R, N) ==
  /\ Selects(notes, Pending(notes), N)
  /\ C = <<>> => Len(delivered) = DataEnd(R)
  /\ C # <<>> => C[1].pos = Len(delivered) /\ C[Len(C)].pos + C[Len(C)].len = DataEnd(R)
  /\ \A i \in 1 .. Len(C) - 1 : C[i + 1].pos = C[i].pos + C[i].len
  /\ Len(C) = Len(reads) + Len(N)
  /\ \A i \in 1 .. Len(reads) : reads[i].len = C[i].len
  /\ \A j \in 1 .. Len(N) : C[Len(reads) + j].len = N[j].len
FifoBuild(C, R, H) ==
  /\ writes = <<>> /\ delayed = <<>> /\ statuses = 0 /\ sar.gap = FALSE /\ R = H
  /\ \E N \in Seq(Note) : FifoOf(C, R, N)

(* The build with the ring buffer.  After k of the delayed notifications   *)
(* the application knows of the stream up to NotifiedAt(k), and WrittenAt(k) *)
(* write statuses have been used.                                          *)
NotifiedAt(k) == AppPos + Total(Lens(notes)) + Sums(Lens(delayed))[k]
WrittenAt(k) == Sums(Waits(delayed))[k]

Carries(seg, p) == seg.pos <= p /\ p < seg.pos + seg.len

(* Byte p is in the buffer or among the first n payloads to be written.    *)
Covered(C, p, n) == mem[Cell(p)] = p \/ \E j \in 1 .. Len(C) : j <= n /\ Carries(C[j], p)

GapAt(R, H, O) ==
  /\ sar.gap => /\ R < O /\ O < H /\ H <= StreamLen
                /\ \E s \in Segments : s.len # 0 /\ s.pos = O
  /\ ~sar.gap => H = R
  /\ H <= AppPos + BufSize - (IF R = StreamLen + 1 THEN 0 ELSE 1)
Commands(C) ==
  /\ Len(writes) = Len(C)
  /\ \A i \in 1 .. Len(C) : writes[i].addr = Cell(C[i].pos) /\ writes[i].len = C[i].len
  /\ Total(Waits(delayed)) = statuses + Len(C)
Contents(C) ==
  \A k \in 0 .. Len(delayed) : \A p \in Nat :
    Len(delivered) <= p /\ p < NotifiedAt(k) => Covered(C, p, WrittenAt(k) - statuses)
GapContents(C, H, O) == sar.gap => \A p \in Nat : O <= p /\ p < H => Covered(C, p, Len(C))
Unnotified(C) == \A k \in 0 .. Len(delayed), j \in 1 .. Len(C) :
                   WrittenAt(k) < statuses + j => NotifiedAt(k) <= C[j].pos
ReadsAt ==
  /\ \A i \in 1 .. Len(reads) : reads[i].addr = Cell(Len(delivered) + Sums(Lens(reads))[i - 1])
  /\ sar.appd = Cell(AppPos)
RingBuild(C, R, H, O) == /\ GapAt(R, H, O) /\ Commands(C) /\ Contents(C)
                         /\ GapContents(C, H, O) /\ Unnotified(C) /\ ReadsAt

Positions == 0 .. StreamLen + 1
Parts(C, R, H, O) ==
  /\ Matched(C) /\ Windows(C) /\ Pointers(R, H, O)
  /\ DdrBypass => FifoBuild(C, R, H)
  /\ ~DdrBypass => RingBuild(C, R, H, O)

Inv == /\ SteadyPeer /\ Types /\ StreamDelivered
       /\ \E C \in Seq(Segments), R, H, O \in Positions : Parts(C, R, H, O)

-----------------------------------------------------------------------------
(* Payloads and decisions *)

(* Nothing of it moves. *)
LEMMA MatchedSame ==
  ASSUME NEW C \in Seq(Segments), Matched(C),
         UNCHANGED <<payloads, drop1, drop2, fsmMeta, fsm, kept>>
  PROVE  Matched(C)'
<1>1. PICK U, D, P, A \in Seq(Segments) : Accounts(C, U, D, P, A)
  BY DEF Matched
<1>2. Accounts(C, U, D, P, A)'
  BY <1>1 DEF Accounts, Joined, Deciding
<1> QED
  BY <1>2 DEF Matched

(* A segment arrives. *)
LEMMA MatchedReceive ==
  ASSUME Types, NEW C \in Seq(Segments), Matched(C), NEW seg \in Segments, NEW hit \in BOOLEAN,
         Receive(seg, hit)
  PROVE  Matched(C)'
<1>1. PICK U, D, P, A \in Seq(Segments) : Accounts(C, U, D, P, A)
  BY DEF Matched
<1>2. payloads \in Seq(Segments) /\ drop1 \in Seq(BOOLEAN) /\ fsmMeta \in Seq(Segments)
  BY DEF Types
<1>3. UNCHANGED <<drop2, fsm, kept>>
  BY DEF Receive
<1>4. CASE seg.len # 0 /\ hit
  <2>1. payloads' = Append(payloads, seg) /\ drop1' = Append(drop1, FALSE)
        /\ fsmMeta' = Append(fsmMeta, seg)
    BY <1>4 DEF Receive
  <2> DEFINE V == Append(U, seg)
             Q == Append(P, seg)
  <2>2. V \in Seq(Segments) /\ Len(V) = Len(U) + 1 /\ V[Len(U) + 1] = seg
        /\ (\A i \in 1 .. Len(U) : V[i] = U[i]) /\ Len(U) \in Nat
        /\ Q \in Seq(Segments) /\ Len(Q) = Len(P) + 1 /\ Q[Len(P) + 1] = seg
        /\ (\A i \in 1 .. Len(P) : Q[i] = P[i]) /\ Len(P) \in Nat /\ Len(D) \in Nat
    BY Appended
  <2>3. Selects(payloads', Undropped(drop1'), V)
    <3>1. Undropped(drop1) \in Seq(Bits) /\ Undropped(drop1') = Append(Undropped(drop1), 1)
      BY <1>2, <2>1, UndroppedAre, UndroppedAppend
    <3> QED
      BY <1>1, <1>2, <2>1, <3>1, SelectsAppend DEF Accounts
  <2>4. Selects(fsmMeta', Pending(fsmMeta'), Q)
    <3>1. Pending(fsmMeta) \in Seq(Bits) /\ Pending(fsmMeta') = Append(Pending(fsmMeta), 1)
      BY <1>2, <1>4, <2>1, PendingAre, PendingAppend
    <3> QED
      BY <1>1, <1>2, <2>1, <3>1, SelectsAppend DEF Accounts
  <2>5. Len(payloads') = Len(drop1')
    BY <1>1, <1>2, <2>1 DEF Accounts
  <2> HIDE DEF V, Q
  <2>6. Joined(V, D, Q)'
    <3>1. Joined(U, D, P)
      BY <1>1 DEF Accounts
    <3>2. \A i \in 1 .. Len(D) : V[i] = D[i]
      BY <2>2, <3>1 DEF Joined
    <3>3. ASSUME NEW b \in {0, 1}, Len(U) = Len(D) + b + Len(P),
                 \A j \in 1 .. Len(P) : U[Len(D) + b + j] = P[j]
          PROVE  /\ Len(V) = Len(D) + b + Len(Q)
                 /\ \A j \in 1 .. Len(Q) : V[Len(D) + b + j] = Q[j]
      <4>1. ASSUME NEW j \in 1 .. Len(Q) PROVE V[Len(D) + b + j] = Q[j]
        <5>1. CASE j = Len(P) + 1
          <6>1. Len(D) + b + j = Len(U) + 1
            BY <2>2, <3>3, <5>1
          <6> QED
            BY <2>2, <5>1, <6>1
        <5>2. CASE j # Len(P) + 1
          <6>1. j \in 1 .. Len(P) /\ Len(D) + b + j \in 1 .. Len(U)
            BY <2>2, <3>3, <5>2
          <6> QED
            BY <2>2, <3>3, <6>1
        <5> QED
          BY <5>1, <5>2
      <4> QED
        BY <2>2, <3>3, <4>1
    <3>4. CASE Deciding
      <4>1. Len(U) = Len(D) + 1 + Len(P) /\ U[Len(D) + 1] = fsm[1].seg
            /\ \A j \in 1 .. Len(P) : U[Len(D) + 1 + j] = P[j]
        BY <3>1, <3>4 DEF Joined
      <4>2. Len(V) = Len(D) + 1 + Len(Q) /\ \A j \in 1 .. Len(Q) : V[Len(D) + 1 + j] = Q[j]
        BY <3>3, <4>1
      <4>3. V[Len(D) + 1] = fsm[1].seg
        BY <2>2, <4>1
      <4> QED
        BY <1>3, <3>1, <3>2, <3>4, <4>2, <4>3 DEF Joined, Deciding
    <3>5. CASE ~Deciding
      <4>1. Len(U) = Len(D) + 0 + Len(P) /\ \A j \in 1 .. Len(P) : U[Len(D) + 0 + j] = P[j]
        BY <2>2, <3>1, <3>5 DEF Joined
      <4>2. Len(V) = Len(D) + 0 + Len(Q) /\ \A j \in 1 .. Len(Q) : V[Len(D) + 0 + j] = Q[j]
        BY <3>3, <4>1
      <4>a. Len(D) + 0 = Len(D) /\ Len(Q) \in Nat
        BY <2>2
      <4>3. Len(V) = Len(D) + Len(Q) /\ \A j \in 1 .. Len(Q) : V[Len(D) + j] = Q[j]
        BY <4>a, <4>2
      <4> QED
        BY <1>3, <3>1, <3>2, <3>5, <4>3 DEF Joined, Deciding
    <3> QED
      BY <3>4, <3>5
  <2>7. Accounts(C, V, D, Q, A)'
    BY <1>1, <1>3, <2>3, <2>4, <2>5, <2>6 DEF Accounts
  <2> QED
    BY <2>2, <2>7 DEF Matched
<1>5. CASE seg.len # 0 /\ ~hit
  <2>1. payloads' = Append(payloads, seg) /\ drop1' = Append(drop1, TRUE) /\ fsmMeta' = fsmMeta
    BY <1>5 DEF Receive
  <2>3. Selects(payloads', Undropped(drop1'), U)
    <3>1. Undropped(drop1) \in Seq(Bits) /\ Undropped(drop1') = Append(Undropped(drop1), 0)
      BY <1>2, <2>1, UndroppedAre, UndroppedAppend
    <3> QED
      BY <1>1, <1>2, <2>1, <3>1, SelectsAppend DEF Accounts
  <2>5. Len(payloads') = Len(drop1')
    BY <1>1, <1>2, <2>1 DEF Accounts
  <2>7. Accounts(C, U, D, P, A)'
    BY <1>1, <1>3, <2>1, <2>3, <2>5 DEF Accounts, Joined, Deciding
  <2> QED
    BY <2>7 DEF Matched
<1>6. CASE seg.len = 0 /\ hit
  <2>1. payloads' = payloads /\ drop1' = drop1 /\ fsmMeta' = Append(fsmMeta, seg)
    BY <1>6 DEF Receive
  <2>4. Selects(fsmMeta', Pending(fsmMeta'), P)
    <3>1. Pending(fsmMeta) \in Seq(Bits) /\ Pending(fsmMeta') = Append(Pending(fsmMeta), 0)
      BY <1>2, <1>6, <2>1, PendingAre, PendingAppend
    <3> QED
      BY <1>1, <1>2, <2>1, <3>1, SelectsAppend DEF Accounts
  <2>7. Accounts(C, U, D, P, A)'
    BY <1>1, <1>3, <2>1, <2>4 DEF Accounts, Joined, Deciding
  <2> QED
    BY <2>7 DEF Matched
<1>7. CASE seg.len = 0 /\ ~hit
  <2>1. UNCHANGED <<payloads, drop1, drop2, fsmMeta, fsm, kept>>
    BY <1>3, <1>7 DEF Receive
  <2> QED
    BY <2>1, MatchedSame
<1> QED
  BY <1>4, <1>5, <1>6, <1>7

(* rxTcpFSM loads a segment. *)
LEMMA MatchedLoad ==
  ASSUME Types, NEW C \in Seq(Segments), Matched(C), FsmLoad
  PROVE  Matched(C)'
<1>1. PICK U, D, P, A \in Seq(Segments) : Accounts(C, U, D, P, A)
  BY DEF Matched
<1>2. fsmMeta \in Seq(Segments) /\ fsmMeta # <<>> /\ fsmMeta' = Tail(fsmMeta) /\ fsm = <<>>
      /\ fsm' = <<[seg |-> fsmMeta[1], sar |-> sar]>>
      /\ UNCHANGED <<payloads, drop1, drop2, kept>>
  BY HeadAndTail DEF Types, FsmLoad
<1>3. fsm' # <<>> /\ fsm'[1].seg = fsmMeta[1]
  BY <1>2
<1>4. Joined(U, D, P) /\ Selects(fsmMeta, Pending(fsmMeta), P) /\ Pending(fsmMeta) \in Seq(Bits)
  BY <1>1, <1>2, PendingAre DEF Accounts
<1>5. Pending(fsmMeta') = Tail(Pending(fsmMeta))
      /\ Pending(fsmMeta)[1] = IF fsmMeta[1].len # 0 THEN 1 ELSE 0
  BY <1>2, PendingTail
<1>6. Len(U) = Len(D) + Len(P) /\ (\A j \in 1 .. Len(P) : U[Len(D) + j] = P[j])
      /\ (\A i \in 1 .. Len(D) : U[i] = D[i]) /\ Len(D) = Len(drop2)
      /\ Len(D) \in Nat /\ Len(P) \in Nat
  BY <1>2, <1>4 DEF Joined, Deciding
<1>7. CASE fsmMeta[1].len # 0
  <2>a. P # <<>> /\ P[1] = fsmMeta[1]
        /\ Selects(Tail(fsmMeta), Tail(Pending(fsmMeta)), Tail(P))
    <3>1. fsmMeta \in Seq(Segments) /\ fsmMeta # <<>> /\ Pending(fsmMeta)[1] = 1
      BY <1>2, <1>5, <1>7
    <3> QED
      BY <1>4, <3>1, SelectsTail
  <2>1. P # <<>> /\ P[1] = fsmMeta[1] /\ Selects(fsmMeta', Pending(fsmMeta'), Tail(P))
    BY <1>2, <1>5, <2>a
  <2> DEFINE Q == Tail(P)
  <2>2. Q \in Seq(Segments) /\ Len(Q) = Len(P) - 1 /\ Len(P) \in Nat \ {0}
        /\ \A j \in 1 .. Len(P) - 1 : Q[j] = P[j + 1]
    BY <2>1, HeadAndTail
  <2> HIDE DEF Q
  <2>3. ASSUME NEW j \in 1 .. Len(Q) PROVE U[Len(D) + 1 + j] = Q[j]
    <3>1. j + 1 \in 1 .. Len(P) /\ Len(D) + (j + 1) = Len(D) + 1 + j
      BY <1>6, <2>2
    <3>2. U[Len(D) + (j + 1)] = P[j + 1]
      BY <1>6, <3>1
    <3> QED
      BY <2>2, <3>1, <3>2
  <2>4. Len(U) = Len(D) + 1 + Len(Q) /\ U[Len(D) + 1] = fsmMeta[1]
    BY <1>6, <2>1, <2>2
  <2>5. Joined(U, D, Q)'
    BY <1>2, <1>3, <1>6, <1>7, <2>3, <2>4 DEF Joined, Deciding
  <2>6. Accounts(C, U, D, Q, A)'
    BY <1>1, <1>2, <2>1, <2>5 DEF Accounts, Q
  <2> QED
    BY <2>2, <2>6 DEF Matched
<1>8. CASE fsmMeta[1].len = 0
  <2>a. Selects(Tail(fsmMeta), Tail(Pending(fsmMeta)), P)
    <3>1. fsmMeta \in Seq(Segments) /\ fsmMeta # <<>> /\ Pending(fsmMeta)[1] = 0
      BY <1>2, <1>5, <1>8
    <3> QED
      BY <1>4, <3>1, SelectsTail
  <2>1. Selects(fsmMeta', Pending(fsmMeta'), P)
    BY <1>2, <1>5, <2>a
  <2>2. Joined(U, D, P)'
    BY <1>2, <1>3, <1>6, <1>8 DEF Joined, Deciding
  <2>3. Accounts(C, U, D, P, A)'
    BY <1>1, <1>2, <2>1, <2>2 DEF Accounts
  <2> QED
    BY <2>3 DEF Matched
<1> QED
  BY <1>7, <1>8

(* rxTcpFSM is done with a segment without data. *)
LEMMA MatchedNoData ==
  ASSUME Types, NEW C \in Seq(Segments), Matched(C), fsm # <<>>, fsm[1].seg.len = 0, fsm' = <<>>,
         UNCHANGED <<payloads, drop1, drop2, fsmMeta, kept>>
  PROVE  Matched(C)'
<1>1. PICK U, D, P, A \in Seq(Segments) : Accounts(C, U, D, P, A)
  BY DEF Matched
<1>2. Accounts(C, U, D, P, A)'
  BY <1>1 DEF Accounts, Joined, Deciding
<1> QED
  BY <1>2 DEF Matched

(* rxTcpFSM decides about a payload. *)
LEMMA MatchedDecide ==
  ASSUME Types, NEW C \in Seq(Segments), Matched(C), fsm # <<>>, fsm[1].seg.len # 0, fsm' = <<>>,
         NEW drop \in BOOLEAN, drop2' = Append(drop2, drop), NEW seg \in Segments, seg = fsm[1].seg,
         UNCHANGED <<payloads, drop1, fsmMeta, kept>>
  PROVE  /\ drop = TRUE => Matched(C)'
         /\ drop = FALSE => Matched(Append(C, seg))'
<1>1. PICK U, D, P, A \in Seq(Segments) : Accounts(C, U, D, P, A)
  BY DEF Matched
<1> DEFINE E == Append(D, seg)
<1>2. E \in Seq(Segments) /\ Len(E) = Len(D) + 1 /\ E[Len(D) + 1] = seg
      /\ (\A i \in 1 .. Len(D) : E[i] = D[i]) /\ Len(D) \in Nat /\ Len(P) \in Nat
  BY Appended
<1>3. Len(D) = Len(drop2) /\ (\A i \in 1 .. Len(D) : U[i] = D[i])
      /\ Len(U) = Len(D) + 1 + Len(P) /\ U[Len(D) + 1] = seg
      /\ (\A j \in 1 .. Len(P) : U[Len(D) + 1 + j] = P[j])
  BY <1>1 DEF Accounts, Joined, Deciding
<1>4. drop2 \in Seq(BOOLEAN) /\ Len(drop2') = Len(drop2) + 1
      /\ Undropped(drop2) \in Seq(Bits) /\ Selects(D, Undropped(drop2), A)
      /\ Undropped(drop2') = Append(Undropped(drop2), IF drop THEN 0 ELSE 1)
  BY <1>1, UndroppedAre, UndroppedAppend DEF Types, Accounts
<1>5. Selects(E, Append(Undropped(drop2), 1), Append(A, seg))
      /\ Selects(E, Append(Undropped(drop2), 0), A)
  BY <1>4, SelectsAppend
<1> HIDE DEF E
<1>6. Joined(U, E, P)'
  <2>1. \A i \in 1 .. Len(E) : U[i] = E[i]
    <3>1. ASSUME NEW i \in 1 .. Len(E) PROVE U[i] = E[i]
      <4>1. i = Len(D) + 1 \/ i \in 1 .. Len(D)
        BY <1>2
      <4> QED
        BY <1>2, <1>3, <4>1
    <3> QED
      BY <3>1
  <2>2. Len(U) = Len(E) + Len(P) /\ \A j \in 1 .. Len(P) : U[Len(E) + j] = P[j]
    BY <1>2, <1>3
  <2>3. fsm' = <<>> /\ Len(E) = Len(drop2')
    BY <1>2, <1>3, <1>4
  <2> QED
    BY <2>1, <2>2, <2>3 DEF Joined, Deciding
<1>7. ASSUME drop = TRUE PROVE Matched(C)'
  <2>1. Selects(E, Undropped(drop2'), A)
    BY <1>4, <1>5, <1>7
  <2>2. Accounts(C, U, E, P, A)'
    BY <1>1, <1>6, <2>1 DEF Accounts
  <2> QED
    BY <1>2, <2>2 DEF Matched
<1>8. ASSUME drop = FALSE PROVE Matched(Append(C, seg))'
  <2> DEFINE B == Append(A, seg)
             G == Append(C, seg)
  <2>1. Selects(E, Undropped(drop2'), B)
    BY <1>4, <1>5, <1>8
  <2>2. B \in Seq(Segments) /\ Len(B) = Len(A) + 1 /\ B[Len(A) + 1] = seg
        /\ (\A i \in 1 .. Len(A) : B[i] = A[i]) /\ Len(A) \in Nat
        /\ G \in Seq(Segments) /\ Len(G) = Len(C) + 1 /\ G[Len(C) + 1] = seg
        /\ (\A i \in 1 .. Len(C) : G[i] = C[i]) /\ Len(C) \in Nat
    BY Appended
  <2> HIDE DEF B, G
  <2>3. Len(C) = Len(kept) + Len(A) /\ (\A i \in 1 .. Len(kept) : C[i] = kept[i])
        /\ (\A j \in 1 .. Len(A) : C[Len(kept) + j] = A[j]) /\ Len(kept) \in Nat
    BY <1>1 DEF Accounts, Types
  <2>4. Len(G) = Len(kept) + Len(B) /\ (\A i \in 1 .. Len(kept) : G[i] = kept[i])
    <3>1. Len(G) = Len(kept) + Len(B)
      BY <2>2, <2>3
    <3>2. ASSUME NEW i \in 1 .. Len(kept) PROVE G[i] = kept[i]
      <4>1. i \in 1 .. Len(C)
        BY <2>2, <2>3
      <4> QED
        BY <2>2, <2>3, <4>1
    <3> QED
      BY <3>1, <3>2
  <2>5. ASSUME NEW j \in 1 .. Len(B) PROVE G[Len(kept) + j] = B[j]
    <3>1. CASE j = Len(A) + 1
      <4>1. Len(kept) + j = Len(C) + 1
        BY <2>2, <2>3, <3>1
      <4> QED
        BY <2>2, <3>1, <4>1
    <3>2. CASE j # Len(A) + 1
      <4>1. j \in 1 .. Len(A) /\ Len(kept) + j \in 1 .. Len(C)
        BY <2>2, <2>3, <3>2
      <4> QED
        BY <2>2, <2>3, <4>1
    <3> QED
      BY <3>1, <3>2
  <2>6. Accounts(G, U, E, P, B)'
    BY <1>1, <1>6, <2>1, <2>4, <2>5 DEF Accounts
  <2>7. Matched(G)'
    BY <1>2, <2>2, <2>6 DEF Matched
  <2> QED
    BY <2>7 DEF G
<1> QED
  BY <1>7, <1>8

(* The dropper passes a payload on, or drops it. *)
LEMMA MatchedDropper ==
  ASSUME Types, NEW C \in Seq(Segments), Matched(C), Dropper
  PROVE  Matched(C)'
<1>1. PICK U, D, P, A \in Seq(Segments) : Accounts(C, U, D, P, A)
  BY DEF Matched
<1>2. payloads \in Seq(Segments) /\ payloads # <<>> /\ payloads' = Tail(payloads)
      /\ drop1 \in Seq(BOOLEAN) /\ drop1 # <<>> /\ drop1' = Tail(drop1) /\ Head(drop1) = drop1[1]
      /\ Head(payloads) = payloads[1] /\ drop1[1] \in BOOLEAN
      /\ UNCHANGED <<fsm, fsmMeta>> /\ Len(payloads) = Len(drop1)
      /\ drop2 \in Seq(BOOLEAN)
  BY <1>1, HeadAndTail DEF Types, Dropper, Accounts
<1>3. Len(payloads') = Len(drop1')
  BY <1>2
<1>4. Undropped(drop1') = Tail(Undropped(drop1))
      /\ Undropped(drop1)[1] = (IF drop1[1] THEN 0 ELSE 1)
      /\ Undropped(drop1) \in Seq(Bits) /\ Selects(payloads, Undropped(drop1), U)
  BY <1>1, <1>2, UndroppedTail, UndroppedAre DEF Accounts
<1>5. CASE drop1[1]
  <2>1. UNCHANGED <<drop2, kept>>
    BY <1>2, <1>5 DEF Dropper
  <2>a. Selects(Tail(payloads), Tail(Undropped(drop1)), U)
    <3>1. payloads \in Seq(Segments) /\ payloads # <<>> /\ Undropped(drop1)[1] = 0
      BY <1>2, <1>4, <1>5
    <3> QED
      BY <1>4, <3>1, SelectsTail
  <2>2. Selects(payloads', Undropped(drop1'), U)
    BY <1>2, <1>4, <2>a
  <2>3. Accounts(C, U, D, P, A)'
    BY <1>1, <1>2, <1>3, <2>1, <2>2 DEF Accounts, Joined, Deciding
  <2> QED
    BY <2>3 DEF Matched
<1>6. CASE ~drop1[1]
  <2>1. drop2 # <<>> /\ drop2' = Tail(drop2) /\ drop2[1] \in BOOLEAN
        /\ kept' = IF drop2[1] THEN kept ELSE Append(kept, payloads[1])
    BY <1>2, <1>6, HeadAndTail DEF Dropper
  <2>a. U # <<>> /\ U[1] = payloads[1]
        /\ Selects(Tail(payloads), Tail(Undropped(drop1)), Tail(U))
    <3>1. payloads \in Seq(Segments) /\ payloads # <<>> /\ Undropped(drop1)[1] = 1
      BY <1>2, <1>4, <1>6
    <3> QED
      BY <1>4, <3>1, SelectsTail
  <2>2. U # <<>> /\ U[1] = payloads[1] /\ Selects(payloads', Undropped(drop1'), Tail(U))
    BY <1>2, <1>4, <2>a
  <2>3. Joined(U, D, P) /\ Len(D) = Len(drop2) /\ Len(drop2) \in Nat \ {0} /\ D # <<>>
        /\ Len(drop2') = Len(drop2) - 1
    BY <1>1, <1>2, <2>1 DEF Accounts, Joined
  <2>4. U[1] = D[1]
    BY <2>3 DEF Joined
  <2> DEFINE V == Tail(U)
             E == Tail(D)
  <2>5. V \in Seq(Segments) /\ Len(V) = Len(U) - 1 /\ (\A i \in 1 .. Len(U) - 1 : V[i] = U[i + 1])
        /\ E \in Seq(Segments) /\ Len(E) = Len(D) - 1 /\ (\A i \in 1 .. Len(D) - 1 : E[i] = D[i + 1])
        /\ Len(U) \in Nat \ {0} /\ Len(D) \in Nat \ {0} /\ Len(P) \in Nat
    BY <2>2, <2>3, HeadAndTail
  <2>6. Undropped(drop2') = Tail(Undropped(drop2))
        /\ Undropped(drop2)[1] = (IF drop2[1] THEN 0 ELSE 1)
        /\ Undropped(drop2) \in Seq(Bits) /\ Selects(D, Undropped(drop2), A)
    BY <1>1, <1>2, <2>1, UndroppedTail, UndroppedAre DEF Accounts
  <2>7. Joined(V, E, P)'
    <3> HIDE DEF V, E
    <3>1. ASSUME NEW i \in 1 .. Len(E) PROVE V[i] = E[i]
      <4>1. i + 1 \in 1 .. Len(D) /\ i \in 1 .. Len(D) - 1
        BY <2>5
      <4>2. Len(D) <= Len(U)
        BY <2>3, <2>5 DEF Joined
      <4>3. U[i + 1] = D[i + 1] /\ i \in 1 .. Len(U) - 1
        BY <2>3, <2>5, <4>1, <4>2 DEF Joined
      <4> QED
        BY <2>5, <4>1, <4>3
    <3>2. ASSUME NEW b \in {0, 1}, Len(U) = Len(D) + b + Len(P),
                 \A j \in 1 .. Len(P) : U[Len(D) + b + j] = P[j]
          PROVE  /\ Len(V) = Len(E) + b + Len(P)
                 /\ \A j \in 1 .. Len(P) : V[Len(E) + b + j] = P[j]
      <4>1. ASSUME NEW j \in 1 .. Len(P) PROVE V[Len(E) + b + j] = P[j]
        <5>a. Len(E) = Len(D) - 1 /\ Len(D) \in Nat \ {0} /\ Len(P) \in Nat
          BY <2>5
        <5>b. b \in 0 .. 1 /\ Len(U) = Len(D) + b + Len(P)
          BY <3>2
        <5>1. Len(E) + b + j \in 1 .. Len(U) - 1 /\ Len(E) + b + j + 1 = Len(D) + b + j
          BY <5>a, <5>b
        <5> QED
          BY <2>5, <3>2, <5>1
      <4>2. Len(V) = Len(E) + b + Len(P)
        BY <2>5, <3>2
      <4> QED
        BY <4>1, <4>2
    <3>3. CASE Deciding
      <4>1. Len(U) = Len(D) + 1 + Len(P) /\ U[Len(D) + 1] = fsm[1].seg
            /\ \A j \in 1 .. Len(P) : U[Len(D) + 1 + j] = P[j]
        BY <2>3, <3>3 DEF Joined
      <4>2. Len(V) = Len(E) + 1 + Len(P) /\ \A j \in 1 .. Len(P) : V[Len(E) + 1 + j] = P[j]
        BY <3>2, <4>1
      <4>3. V[Len(E) + 1] = fsm[1].seg
        <5>1. Len(E) + 1 \in 1 .. Len(U) - 1 /\ Len(E) + 1 + 1 = Len(D) + 1
          BY <2>5, <4>1
        <5> QED
          BY <2>5, <4>1, <5>1
      <4> QED
        BY <1>2, <2>3, <2>5, <3>1, <3>3, <4>2, <4>3 DEF Joined, Deciding
    <3>4. CASE ~Deciding
      <4>1. Len(U) = Len(D) + 0 + Len(P) /\ \A j \in 1 .. Len(P) : U[Len(D) + 0 + j] = P[j]
        BY <2>3, <2>5, <3>4 DEF Joined
      <4>2. Len(V) = Len(E) + 0 + Len(P) /\ \A j \in 1 .. Len(P) : V[Len(E) + 0 + j] = P[j]
        BY <3>2, <4>1
      <4>a. Len(E) + 0 = Len(E) /\ Len(P) \in Nat
        BY <2>5
      <4>3. Len(V) = Len(E) + Len(P) /\ \A j \in 1 .. Len(P) : V[Len(E) + j] = P[j]
        BY <4>a, <4>2
      <4> QED
        BY <1>2, <2>3, <2>5, <3>1, <3>4, <4>3 DEF Joined, Deciding
    <3> QED
      BY <3>3, <3>4
  <2>8. CASE drop2[1]
    <3>1. Selects(E, Undropped(drop2'), A)
      BY <2>3, <2>6, <2>8, SelectsTail
    <3>2. kept' = kept
      BY <2>1, <2>8
    <3>3. Accounts(C, V, E, P, A)'
      BY <1>1, <1>2, <1>3, <2>2, <2>7, <3>1, <3>2 DEF Accounts
    <3> HIDE DEF V, E
    <3> QED
      BY <2>5, <3>3 DEF Matched
  <2>9. CASE ~drop2[1]
    <3> DEFINE B == Tail(A)
    <3>1. A # <<>> /\ A[1] = D[1] /\ Selects(E, Undropped(drop2'), B)
      BY <2>3, <2>6, <2>9, SelectsTail
    <3>2. kept' = Append(kept, payloads[1]) /\ kept \in Seq(Segments) /\ payloads[1] \in Segments
      BY <1>2, <2>1, <2>9, HeadAndTail DEF Types
    <3>3. Len(kept) \in Nat /\ Len(kept') = Len(kept) + 1 /\ kept'[Len(kept) + 1] = payloads[1]
          /\ \A i \in 1 .. Len(kept) : kept'[i] = kept[i]
      BY <3>2, Appended
    <3>4. B \in Seq(Segments) /\ Len(B) = Len(A) - 1 /\ Len(A) \in Nat \ {0}
          /\ \A i \in 1 .. Len(A) - 1 : B[i] = A[i + 1]
      BY <3>1, HeadAndTail
    <3>5. Len(C) = Len(kept) + Len(A) /\ (\A i \in 1 .. Len(kept) : C[i] = kept[i])
          /\ (\A j \in 1 .. Len(A) : C[Len(kept) + j] = A[j])
      BY <1>1 DEF Accounts
    <3>6. Len(C) = Len(kept') + Len(B)
      BY <3>3, <3>4, <3>5
    <3>7. ASSUME NEW i \in 1 .. Len(kept') PROVE C[i] = kept'[i]
      <4>1. i \in 1 .. Len(kept) \/ i = Len(kept) + 1
        BY <3>3
      <4>2. C[Len(kept) + 1] = payloads[1]
        BY <2>2, <2>4, <3>1, <3>4, <3>5
      <4> QED
        BY <3>3, <3>5, <4>1, <4>2
    <3>8. ASSUME NEW j \in 1 .. Len(B) PROVE C[Len(kept') + j] = B[j]
      <4>1. j + 1 \in 1 .. Len(A) /\ j \in 1 .. Len(A) - 1 /\ Len(kept') + j = Len(kept) + (j + 1)
        BY <3>3, <3>4
      <4>2. C[Len(kept) + (j + 1)] = A[j + 1]
        BY <3>5, <4>1
      <4> QED
        BY <3>4, <4>1, <4>2
    <3>9. Accounts(C, V, E, P, B)'
      <4> HIDE DEF V, E, B
      <4>1. Selects(payloads', Undropped(drop1'), V)
        BY <2>2 DEF V
      <4> QED
        BY <1>1, <1>2, <1>3, <4>1, <2>7, <3>1, <3>6, <3>7, <3>8 DEF Accounts
    <3> HIDE DEF V, E, B
    <3> QED
      BY <2>5, <3>4, <3>9 DEF Matched
  <2> QED
    BY <2>1, <2>8, <2>9
<1> QED
  BY <1>2, <1>5, <1>6

(* The first of the forwarded payloads is taken. *)
LEMMA MatchedTake ==
  ASSUME Types, NEW C \in Seq(Segments), Matched(C), kept # <<>>, kept' = Tail(kept),
         UNCHANGED <<payloads, drop1, drop2, fsmMeta, fsm>>
  PROVE  /\ C # <<>> /\ C[1] = kept[1] /\ C[1] \in Segments /\ Tail(C) \in Seq(Segments)
         /\ Matched(Tail(C))'
<1>1. PICK U, D, P, A \in Seq(Segments) : Accounts(C, U, D, P, A)
  BY DEF Matched
<1>2. kept \in Seq(Segments) /\ Len(kept) \in Nat \ {0} /\ Len(kept') = Len(kept) - 1
      /\ \A i \in 1 .. Len(kept) - 1 : kept'[i] = kept[i + 1]
  BY HeadAndTail DEF Types
<1>3. Len(C) = Len(kept) + Len(A) /\ (\A i \in 1 .. Len(kept) : C[i] = kept[i])
      /\ (\A j \in 1 .. Len(A) : C[Len(kept) + j] = A[j]) /\ Len(A) \in Nat
  BY <1>1 DEF Accounts
<1>4. C # <<>> /\ C[1] = kept[1]
  BY <1>2, <1>3
<1> DEFINE G == Tail(C)
<1>5. G \in Seq(Segments) /\ Len(G) = Len(C) - 1 /\ Len(C) \in Nat \ {0} /\ C[1] \in Segments
      /\ \A i \in 1 .. Len(C) - 1 : G[i] = C[i + 1]
  BY <1>4, HeadAndTail
<1> HIDE DEF G
<1>6. Len(G) = Len(kept') + Len(A)
  BY <1>2, <1>3, <1>5
<1>7. ASSUME NEW i \in 1 .. Len(kept') PROVE G[i] = kept'[i]
  <2>1. i + 1 \in 1 .. Len(kept) /\ i \in 1 .. Len(kept) - 1 /\ i \in 1 .. Len(C) - 1
    BY <1>2, <1>3
  <2> QED
    BY <1>2, <1>3, <1>5, <2>1
<1>8. ASSUME NEW j \in 1 .. Len(A) PROVE G[Len(kept') + j] = A[j]
  <2>1. Len(kept') + j \in 1 .. Len(C) - 1 /\ (Len(kept') + j) + 1 = Len(kept) + j
    BY <1>2, <1>3
  <2> QED
    BY <1>3, <1>5, <2>1
<1>9. Accounts(G, U, D, P, A)'
  BY <1>1, <1>6, <1>7, <1>8 DEF Accounts, Joined, Deciding
<1>10. Matched(G)'
  BY <1>9 DEF Matched
<1> QED
  BY <1>4, <1>5, <1>10 DEF G

-----------------------------------------------------------------------------
(* What rxTcpFSM does with a segment *)

LEMMA LensOf == WithLen(Segments) /\ WithLen(Command) /\ WithLen(Note)
  BY SizeFacts DEF WithLen, Command, Note

(* Sums of lengths are numbers. *)
LEMMA SumTypes ==
  ASSUME Types
  PROVE  /\ Len(delivered) \in Nat /\ AppPos \in Nat /\ Len(delivered) <= AppPos
         /\ AppPos = Len(delivered) + Total(Lens(reads))
         /\ Total(Lens(reads)) \in Nat /\ Total(Lens(notes)) \in Nat /\ Total(Lens(delayed)) \in Nat
<1>1. delivered \in Seq(Nat) /\ reads \in Seq(Command) /\ notes \in Seq(Note)
      /\ delayed \in Seq(Note)
  BY DEF Types
<1>2. Lens(reads) \in Seq(Nat) /\ Lens(notes) \in Seq(Nat) /\ Lens(delayed) \in Seq(Nat)
  BY <1>1, LensOf, LensAre
<1>3. Total(Lens(reads)) \in Nat /\ Total(Lens(notes)) \in Nat /\ Total(Lens(delayed)) \in Nat
  BY <1>2, SumsAre
<1>4. Len(delivered) \in Nat
  BY <1>1
<1> QED
  BY <1>3, <1>4 DEF AppPos

(* The segment that it has loaded. *)
LEMMA Loaded ==
  ASSUME Types, fsm # <<>>
  PROVE  /\ Len(fsm) = 1 /\ fsm[1] \in FsmEntry /\ fsm[1].seg \in Segments
         /\ fsm[1].sar \in SarEntry
<1>1. fsm \in Seq(FsmEntry) /\ Len(fsm) <= 1
  BY DEF Types
<1>2. fsm[1] \in FsmEntry /\ Len(fsm) \in Nat \ {0}
  BY <1>1, HeadAndTail
<1>3. Len(fsm) = 1
  <2>1. \A n \in Nat \ {0} : n <= 1 => n = 1
    OBVIOUS
  <2> QED
    BY <1>1, <1>2, <2>1, Zenon
<1>4. fsm[1].seg \in Segments /\ fsm[1].sar \in SarEntry
  BY <1>2 DEF FsmEntry
<1> QED
  BY <1>2, <1>3, <1>4

(* What all cases of state TRANSITION have in common. *)
Transition ==
  /\ fsm # <<>> /\ fsm' = <<>>
  /\ state' \in {"ESTABLISHED", "LAST_ACK", "CLOSED"}
  /\ UNCHANGED <<start, payloads, fsmMeta, drop1, kept, reads, mem, statuses, delivered>>

(* No data, and nothing to say. *)
Quiet == fsm[1].seg.len = 0 /\ UNCHANGED <<sar, drop2, writes, delayed, notes>>

(* The payload is dropped. *)
Reject == /\ fsm[1].seg.len # 0 /\ Room(drop2) /\ drop2' = Append(drop2, TRUE)
          /\ UNCHANGED <<sar, writes, delayed, notes>>

(* The notification of n bytes. *)
NoteOf(n, closed) == [len |-> n, closed |-> closed]

(* The payload, if there is one, is accepted: the pointers go from R, H, O *)
(* to R2, H2, O2, and n more bytes are in order.                           *)
AcceptFifo(seg, R, R2, H2, gap, n, closed) ==
  /\ Room(notes) /\ notes' = Append(notes, NoteOf(n, closed)) /\ UNCHANGED <<writes, delayed>>
  /\ n = seg.len /\ gap = FALSE /\ H2 = R2
  /\ seg.len # 0 => seg.pos = DataEnd(R)
RingMove(seg, R, H, O, R2, H2, O2, gap, n) ==
  /\ DataEnd(R2) = DataEnd(R) + n
  /\ seg.len # 0 => DataEnd(R) <= seg.pos
  /\ \A p \in Nat : DataEnd(R) <= p /\ p < DataEnd(R2)
                      => Carries(seg, p) \/ (sar.gap /\ O <= p /\ p < H)
  /\ gap => \A p \in Nat : O2 <= p /\ p < H2 => Carries(seg, p) \/ (sar.gap /\ O <= p /\ p < H)
  /\ gap => /\ R2 < O2 /\ O2 < H2 /\ H2 <= StreamLen
            /\ \E s \in Segments : s.len # 0 /\ s.pos = O2
  /\ ~gap => H2 = R2
  /\ H2 <= AppPos + BufSize - (IF R2 = StreamLen + 1 THEN 0 ELSE 1)
AcceptRing(seg, R, H, O, R2, H2, O2, gap, n, closed) ==
  /\ Room(delayed) /\ delayed' = Append(delayed, NoteOf(n, closed)) /\ UNCHANGED notes
  /\ seg.len = 0 => writes' = writes
  /\ seg.len # 0 => /\ Room(writes)
                    /\ writes' = Append(writes, [addr |-> Cell(seg.pos), len |-> seg.len])
  /\ RingMove(seg, R, H, O, R2, H2, O2, gap, n)
Accept(seg, R, H, O, R2, H2, O2, gap, n, closed) ==
  /\ seg = fsm[1].seg
  /\ seg.len = 0 => drop2' = drop2
  /\ seg.len # 0 => Room(drop2) /\ drop2' = Append(drop2, FALSE)
  /\ sar' \in SarEntry /\ sar'.appd = sar.appd /\ sar'.gap = gap
  /\ sar'.recvd = SeqNumb(R2) /\ sar'.head = SeqNumb(H2) /\ (gap => sar'.offset = SeqNumb(O2))
  /\ DataEnd(R2) = DataEnd(R) + n
  /\ (closed /\ n = 0) <=> seg.len = 0
  /\ DdrBypass => AcceptFifo(seg, R, R2, H2, gap, n, closed)
  /\ ~DdrBypass => AcceptRing(seg, R, H, O, R2, H2, O2, gap, n, closed)

Outcome(R, H, O) ==
  /\ Transition
  /\ \/ Quiet
     \/ Reject
     \/ \E seg \in Segments, R2, H2, O2 \in Positions, gap, closed \in BOOLEAN, n \in Nat :
          Accept(seg, R, H, O, R2, H2, O2, gap, n, closed)

LEMMA AcceptedOutcome ==
  ASSUME Transition, NEW R, NEW H, NEW O, NEW seg \in Segments, NEW R2 \in Positions,
         NEW H2 \in Positions, NEW O2 \in Positions, NEW gap \in BOOLEAN, NEW closed \in BOOLEAN,
         NEW n \in Nat, Accept(seg, R, H, O, R2, H2, O2, gap, n, closed)
  PROVE  Outcome(R, H, O)
  BY DEF Outcome

LEMMA OneDecision ==
  ASSUME NEW q \in Seq(BOOLEAN), NEW b \in BOOLEAN
  PROVE  q \o <<b>> = Append(q, b) /\ q \o <<>> = q
  OBVIOUS

(* An entry is its fields. *)
LEMMA SameEntry ==
  ASSUME NEW a \in SarEntry, NEW b \in SarEntry, a.recvd = b.recvd, a.head = b.head,
         a.offset = b.offset, a.gap = b.gap, a.appd = b.appd
  PROVE  a = b
  BY DEF SarEntry

(* The window of the ring: no more than the buffer's size is in use. *)
LEMMA GapLength ==
  ASSUME SteadyPeer, Types, ~DdrBypass, NEW R \in Positions, NEW H \in Positions, R <= H,
         H - R <= BufSize - 1
  PROVE  ((SeqNumb(H) + SeqSpace - SeqNumb(R)) % BufSize) % Short = H - R
<1> DEFINE d == H - R
<1>1. start \in Starts /\ R \in 0 .. StreamLen + 1 /\ H \in 0 .. StreamLen + 1
  BY DEF Types, Positions
<1>2. SeqNumb(H) = Isn + H /\ SeqNumb(R) = Isn + R /\ Isn \in Nat /\ Short = BufSize
  BY <1>1, SeqFacts, SizeFacts DEF Isn, SteadyPeer, DdrBypass
<1>3. d \in 0 .. BufSize - 1 /\ d \in Int /\ BufSize \in Nat \ {0} /\ SeqSpace \in Int
      /\ SeqSpace % BufSize = 0
  BY <1>1, SizeFacts
<1>4. SeqNumb(H) + SeqSpace - SeqNumb(R) = SeqSpace + d
  BY <1>1, <1>2, <1>3, SizeFacts
<1> HIDE DEF d
<1>5. ((SeqSpace % BufSize) + d) % BufSize = (SeqSpace + d) % BufSize
  BY <1>3, ModPlus
<1>6. (0 + d) % BufSize = d /\ d % BufSize = d
  <2>1. 0 + d = d
    BY <1>3
  <2> QED
    BY <1>3, <2>1, ModSmall
<1>7. (SeqSpace + d) % BufSize = d
  BY <1>3, <1>5, <1>6
<1> QED
  BY <1>2, <1>4, <1>6, <1>7 DEF d

(* A plain segment, in the build with the FIFO. *)
LEMMA AckFifo ==
  ASSUME SteadyPeer, Types, NEW C \in Seq(Segments), NEW R \in Positions, NEW H \in Positions,
         NEW O \in Positions, Parts(C, R, H, O), FsmAck, DdrBypass
  PROVE  Outcome(R, H, O)
<1> PICK seg \in Segments : seg = fsm[1].seg
  BY Loaded DEF FsmAck
<1> PICK r \in SarEntry : r = fsm[1].sar
  BY Loaded DEF FsmAck
<1> DEFINE seq == SeqNumb(seg.pos)
           p == PlacementBypass(r, seq, seg.len, ~Room(kept))
<1>1. Transition
  BY DEF FsmAck, Transition, Types
<1>2. r.recvd = sar.recvd /\ r.head = sar.head /\ r.offset = sar.offset /\ r.gap = sar.gap
      /\ sar.recvd = SeqNumb(R) /\ sar.gap = FALSE /\ H = R
  BY DEF Parts, Pointers, FsmAck, FifoBuild
<1>3. seg.pos \in 0 .. StreamLen /\ seg.len \in 0 .. StreamLen /\ seg.pos + seg.len <= StreamLen
      /\ StreamLen \in Nat /\ R \in 0 .. StreamLen + 1 /\ start \in Starts /\ sar \in SarEntry
  BY SizeFacts DEF SteadyPeer, Positions, Types
<1>4. CASE seg.len = 0
  <2>1. Quiet
    BY <1>4 DEF FsmAck, Quiet
  <2> QED
    BY <1>1, <2>1 DEF Outcome
<1>5. CASE seg.len # 0 /\ state = "CLOSED"
  <2>1. Reject
    BY <1>5 DEF FsmAck, Reject
  <2> QED
    BY <1>1, <2>1 DEF Outcome
<1>6. CASE seg.len # 0 /\ state # "CLOSED"
  <2>1. WriteSar(p.sar) /\ Emit(p, seg, FALSE) /\ Room(drop2) /\ Room(notes)
    BY <1>6 DEF FsmAck
  <2>2. CASE seq = r.recvd /\ Room(kept)
    <3> DEFINE end == seg.pos + seg.len
    <3>1. p = [sar |-> [r EXCEPT !.recvd = (seq + seg.len) % SeqSpace,
                                 !.head = (seq + seg.len) % SeqSpace],
               decision |-> <<FALSE>>, cmd |-> FALSE, note |-> seg.len]
      BY <2>2 DEF PlacementBypass
    <3>2. (seq + seg.len) % SeqSpace = SeqNumb(end) /\ SeqNumb(end) \in 0 .. SeqSpace - 1
      <4>1. seg.pos \in Nat /\ seg.len \in Nat /\ end \in Nat
        BY <1>3, SMTT(40)
      <4>2. (seq + seg.len) % SeqSpace = SeqNumb(end)
        BY <1>3, <4>1, CellFacts
      <4> HIDE DEF end
      <4> QED
        BY <1>3, <4>1, <4>2, CellFacts
    <3>3. seg.pos = R
      BY <1>2, <1>3, <2>2, SeqFacts
    <3> HIDE DEF p, seq
    <3>4. sar' = [r EXCEPT !.recvd = SeqNumb(end), !.head = SeqNumb(end), !.appd = sar.appd]
      BY <2>1, <3>1, <3>2 DEF WriteSar, SarEntry
    <3>5. sar' \in SarEntry /\ sar'.appd = sar.appd /\ sar'.gap = FALSE
          /\ sar'.recvd = SeqNumb(end) /\ sar'.head = SeqNumb(end)
      BY <1>2, <1>3, <3>2, <3>4 DEF SarEntry
    <3>6. drop2' = Append(drop2, FALSE)
      BY <2>1, <3>1, OneDecision DEF Emit, Types
    <3>7. writes' = writes /\ delayed' = delayed
          /\ notes' = Append(notes, NoteOf(seg.len, FALSE))
      BY <1>6, <2>1, <3>1 DEF Emit, NoteOf
    <3>8. end \in Positions /\ DataEnd(end) = DataEnd(R) + seg.len /\ seg.pos = DataEnd(R)
      BY <1>3, <3>3 DEF Positions, DataEnd
    <3> HIDE DEF end
    <3> PICK no \in BOOLEAN : no = FALSE
      OBVIOUS
    <3>9. Accept(seg, R, H, O, end, end, O, no, seg.len, no)
      BY <1>6, <2>1, <3>5, <3>6, <3>7, <3>8 DEF Accept, AcceptFifo
    <3>10. seg.len \in Nat
      BY <1>3
    <3> QED
      BY <1>1, <3>8, <3>9, <3>10, AcceptedOutcome
  <2>3. CASE ~(seq = r.recvd /\ Room(kept))
    <3>1. p = [sar |-> r, decision |-> <<TRUE>>, cmd |-> FALSE, note |-> 0]
      BY <2>3 DEF PlacementBypass
    <3> HIDE DEF p, seq
    <3>2. sar' = [r EXCEPT !.appd = sar.appd]
      BY <2>1, <3>1 DEF WriteSar
    <3>3. sar' = sar
      <4>1. sar' \in SarEntry /\ sar'.recvd = sar.recvd /\ sar'.head = sar.head
            /\ sar'.offset = sar.offset /\ sar'.gap = sar.gap /\ sar'.appd = sar.appd
        BY <1>2, <1>3, <3>2 DEF SarEntry
      <4> QED
        BY <1>3, <4>1, SameEntry
    <3>4. drop2' = Append(drop2, TRUE) /\ UNCHANGED <<writes, delayed, notes>>
      BY <2>1, <3>1, OneDecision DEF Emit, Types
    <3>5. Reject
      BY <1>6, <2>1, <3>3, <3>4 DEF Reject
    <3> QED
      BY <1>1, <3>5 DEF Outcome
  <2> QED
    BY <2>2, <2>3
<1> QED
  BY <1>4, <1>5, <1>6

(* The payload is kept, or dropped. *)
Keeps(r, n) == [sar |-> r, decision |-> <<FALSE>>, cmd |-> TRUE, note |-> n]
Drops(r) == [sar |-> r, decision |-> <<TRUE>>, cmd |-> FALSE, note |-> 0]

(* The cases of Placement. *)
LEMMA PlacementCases ==
  ASSUME NEW r \in SarEntry, NEW seq \in Nat, NEW len \in Nat,
         NEW end, end = (seq + len) % SeqSpace, NEW p, p = Placement(r, seq, len)
  PROVE  /\ InOrder(r, seq, len) => p = Keeps([r EXCEPT !.recvd = end, !.head = end], len)
         /\ OutOfOrder(r, seq, len)
            => p = Keeps([r EXCEPT !.head = end, !.offset = seq, !.gap = TRUE], 0)
         /\ AfterHead(r, seq, len) => p = Keeps([r EXCEPT !.head = end], 0)
         /\ AtGap(r, seq, len) /\ seq + len = r.offset
            => p = Keeps([r EXCEPT !.recvd = r.head, !.gap = FALSE],
                         ((r.head + SeqSpace - seq) % BufSize) % Short)
         /\ AtGap(r, seq, len) /\ seq + len < r.offset => p = Keeps([r EXCEPT !.recvd = end], len)
         /\ ~(InOrder(r, seq, len) \/ OutOfOrder(r, seq, len) \/ AfterHead(r, seq, len)
              \/ AtGap(r, seq, len))
            => p = Drops(r)
<1> DEFINE in == InOrder(r, seq, len)
           out == OutOfOrder(r, seq, len)
           after == AfterHead(r, seq, len)
           at == AtGap(r, seq, len)
<1>1. r.recvd \in Nat /\ r.head \in Nat /\ r.offset \in Nat /\ r.gap \in BOOLEAN /\ seq + len \in Nat
  BY SizeFacts DEF SarEntry
<1>2. /\ in => ~out /\ ~after /\ ~at
      /\ out => ~in /\ ~after /\ ~at
      /\ after => ~in /\ ~out /\ ~at
      /\ at => ~in /\ ~out /\ ~after
  BY <1>1 DEF InOrder, OutOfOrder, AfterHead, AtGap
<1>3. ASSUME in PROVE p = Keeps([r EXCEPT !.recvd = end, !.head = end], len)
  BY <1>2, <1>3 DEF Placement, Keeps
<1>4. ASSUME out PROVE p = Keeps([r EXCEPT !.head = end, !.offset = seq, !.gap = TRUE], 0)
  BY <1>2, <1>4 DEF Placement, Keeps
<1>5. ASSUME after PROVE p = Keeps([r EXCEPT !.head = end], 0)
  BY <1>2, <1>5 DEF Placement, Keeps
<1>6. ASSUME at, seq + len = r.offset
      PROVE  p = Keeps([r EXCEPT !.recvd = r.head, !.gap = FALSE],
                       ((r.head + SeqSpace - seq) % BufSize) % Short)
  <2>1. ~(seq + len < r.offset) /\ ~(seq + len > r.offset)
    BY <1>1, <1>6
  <2> QED
    BY <1>2, <1>6, <2>1 DEF Placement, FillGap, Keeps
<1>7. ASSUME at, seq + len < r.offset PROVE p = Keeps([r EXCEPT !.recvd = end], len)
  <2>1. ~(seq + len = r.offset) /\ ~(seq + len > r.offset)
    BY <1>1, <1>7
  <2> QED
    BY <1>2, <1>7, <2>1 DEF Placement, Keeps
<1>8. ASSUME ~(in \/ out \/ after \/ at) PROVE p = Drops(r)
  BY <1>8 DEF Placement, Drops
<1> HIDE DEF in, out, after, at
<1>9. /\ in => p = Keeps([r EXCEPT !.recvd = end, !.head = end], len)
      /\ out => p = Keeps([r EXCEPT !.head = end, !.offset = seq, !.gap = TRUE], 0)
      /\ after => p = Keeps([r EXCEPT !.head = end], 0)
      /\ at /\ seq + len = r.offset
         => p = Keeps([r EXCEPT !.recvd = r.head, !.gap = FALSE],
                      ((r.head + SeqSpace - seq) % BufSize) % Short)
      /\ at /\ seq + len < r.offset => p = Keeps([r EXCEPT !.recvd = end], len)
      /\ ~(in \/ out \/ after \/ at) => p = Drops(r)
  BY <1>3, <1>4, <1>5, <1>6, <1>7, <1>8
<1> QED
  BY <1>9 DEF in, out, after, at

(* A plain segment, in the build with the ring buffer. *)
LEMMA AckRing ==
  ASSUME SteadyPeer, Types, NEW C \in Seq(Segments), NEW R \in Positions, NEW H \in Positions,
         NEW O \in Positions, Parts(C, R, H, O), FsmAck, ~DdrBypass
  PROVE  Outcome(R, H, O)
<1> PICK seg \in Segments : seg = fsm[1].seg
  BY Loaded DEF FsmAck
<1> PICK r \in SarEntry : r = fsm[1].sar
  BY Loaded DEF FsmAck
<1> DEFINE seq == SeqNumb(seg.pos)
           end == seg.pos + seg.len
           p == Placement(r, seq, seg.len)
<1>1. Transition
  BY DEF FsmAck, Transition, Types
<1>2. r.recvd = sar.recvd /\ r.head = sar.head /\ r.offset = sar.offset /\ r.gap = sar.gap
      /\ sar.recvd = SeqNumb(R) /\ sar.head = SeqNumb(H) /\ (sar.gap => sar.offset = SeqNumb(O))
  BY DEF Parts, Pointers, FsmAck
<1>3. seg.pos \in 0 .. StreamLen /\ seg.len \in 0 .. StreamLen /\ end <= StreamLen
      /\ StreamLen \in Nat /\ start \in Starts /\ sar \in SarEntry
      /\ R \in 0 .. StreamLen + 1 /\ H \in 0 .. StreamLen + 1 /\ O \in 0 .. StreamLen + 1
  BY SizeFacts DEF SteadyPeer, Positions, Types
<1>4. CASE seg.len = 0
  <2>1. Quiet
    BY <1>4 DEF FsmAck, Quiet
  <2> QED
    BY <1>1, <2>1 DEF Outcome
<1>5. CASE seg.len # 0 /\ state = "CLOSED"
  <2>1. Reject
    BY <1>5 DEF FsmAck, Reject
  <2> QED
    BY <1>1, <2>1 DEF Outcome
<1>6. CASE seg.len # 0 /\ state # "CLOSED"
  <2> PICK q : q = p
    OBVIOUS
  <2>1. WriteSar(q.sar) /\ Emit(q, seg, FALSE) /\ Room(drop2) /\ Room(writes) /\ Room(delayed)
    BY <1>6 DEF FsmAck
  <2>2. AppPos \in Nat /\ end <= AppPos + BufSize - 1 /\ BufSize \in Nat \ {0}
    <3>1. AppPos \in Nat /\ Len(fsm) = 1
      BY SumTypes, Loaded DEF FsmAck
    <3>2. InWindow(fsm[1].seg)
      BY <3>1 DEF Parts, Windows
    <3> QED
      BY <3>1, <3>2, SizeFacts DEF InWindow, WindowEdge
  <2>3. GapAt(R, H, O) /\ AppPos <= DataEnd(R)
    <3>1. AppPos + Total(Lens(notes)) + Total(Lens(delayed)) = DataEnd(R) /\ GapAt(R, H, O)
      BY DEF Parts, RingBuild, Pointers
    <3> QED
      BY <3>1, SumTypes
  <2>4. seg.pos \in 0 .. StreamLen + 1 /\ end \in 0 .. StreamLen + 1 /\ end \in Nat
        /\ seg.pos \in Nat /\ seg.len \in Nat
    BY <1>3
  <2>5. seq = Isn + seg.pos /\ r.recvd = Isn + R /\ r.head = Isn + H
        /\ (r.gap => r.offset = Isn + O) /\ Isn \in Nat
    <3>1. SeqNumb(seg.pos) = Isn + seg.pos
      BY <1>3, <2>4, SeqFacts
    <3>2. SeqNumb(R) = Isn + R /\ SeqNumb(H) = Isn + H /\ SeqNumb(O) = Isn + O
      BY <1>3, SeqFacts
    <3>3. Isn \in Nat
      BY <1>3, SizeFacts DEF Isn
    <3> QED
      BY <1>2, <3>1, <3>2, <3>3
  <2>6. (seq + seg.len) % SeqSpace = SeqNumb(end) /\ SeqNumb(end) \in 0 .. SeqSpace - 1
    <3>1. (seq + seg.len) % SeqSpace = SeqNumb(end)
      BY <1>3, <2>4, CellFacts
    <3> HIDE DEF end
    <3> QED
      BY <1>3, <2>4, <3>1, CellFacts
  <2> PICK e \in 0 .. SeqSpace - 1 : e = SeqNumb(end)
    BY <2>6
  <2>7. SeqNumb(seg.pos) % BufSize = Cell(seg.pos) /\ seq \in 0 .. SeqSpace - 1
    BY <1>3, <2>4, CellFacts
  <2> PICK sq \in 0 .. SeqSpace - 1 : sq = seq
    BY <2>7
  <2>8. ASSUME NEW s2 \in SarEntry, NEW n \in Nat,
               q = Keeps(s2, n)
        PROVE  /\ drop2' = Append(drop2, FALSE)
               /\ writes' = Append(writes, [addr |-> Cell(seg.pos), len |-> seg.len])
               /\ delayed' = Append(delayed, NoteOf(n, FALSE)) /\ notes' = notes
               /\ sar' = [s2 EXCEPT !.appd = sar.appd]
    <3> HIDE DEF p, seq, end
    <3>0. q.sar = s2 /\ q.decision = <<FALSE>> /\ q.cmd = TRUE /\ q.note = n
      <4>1. Keeps(s2, n).sar = s2
        BY DEF Keeps
      <4>2. Keeps(s2, n).decision = <<FALSE>>
        BY DEF Keeps
      <4>3. Keeps(s2, n).cmd = TRUE
        BY DEF Keeps
      <4>4. Keeps(s2, n).note = n
        BY DEF Keeps
      <4> QED
        BY <2>8, <4>1, <4>2, <4>3, <4>4
    <3>1. drop2' = Append(drop2, FALSE)
      <4>1. drop2 \in Seq(BOOLEAN) /\ drop2' = drop2 \o <<FALSE>>
        BY <2>1, <3>0 DEF Emit, Types
      <4> QED
        BY <4>1, OneDecision
    <3>2. sar' = [s2 EXCEPT !.appd = sar.appd]
      BY <2>1, <3>0 DEF WriteSar
    <3>3. writes' = Append(writes, [addr |-> Cell(seg.pos), len |-> seg.len])
      BY <2>1, <2>7, <3>0 DEF Emit
    <3>4. delayed' = Append(delayed, NoteOf(n, FALSE)) /\ notes' = notes
      BY <2>1, <3>0 DEF Emit, NoteOf
    <3> QED
      BY <3>1, <3>2, <3>3, <3>4
  <2> PICK no \in BOOLEAN : no = FALSE
    OBVIOUS
  <2> PICK yes \in BOOLEAN : yes = TRUE
    OBVIOUS
  <2>9. ASSUME NEW s2 \in SarEntry, NEW n \in Nat,
               q = Keeps(s2, n),
               NEW R2 \in Positions, NEW H2 \in Positions, NEW O2 \in Positions,
               NEW gap \in BOOLEAN, s2.gap = gap,
               s2.recvd = SeqNumb(R2), s2.head = SeqNumb(H2),
               gap => s2.offset = SeqNumb(O2),
               RingMove(seg, R, H, O, R2, H2, O2, gap, n)
        PROVE  Outcome(R, H, O)
    <3> HIDE DEF p, seq, end
    <3>1. /\ drop2' = Append(drop2, FALSE)
          /\ writes' = Append(writes, [addr |-> Cell(seg.pos), len |-> seg.len])
          /\ delayed' = Append(delayed, NoteOf(n, no)) /\ notes' = notes
          /\ sar' = [s2 EXCEPT !.appd = sar.appd]
      BY <2>8, <2>9
    <3>2. sar' \in SarEntry /\ sar'.appd = sar.appd /\ sar'.gap = gap /\ sar'.recvd = SeqNumb(R2)
          /\ sar'.head = SeqNumb(H2) /\ sar'.offset = s2.offset
      BY <1>3, <2>9, <3>1 DEF SarEntry
    <3>3. AcceptRing(seg, R, H, O, R2, H2, O2, gap, n, no)
      BY <1>6, <2>1, <2>9, <3>1 DEF AcceptRing
    <3>4. DataEnd(R2) = DataEnd(R) + n
      BY <2>9 DEF RingMove
    <3>5. Accept(seg, R, H, O, R2, H2, O2, gap, n, no)
      BY <1>6, <2>1, <2>9, <3>1, <3>2, <3>3, <3>4 DEF Accept
    <3> QED
      BY <1>1, <3>5, AcceptedOutcome
  <2>a. q = Placement(r, sq, seg.len) /\ sq \in Nat /\ e = (sq + seg.len) % SeqSpace
    BY <2>6, <2>7
  <2>10. CASE InOrder(r, sq, seg.len)
    <3>2. seg.pos = R /\ ~sar.gap
      <4>1. sq = r.recvd /\ ~r.gap
        BY <2>10 DEF InOrder
      <4>2. Isn + seg.pos = Isn + R
        BY <2>5, <4>1
      <4> QED
        BY <1>2, <1>3, <2>5, <4>1, <4>2
    <3>3. PICK s2 \in SarEntry : /\ q = Keeps(s2, seg.len) /\ s2.gap = FALSE
                                /\ s2.recvd = SeqNumb(end) /\ s2.head = SeqNumb(end)
      <4> PICK s2 \in SarEntry : s2 = [r EXCEPT !.recvd = e, !.head = e]
        BY DEF SarEntry
      <4>1. q = Keeps(s2, seg.len)
        BY <2>4, <2>10, <2>a, PlacementCases
      <4>2. s2.gap = FALSE /\ s2.recvd = SeqNumb(end) /\ s2.head = SeqNumb(end)
        BY <1>2, <3>2 DEF SarEntry
      <4> QED
        BY <4>1, <4>2
    <3>4. end \in Positions /\ DataEnd(R) = R /\ DataEnd(end) = end /\ end = R + seg.len
          /\ end # StreamLen + 1
      BY <1>3, <3>2 DEF DataEnd, Positions
    <3>5. RingMove(seg, R, H, O, end, end, O, no, seg.len)
      <4>1. ASSUME NEW x \in Nat, R <= x, x < end PROVE Carries(seg, x)
        BY <3>2, <4>1 DEF Carries
      <4>2. DataEnd(R) <= seg.pos
        BY <1>3, <3>2, <3>4
      <4> QED
        BY <2>2, <3>4, <4>1, <4>2 DEF RingMove
    <3> HIDE DEF p, seq, end
    <3> QED
      BY <2>4, <2>9, <3>3, <3>4, <3>5
  <2>11. CASE OutOfOrder(r, sq, seg.len)
    <3> PICK s2 \in SarEntry : s2 = [r EXCEPT !.head = e, !.offset = sq, !.gap = TRUE]
      BY DEF SarEntry
    <3>1. q = Keeps(s2, 0)
      BY <2>4, <2>11, <2>a, PlacementCases
    <3>2. R < seg.pos /\ ~sar.gap
      BY <1>2, <1>3, <2>5, <2>11, SMTT(40) DEF OutOfOrder
    <3>3. s2.gap = TRUE /\ s2.recvd = SeqNumb(R) /\ s2.head = SeqNumb(end)
          /\ s2.offset = SeqNumb(seg.pos)
      BY <1>2, <3>2 DEF SarEntry
    <3>4. end \in Positions /\ seg.pos \in Positions /\ DataEnd(R) = R /\ R # StreamLen + 1
          /\ seg.pos < end
      BY <1>3, <1>6, <3>2, SMTT(40) DEF DataEnd, Positions
    <3>5. RingMove(seg, R, H, O, R, end, seg.pos, yes, 0)
      <4>1. \A x \in Nat : seg.pos <= x /\ x < end => Carries(seg, x)
        BY DEF Carries
      <4>2. DataEnd(R) <= seg.pos /\ DataEnd(R) = DataEnd(R) + 0 /\ end <= StreamLen
        BY <1>3, <3>2, <3>4
      <4>3. \A x \in Nat : ~(DataEnd(R) <= x /\ x < DataEnd(R))
        BY <1>3, <3>4
      <4> QED
        BY <1>6, <2>2, <3>2, <3>4, <4>1, <4>2, <4>3 DEF RingMove
    <3>6. s2.gap = yes
      BY <3>3
    <3> HIDE DEF p, seq, end
    <3> QED
      BY <2>4, <2>9, <3>1, <3>3, <3>4, <3>5, <3>6
  <2>12. CASE AfterHead(r, sq, seg.len)
    <3> PICK s2 \in SarEntry : s2 = [r EXCEPT !.head = e]
      BY DEF SarEntry
    <3>1. q = Keeps(s2, 0)
      BY <2>4, <2>12, <2>a, PlacementCases
    <3>2. seg.pos = H /\ sar.gap
      <4>1. sq = r.head /\ r.gap
        BY <2>12 DEF AfterHead
      <4>2. Isn + seg.pos = Isn + H
        BY <2>5, <4>1
      <4> QED
        BY <1>2, <1>3, <2>5, <4>1, <4>2, SMTT(40)
    <3>3. s2.gap = TRUE /\ s2.recvd = SeqNumb(R) /\ s2.head = SeqNumb(end)
          /\ s2.offset = SeqNumb(O)
      BY <1>2, <3>2 DEF SarEntry
    <3>4. R < O /\ O < H /\ H <= StreamLen /\ \E s \in Segments : s.len # 0 /\ s.pos = O
      BY <2>3, <3>2 DEF GapAt
    <3>5. end \in Positions /\ DataEnd(R) = R /\ R # StreamLen + 1 /\ H < end
      BY <1>3, <1>6, <3>2, <3>4 DEF DataEnd, Positions
    <3>6. RingMove(seg, R, H, O, R, end, O, yes, 0)
      <4>1. ASSUME NEW x \in Nat, O <= x, x < end
            PROVE  Carries(seg, x) \/ (sar.gap /\ O <= x /\ x < H)
        BY <1>3, <3>2, <4>1 DEF Carries
      <4>2. DataEnd(R) <= seg.pos /\ DataEnd(R) = DataEnd(R) + 0 /\ end <= StreamLen /\ O < end
        BY <1>3, <3>2, <3>4, <3>5
      <4>3. \A x \in Nat : ~(DataEnd(R) <= x /\ x < DataEnd(R))
        BY <1>3, <3>5
      <4> QED
        BY <2>2, <3>2, <3>4, <3>5, <4>1, <4>2, <4>3 DEF RingMove
    <3>7. s2.gap = yes
      BY <3>3
    <3> HIDE DEF p, seq, end
    <3> QED
      BY <2>4, <2>9, <3>1, <3>3, <3>5, <3>6, <3>7
  <2>13. CASE AtGap(r, sq, seg.len)
    <3>1. seg.pos = R /\ sar.gap
      <4>1. sq = r.recvd /\ r.gap
        BY <2>13 DEF AtGap
      <4>2. Isn + seg.pos = Isn + R
        BY <2>5, <4>1
      <4> QED
        BY <1>2, <1>3, <2>5, <4>1, <4>2, SMTT(40)
    <3>2. R < O /\ O < H /\ H <= StreamLen
      BY <2>3, <3>1 DEF GapAt
    <3>3. PICK s \in Segments : s.len # 0 /\ s.pos = O
      BY <2>3, <3>1 DEF GapAt
    <3>4. end <= O /\ DataEnd(R) = R /\ R # StreamLen + 1 /\ H # StreamLen + 1 /\ DataEnd(H) = H
      <4>1. seg.pos + seg.len <= s.pos
        BY <1>3, <1>6, <3>1, <3>2, <3>3 DEF SteadyPeer, DdrBypass
      <4> QED
        BY <1>3, <3>1, <3>2, <3>3, <4>1 DEF DataEnd
    <3>5. H <= AppPos + BufSize - 1
      BY <2>3, <3>4 DEF GapAt
    <3>6. CASE end = O
      <4>1. sq + seg.len = r.offset
        BY <1>2, <1>3, <2>4, <2>5, <3>1, <3>6, SMTT(40)
      <4>2. ((r.head + SeqSpace - sq) % BufSize) % Short = H - R
        <5>1. R <= H /\ H - R <= BufSize - 1
          BY <1>3, <2>2, <2>3, <3>2, <3>4, <3>5
        <5>2. r.head = SeqNumb(H) /\ sq = SeqNumb(R)
          BY <1>2, <3>1
        <5> QED
          BY <5>1, <5>2, GapLength
      <4> PICK s2 \in SarEntry : s2 = [r EXCEPT !.recvd = r.head, !.gap = FALSE]
        BY DEF SarEntry
      <4>3. q = Keeps(s2, H - R)
        BY <2>4, <2>13, <2>a, <4>1, <4>2, PlacementCases
      <4>4. s2.gap = FALSE /\ s2.recvd = SeqNumb(H) /\ s2.head = SeqNumb(H)
        BY <1>2 DEF SarEntry
      <4>5. H - R \in Nat
        BY <1>3, <3>2
      <4>6. RingMove(seg, R, H, O, H, H, O, no, H - R)
        <5>1. ASSUME NEW x \in Nat, R <= x, x < H
              PROVE  Carries(seg, x) \/ (sar.gap /\ O <= x /\ x < H)
          BY <1>3, <3>1, <3>6, <5>1 DEF Carries
        <5>2. DataEnd(R) <= seg.pos /\ DataEnd(H) = DataEnd(R) + (H - R)
          BY <1>3, <3>1, <3>4
        <5> QED
          BY <3>1, <3>4, <3>5, <5>1, <5>2 DEF RingMove
      <4>7. s2.gap = no
        BY <4>4
      <4> HIDE DEF p, seq, end
      <4> QED
        BY <2>4, <2>9, <4>3, <4>4, <4>5, <4>6, <4>7
    <3>7. CASE end < O
      <4>1. sq + seg.len < r.offset
        BY <1>2, <1>3, <2>4, <2>5, <3>1, <3>7, SMTT(40)
      <4> PICK s2 \in SarEntry : s2 = [r EXCEPT !.recvd = e]
        BY DEF SarEntry
      <4>3. q = Keeps(s2, seg.len)
        BY <2>4, <2>13, <2>a, <4>1, PlacementCases
      <4>4. s2.gap = TRUE /\ s2.recvd = SeqNumb(end) /\ s2.head = SeqNumb(H)
            /\ s2.offset = SeqNumb(O)
        BY <1>2, <3>1 DEF SarEntry
      <4>5. end \in Positions /\ end # StreamLen + 1 /\ DataEnd(end) = end
        BY <1>3, <2>4 DEF Positions, DataEnd
      <4>6. RingMove(seg, R, H, O, end, H, O, yes, seg.len)
        <5>1. ASSUME NEW x \in Nat, R <= x, x < end PROVE Carries(seg, x)
          BY <3>1, <5>1 DEF Carries
        <5>2. DataEnd(R) <= seg.pos /\ DataEnd(end) = DataEnd(R) + seg.len
          BY <1>3, <3>1, <3>4, <4>5
        <5> QED
          BY <3>1, <3>2, <3>3, <3>4, <3>5, <3>7, <4>5, <5>1, <5>2 DEF RingMove
      <4>7. s2.gap = yes
        BY <4>4
      <4> HIDE DEF p, seq, end
      <4> QED
        BY <2>4, <2>9, <4>3, <4>4, <4>5, <4>6, <4>7
    <3> QED
      BY <1>3, <2>4, <3>4, <3>6, <3>7
  <2>14. CASE ~(InOrder(r, sq, seg.len) \/ OutOfOrder(r, sq, seg.len)
                \/ AfterHead(r, sq, seg.len) \/ AtGap(r, sq, seg.len))
    <3>1. q = Drops(r)
      BY <2>4, <2>14, <2>a, PlacementCases, ZenonT(60)
    <3> HIDE DEF p, seq
    <3>0. q.sar = r /\ q.decision = <<TRUE>> /\ q.cmd = FALSE /\ q.note = 0
      <4>1. Drops(r).sar = r
        BY DEF Drops
      <4>2. Drops(r).decision = <<TRUE>>
        BY DEF Drops
      <4>3. Drops(r).cmd = FALSE
        BY DEF Drops
      <4>4. Drops(r).note = 0
        BY DEF Drops
      <4> QED
        BY <3>1, <4>1, <4>2, <4>3, <4>4
    <3>2. sar' = [r EXCEPT !.appd = sar.appd]
      BY <2>1, <3>0 DEF WriteSar
    <3>3. sar' = sar
      <4>1. sar' \in SarEntry /\ sar'.recvd = sar.recvd /\ sar'.head = sar.head
            /\ sar'.offset = sar.offset /\ sar'.gap = sar.gap /\ sar'.appd = sar.appd
        BY <1>2, <1>3, <3>2 DEF SarEntry
      <4> QED
        BY <1>3, <4>1, SameEntry
    <3>4. drop2' = Append(drop2, TRUE) /\ UNCHANGED <<writes, delayed, notes>>
      <4>1. drop2 \in Seq(BOOLEAN) /\ drop2' = drop2 \o <<TRUE>>
            /\ UNCHANGED <<writes, delayed, notes>>
        BY <2>1, <3>0 DEF Emit, Types
      <4> QED
        BY <4>1, OneDecision
    <3>5. Reject
      BY <1>6, <2>1, <3>3, <3>4 DEF Reject
    <3> QED
      BY <1>1, <3>5 DEF Outcome
  <2> QED
    BY <2>10, <2>11, <2>12, <2>13, <2>14
<1> QED
  BY <1>4, <1>5, <1>6

(* The gap is closed before the FIN can be at recvd. *)
LEMMA NoGapAtFin ==
  ASSUME SteadyPeer, Types, NEW C \in Seq(Segments), NEW R \in Positions, NEW H \in Positions,
         NEW O \in Positions, Parts(C, R, H, O), NEW seg \in Segments, seg.flags = "FIN",
         seg.pos = R
  PROVE  sar.gap = FALSE
<1>1. seg.pos + seg.len = StreamLen /\ seg.len \in 0 .. StreamLen /\ seg.pos \in 0 .. StreamLen
      /\ StreamLen \in Nat /\ sar.gap \in BOOLEAN /\ start \in Starts
      /\ H \in 0 .. StreamLen + 1 /\ O \in 0 .. StreamLen + 1
  BY SizeFacts DEF SteadyPeer, Types, SarEntry, Positions
<1>2. CASE DdrBypass
  BY <1>2 DEF Parts, FifoBuild
<1>3. CASE ~DdrBypass /\ sar.gap
  <2>1. R < O /\ O < H /\ H <= StreamLen /\ \E s \in Segments : s.len # 0 /\ s.pos = O
    BY <1>3 DEF Parts, RingBuild, GapAt
  <2>2. PICK s \in Segments : s.len # 0 /\ s.pos = O
    BY <2>1
  <2>3. seg.len # 0
    BY <1>1, <2>1
  <2>4. seg.pos + seg.len <= s.pos
    BY <1>1, <1>3, <2>1, <2>2, <2>3 DEF SteadyPeer, DdrBypass
  <2> QED
    BY <1>1, <2>1, <2>2, <2>4
<1> QED
  BY <1>1, <1>2, <1>3

LEMMA NextSeq ==
  ASSUME start \in Starts, NEW a \in Nat, NEW b \in Nat
  PROVE  /\ SeqNumb((a + b) + 1) = (SeqNumb(a) + b + 1) % SeqSpace
         /\ SeqNumb((a + b) + 1) \in 0 .. SeqSpace - 1
<1>1. b + 1 \in Nat /\ a + (b + 1) = (a + b) + 1 /\ (a + b) + 1 \in Nat
  OBVIOUS
<1>2. (SeqNumb(a) + (b + 1)) % SeqSpace = SeqNumb(a + (b + 1)) /\ SeqNumb(a) \in 0 .. SeqSpace - 1
  BY <1>1, CellFacts
<1>3. SeqNumb(a) + (b + 1) = SeqNumb(a) + b + 1
  BY <1>2, SizeFacts
<1>4. SeqNumb((a + b) + 1) \in 0 .. SeqSpace - 1
  BY <1>1, CellFacts
<1> QED
  BY <1>1, <1>2, <1>3, <1>4

(* A segment with FIN. *)
LEMMA FinOutcome ==
  ASSUME SteadyPeer, Types, NEW C \in Seq(Segments), NEW R \in Positions, NEW H \in Positions,
         NEW O \in Positions, Parts(C, R, H, O), FsmFin
  PROVE  Outcome(R, H, O)
<1> PICK seg \in Segments : seg = fsm[1].seg
  BY Loaded DEF FsmFin
<1> PICK r \in SarEntry : r = fsm[1].sar
  BY Loaded DEF FsmFin
<1> PICK no \in BOOLEAN : no = FALSE
  OBVIOUS
<1> PICK yes \in BOOLEAN : yes = TRUE
  OBVIOUS
<1>1. Transition
  BY DEF FsmFin, Transition, Types
<1>2. r.recvd = sar.recvd /\ r.head = sar.head /\ r.offset = sar.offset /\ r.gap = sar.gap
      /\ sar.recvd = SeqNumb(R)
  BY DEF Parts, Pointers, FsmFin
<1>3. seg.pos \in 0 .. StreamLen /\ seg.len \in 0 .. StreamLen /\ seg.pos + seg.len = StreamLen
      /\ StreamLen \in Nat /\ R \in 0 .. StreamLen + 1 /\ start \in Starts /\ sar \in SarEntry
      /\ seg.flags = "FIN" /\ drop2 \in Seq(BOOLEAN) /\ seg.len \in Nat /\ seg.pos \in Nat
  <2>1. seg.flags = "FIN"
    BY DEF FsmFin
  <2>2. seg.pos \in 0 .. StreamLen /\ seg.len \in 0 .. StreamLen /\ StreamLen \in Nat
    BY SizeFacts
  <2>3. seg.pos + seg.len = StreamLen
    BY <2>1 DEF SteadyPeer
  <2>4. R \in 0 .. StreamLen + 1 /\ start \in Starts /\ sar \in SarEntry /\ drop2 \in Seq(BOOLEAN)
    BY DEF Positions, Types
  <2> QED
    BY <2>1, <2>2, <2>3, <2>4
<1>4. CASE state = "ESTABLISHED" /\ r.recvd = SeqNumb(seg.pos)
  <2> PICK L \in Positions : L = StreamLen + 1
    BY <1>3 DEF Positions
  <2> DEFINE seq == SeqNumb(seg.pos)
             p == FinPlacement(r, seq, seg.len)
  <2>1. seg.pos = R
    BY <1>2, <1>3, <1>4, SeqFacts
  <2>2. sar.gap = FALSE
    BY <1>3, <2>1, NoGapAtFin
  <2>3. SeqNumb(L) = (seq + seg.len + 1) % SeqSpace /\ SeqNumb(L) \in 0 .. SeqSpace - 1
    <3>1. \E a, b \in Nat : a = seg.pos /\ b = seg.len /\ a + b = StreamLen
      BY <1>3
    <3>2. ASSUME NEW a \in Nat, NEW b \in Nat, a + b = StreamLen
          PROVE  /\ SeqNumb(StreamLen + 1) = (SeqNumb(a) + b + 1) % SeqSpace
                 /\ SeqNumb(StreamLen + 1) \in 0 .. SeqSpace - 1
      BY <1>3, <3>2, NextSeq
    <3> QED
      BY <3>1, <3>2
  <2>4. /\ p.sar = [r EXCEPT !.recvd = SeqNumb(L), !.head = SeqNumb(L)]
        /\ p.decision = IF seg.len # 0 THEN <<FALSE>> ELSE <<>>
        /\ p.cmd = (seg.len # 0 /\ ~DdrBypass)
        /\ p.note = seg.len
    <3> DEFINE x == SeqNumb(L)
    <3>1. p = [sar |-> [r EXCEPT !.recvd = x, !.head = x],
               decision |-> IF seg.len # 0 THEN <<FALSE>> ELSE <<>>,
               cmd |-> seg.len # 0 /\ ~DdrBypass, note |-> seg.len]
      BY <2>3 DEF FinPlacement
    <3> HIDE DEF p, x
    <3> QED
      BY <3>1 DEF x
  <2>5. WriteSar(p.sar) /\ Emit(p, seg, TRUE) /\ Room(drop2) /\ Room(writes) /\ Room(delayed)
        /\ Room(notes)
    BY <1>4 DEF FsmFin
  <2> HIDE DEF p, seq
  <2>6. sar' = [r EXCEPT !.recvd = SeqNumb(L), !.head = SeqNumb(L), !.appd = sar.appd]
    BY <2>4, <2>5 DEF WriteSar, SarEntry
  <2>7. sar' \in SarEntry /\ sar'.appd = sar.appd /\ sar'.gap = no
        /\ sar'.recvd = SeqNumb(L) /\ sar'.head = SeqNumb(L)
    BY <1>2, <1>3, <2>2, <2>3, <2>6, ZenonT(60) DEF SarEntry
  <2>8. (seg.len = 0 => drop2' = drop2) /\ (seg.len # 0 => drop2' = Append(drop2, FALSE))
    BY <1>3, <2>4, <2>5, OneDecision DEF Emit
  <2>9. DataEnd(R) = R /\ DataEnd(L) = DataEnd(R) + seg.len
    BY <1>3, <2>1 DEF DataEnd
  <2>10. ASSUME DdrBypass PROVE AcceptFifo(seg, R, L, L, no, seg.len, yes)
    <3>1. writes' = writes /\ delayed' = delayed /\ notes' = Append(notes, NoteOf(seg.len, yes))
      BY <2>4, <2>5, <2>10 DEF Emit, NoteOf
    <3> QED
      BY <2>1, <2>5, <2>9, <3>1 DEF AcceptFifo
  <2>11. ASSUME ~DdrBypass PROVE AcceptRing(seg, R, H, O, L, L, O, no, seg.len, yes)
    <3>1. notes' = notes /\ delayed' = Append(delayed, NoteOf(seg.len, yes))
      BY <2>4, <2>5, <2>11 DEF Emit, NoteOf
    <3>2. seg.len = 0 => writes' = writes
      BY <2>4, <2>5 DEF Emit
    <3>3. seg.len # 0 => writes' = Append(writes, [addr |-> Cell(seg.pos), len |-> seg.len])
      <4>1. SeqNumb(seg.pos) % BufSize = Cell(seg.pos)
        BY <1>3, CellFacts
      <4> QED
        BY <2>4, <2>5, <2>11, <4>1 DEF Emit
    <3>4. RingMove(seg, R, H, O, L, L, O, no, seg.len)
      <4>1. ASSUME NEW x \in Nat, DataEnd(R) <= x, x < DataEnd(L) PROVE Carries(seg, x)
        BY <1>3, <2>1, <2>9, <4>1 DEF Carries
      <4>2. DataEnd(R) <= seg.pos
        BY <1>3, <2>1, <2>9
      <4>3. L <= AppPos + BufSize - 0
        <5>1. AppPos \in Nat /\ Len(fsm) = 1
          BY SumTypes, Loaded DEF FsmFin
        <5>2. InWindow(fsm[1].seg)
          BY <5>1 DEF Parts, Windows
        <5> QED
          BY <1>3, <5>1, <5>2, SizeFacts DEF InWindow, WindowEdge
      <4> QED
        BY <2>9, <4>1, <4>2, <4>3 DEF RingMove
    <3> QED
      BY <2>5, <3>1, <3>2, <3>3, <3>4 DEF AcceptRing
  <2>12. Accept(seg, R, H, O, L, L, O, no, seg.len, yes)
    BY <1>3, <2>5, <2>7, <2>8, <2>9, <2>10, <2>11 DEF Accept
  <2> QED
    BY <1>1, <1>3, <2>12, AcceptedOutcome
<1>5. CASE ~(state = "ESTABLISHED" /\ r.recvd = SeqNumb(seg.pos))
  <2>1. drop2' = (IF seg.len # 0 THEN Append(drop2, TRUE) ELSE drop2) /\ Room(drop2)
        /\ UNCHANGED <<sar, writes, delayed, notes>>
    BY <1>5 DEF FsmFin
  <2>2. Quiet \/ Reject
    BY <2>1 DEF Quiet, Reject
  <2> QED
    BY <1>1, <2>2 DEF Outcome
<1> QED
  BY <1>4, <1>5

(* A reset, or flags that are ignored. *)
LEMMA DefaultOutcome ==
  ASSUME SteadyPeer, Types, NEW C \in Seq(Segments), NEW R \in Positions, NEW H \in Positions,
         NEW O \in Positions, Parts(C, R, H, O), FsmDefault
  PROVE  Outcome(R, H, O)
<1> PICK seg \in Segments : seg = fsm[1].seg
  BY Loaded DEF FsmDefault
<1> PICK yes \in BOOLEAN : yes = TRUE
  OBVIOUS
<1> PICK none \in Nat : none = 0
  OBVIOUS
<1> PICK gap \in BOOLEAN : gap = sar.gap
  BY DEF Types, SarEntry
<1> DEFINE rst == fsm[1].seg.flags = "RST" /\ SeqNumb(fsm[1].seg.pos) = fsm[1].sar.recvd
<1>1. Transition
  BY DEF FsmDefault, Transition, Types
<1>2. seg.len = 0 /\ seg.len \in Nat
  BY SizeFacts DEF SteadyPeer, FsmDefault
<1>3. UNCHANGED <<sar, drop2, writes>> /\ Room(delayed) /\ Room(notes)
      /\ delayed' = (IF rst /\ ~DdrBypass THEN Append(delayed, NoteOf(none, yes)) ELSE delayed)
      /\ notes' = (IF rst /\ DdrBypass THEN Append(notes, NoteOf(none, yes)) ELSE notes)
  BY DEF FsmDefault, NoteOf
<1> HIDE DEF rst
<1>4. CASE ~rst
  <2>1. Quiet
    BY <1>2, <1>3, <1>4 DEF Quiet
  <2> QED
    BY <1>1, <2>1 DEF Outcome
<1>5. CASE rst
  <2>1. sar \in SarEntry /\ sar.recvd = SeqNumb(R) /\ sar.head = SeqNumb(H)
        /\ (gap => sar.offset = SeqNumb(O))
    BY DEF Parts, Pointers, Types
  <2>2. DataEnd(R) \in Nat
    BY SizeFacts DEF DataEnd, Positions
  <2>3. DataEnd(R) = DataEnd(R) + none
    BY <2>2
  <2>4. ASSUME DdrBypass PROVE AcceptFifo(seg, R, R, H, gap, none, yes)
    <3>1. sar.gap = FALSE /\ R = H
      BY <2>4 DEF Parts, FifoBuild
    <3> QED
      BY <1>2, <1>3, <1>5, <2>4, <3>1 DEF AcceptFifo
  <2>5. ASSUME ~DdrBypass PROVE AcceptRing(seg, R, H, O, R, H, O, gap, none, yes)
    <3>1. GapAt(R, H, O)
      BY <2>5 DEF Parts, RingBuild
    <3>2. \A x \in Nat : ~(DataEnd(R) <= x /\ x < DataEnd(R))
      BY <2>2
    <3>3. RingMove(seg, R, H, O, R, H, O, gap, none)
      BY <1>2, <2>3, <3>1, <3>2 DEF RingMove, GapAt
    <3> QED
      BY <1>2, <1>3, <1>5, <2>5, <3>3 DEF AcceptRing
  <2>6. Accept(seg, R, H, O, R, H, O, gap, none, yes)
    BY <1>2, <1>3, <2>1, <2>3, <2>4, <2>5 DEF Accept
  <2> QED
    BY <1>1, <2>6, AcceptedOutcome
<1> QED
  BY <1>4, <1>5

(* State TRANSITION. *)
LEMMA FsmOutcome ==
  ASSUME SteadyPeer, Types, NEW C \in Seq(Segments), NEW R \in Positions, NEW H \in Positions,
         NEW O \in Positions, Parts(C, R, H, O), FsmAck \/ FsmFin \/ FsmDefault
  PROVE  Outcome(R, H, O)
  BY AckFifo, AckRing, FinOutcome, DefaultOutcome

-----------------------------------------------------------------------------
(* Every step keeps the invariant *)

(* What a step that moves neither pointers nor data leaves as it is. *)
LEMMA RestSame ==
  ASSUME NEW C \in Seq(Segments), NEW R \in Positions, NEW H \in Positions, NEW O \in Positions,
         Parts(C, R, H, O),
         UNCHANGED <<start, sar, writes, delayed, statuses, notes, delivered, reads, mem>>
  PROVE  /\ (DdrBypass => FifoBuild(C, R, H))'
         /\ (~DdrBypass => RingBuild(C, R, H, O))'
         /\ WindowEdge' = WindowEdge
         /\ fsm' = <<>> => Pointers(R, H, O)'
         /\ fsm' = fsm => Pointers(R, H, O)'
         /\ fsm' # <<>> /\ fsm'[1].sar = sar => Pointers(R, H, O)'
<1>1. AppPos' = AppPos /\ WindowEdge' = WindowEdge
  BY DEF AppPos, WindowEdge
<1>2. (DdrBypass => FifoBuild(C, R, H))'
  <2>1. DdrBypass' = DdrBypass
    BY DEF DdrBypass
  <2>2. FifoBuild(C, R, H) => FifoBuild(C, R, H)'
    BY DEF FifoBuild, FifoOf
  <2> QED
    BY <2>1, <2>2 DEF Parts
<1>3. (~DdrBypass => RingBuild(C, R, H, O))'
  <2>1. DdrBypass' = DdrBypass
    BY DEF DdrBypass
  <2>a. \A p : Cell(p)' = Cell(p)
    BY DEF Cell, Isn
  <2>b. \A k : NotifiedAt(k)' = NotifiedAt(k) /\ WrittenAt(k)' = WrittenAt(k)
    BY <1>1 DEF NotifiedAt, WrittenAt
  <2>c. \A p, n : Covered(C, p, n)' <=> Covered(C, p, n)
    BY <2>a DEF Covered
  <2>2. GapAt(R, H, O) => GapAt(R, H, O)'
    BY <1>1 DEF GapAt
  <2>3. Commands(C) => Commands(C)'
    BY <2>a DEF Commands
  <2>4. Contents(C) => Contents(C)'
    BY <2>b, <2>c DEF Contents
  <2>5. GapContents(C, H, O) => GapContents(C, H, O)'
    BY <2>c DEF GapContents
  <2>6. Unnotified(C) => Unnotified(C)'
    BY <2>b DEF Unnotified
  <2>7. ReadsAt => ReadsAt'
    BY <1>1, <2>a DEF ReadsAt
  <2> QED
    BY <2>1, <2>2, <2>3, <2>4, <2>5, <2>6, <2>7 DEF Parts, RingBuild
<1>4. (sar.recvd = SeqNumb(R) /\ sar.head = SeqNumb(H) /\ (sar.gap => sar.offset = SeqNumb(O)))'
  BY DEF Parts, Pointers, SeqNumb, Isn
<1>5. (AppPos + Total(Lens(notes)) + Total(Lens(delayed)) = DataEnd(R))'
  BY <1>1 DEF Parts, Pointers
<1>6. ASSUME fsm' = <<>> PROVE Pointers(R, H, O)'
  BY <1>4, <1>5, <1>6 DEF Pointers
<1>7. ASSUME fsm' = fsm PROVE Pointers(R, H, O)'
  BY <1>4, <1>5, <1>7 DEF Parts, Pointers
<1>8. ASSUME fsm' # <<>>, fsm'[1].sar = sar PROVE Pointers(R, H, O)'
  BY <1>4, <1>5, <1>8 DEF Pointers
<1> QED
  BY <1>1, <1>2, <1>3, <1>6, <1>7, <1>8

(* A segment arrives. *)
LEMMA ReceiveKeeps ==
  ASSUME SteadyPeer, Types, NEW C \in Seq(Segments), NEW R \in Positions, NEW H \in Positions,
         NEW O \in Positions, Parts(C, R, H, O), NEW seg \in Segments, NEW hit \in BOOLEAN,
         Receive(seg, hit)
  PROVE  Types' /\ Parts(C, R, H, O)'
<1>1. /\ payloads \in Seq(Segments) /\ Len(payloads) <= Depth
      /\ fsmMeta \in Seq(Segments) /\ Len(fsmMeta) <= Depth
      /\ drop1 \in Seq(BOOLEAN) /\ Len(drop1) <= Depth /\ Depth \in Nat
      /\ Len(payloads) < Depth /\ Len(fsmMeta) < Depth /\ Len(drop1) < Depth
  BY SizeFacts DEF Types, Receive, Room
<1>2. payloads' \in Seq(Segments) /\ Len(payloads') <= Depth
  BY <1>1, Appended DEF Receive
<1>3. drop1' \in Seq(BOOLEAN) /\ Len(drop1') <= Depth
  <2> PICK b \in BOOLEAN : b = ~hit
    OBVIOUS
  <2>1. drop1' = drop1 \/ drop1' = Append(drop1, b)
    BY DEF Receive
  <2>2. Append(drop1, b) \in Seq(BOOLEAN) /\ Len(Append(drop1, b)) <= Depth
    BY <1>1, Appended
  <2> QED
    BY <1>1, <2>1, <2>2, Zenon
<1>4. fsmMeta' \in Seq(Segments) /\ Len(fsmMeta') <= Depth
  BY <1>1, Appended DEF Receive
<1>5. Types'
  BY <1>2, <1>3, <1>4 DEF Types, Receive
<1>6. Matched(C)'
  BY MatchedReceive DEF Parts
<1>7. UNCHANGED <<start, sar, writes, delayed, statuses, notes, delivered, reads, mem>>
      /\ fsm' = fsm
  BY DEF Receive
<1>8. /\ (DdrBypass => FifoBuild(C, R, H))' /\ (~DdrBypass => RingBuild(C, R, H, O))'
      /\ WindowEdge' = WindowEdge /\ Pointers(R, H, O)'
  BY <1>7, RestSame
<1>9. Windows(C)'
  <2>1. ASSUME NEW i \in 1 .. Len(fsmMeta') PROVE InWindow(fsmMeta[i])'
    <3>1. fsmMeta' = fsmMeta \/ fsmMeta' = Append(fsmMeta, seg)
      BY DEF Receive
    <3>2. Append(fsmMeta, seg)[Len(fsmMeta) + 1] = seg /\ Len(Append(fsmMeta, seg)) = Len(fsmMeta) + 1
          /\ (\A j \in 1 .. Len(fsmMeta) : Append(fsmMeta, seg)[j] = fsmMeta[j])
          /\ Len(fsmMeta) \in Nat
      BY <1>1, Appended
    <3>3. fsmMeta'[i] = seg \/ (i \in 1 .. Len(fsmMeta) /\ fsmMeta'[i] = fsmMeta[i])
      BY <3>1, <3>2
    <3>4. InWindow(fsmMeta'[i])
      BY <3>3 DEF Parts, Windows, InWindow, Receive
    <3> QED
      BY <1>8, <3>4 DEF InWindow
  <2>2. (\A i \in 1 .. Len(fsm) : InWindow(fsm[i].seg))' /\ (\A i \in 1 .. Len(C) : InWindow(C[i]))'
    BY <1>7, <1>8 DEF Parts, Windows, InWindow
  <2> QED
    BY <2>1, <2>2 DEF Windows
<1> QED
  BY <1>5, <1>6, <1>8, <1>9 DEF Parts

(* rxTcpFSM loads a segment. *)
LEMMA LoadKeeps ==
  ASSUME SteadyPeer, Types, NEW C \in Seq(Segments), NEW R \in Positions, NEW H \in Positions,
         NEW O \in Positions, Parts(C, R, H, O), FsmLoad
  PROVE  Types' /\ Parts(C, R, H, O)'
<1>1. fsmMeta \in Seq(Segments) /\ Len(fsmMeta) <= Depth /\ fsmMeta # <<>> /\ fsm = <<>>
      /\ fsmMeta' = Tail(fsmMeta) /\ sar \in SarEntry
      /\ UNCHANGED <<start, sar, state, payloads, drop1, drop2, kept, writes, reads, mem, statuses,
                     delayed, notes, delivered>>
  BY DEF Types, FsmLoad
<1>2. fsmMeta' \in Seq(Segments) /\ Len(fsmMeta') = Len(fsmMeta) - 1 /\ Len(fsmMeta) \in Nat \ {0}
      /\ fsmMeta[1] \in Segments /\ (\A i \in 1 .. Len(fsmMeta) - 1 : fsmMeta'[i] = fsmMeta[i + 1])
      /\ Head(fsmMeta) = fsmMeta[1]
  BY <1>1, HeadAndTail
<1> PICK x \in FsmEntry : x = [seg |-> fsmMeta[1], sar |-> sar]
  BY <1>1, <1>2 DEF FsmEntry
<1>3. fsm' = <<x>> /\ x.seg = fsmMeta[1] /\ x.sar = sar
  BY <1>2 DEF FsmLoad
<1>4. fsm' \in Seq(FsmEntry) /\ Len(fsm') = 1 /\ fsm' # <<>> /\ fsm'[1] = x
  BY <1>3
<1>5. Types'
  <2>1. Len(fsmMeta') <= Depth
    BY <1>1, <1>2, SizeFacts
  <2> QED
    BY <1>1, <1>2, <1>4, <2>1 DEF Types
<1>6. Matched(C)'
  BY MatchedLoad DEF Parts
<1>7. fsm' # <<>> /\ fsm'[1].sar = sar
  BY <1>3, <1>4
<1>8. /\ (DdrBypass => FifoBuild(C, R, H))' /\ (~DdrBypass => RingBuild(C, R, H, O))'
      /\ WindowEdge' = WindowEdge /\ Pointers(R, H, O)'
  BY <1>1, <1>7, RestSame
<1>9. Windows(C)'
  <2>1. \A y : InWindow(y)' <=> InWindow(y)
    BY <1>8 DEF InWindow
  <2>2. Windows(C)
    BY DEF Parts
  <2>3. ASSUME NEW i \in 1 .. Len(fsmMeta') PROVE InWindow(fsmMeta[i])'
    <3>1. i \in 1 .. Len(fsmMeta) - 1 /\ i + 1 \in 1 .. Len(fsmMeta)
      BY <1>2
    <3>2. InWindow(fsmMeta[i + 1])
      BY <2>2, <3>1 DEF Windows
    <3>3. fsmMeta'[i] = fsmMeta[i + 1]
      BY <1>2, <3>1
    <3> QED
      BY <1>8, <3>2, <3>3 DEF InWindow
  <2>4. ASSUME NEW i \in 1 .. Len(fsm') PROVE InWindow(fsm[i].seg)'
    <3>1. i = 1
      BY <1>4
    <3>2. InWindow(fsmMeta[1])
      BY <1>2, <2>2 DEF Windows
    <3> QED
      BY <1>3, <1>4, <1>8, <3>1, <3>2 DEF InWindow
  <2>5. \A i \in 1 .. Len(C) : InWindow(C[i])'
    BY <1>8, <2>2 DEF Windows, InWindow
  <2> QED
    BY <2>3, <2>4, <2>5 DEF Windows
<1> QED
  BY <1>5, <1>6, <1>8, <1>9 DEF Parts

(* Nothing that arrives or is loaded changes, nor the payloads: the        *)
(* windows stay.                                                           *)
LEMMA WindowsSame ==
  ASSUME NEW C \in Seq(Segments), Windows(C), WindowEdge' = WindowEdge, fsmMeta' = fsmMeta,
         fsm' = fsm \/ fsm' = <<>>
  PROVE  Windows(C)'
<1>1. \A i \in 1 .. Len(fsmMeta') : InWindow(fsmMeta[i])'
  BY DEF Windows, InWindow
<1>2. \A i \in 1 .. Len(fsm') : InWindow(fsm[i].seg)'
  <2>1. CASE fsm' = fsm
    BY <2>1 DEF Windows, InWindow
  <2>2. CASE fsm' = <<>>
    BY <2>2
  <2> QED
    BY <2>1, <2>2
<1>3. \A i \in 1 .. Len(C) : InWindow(C[i])'
  BY DEF Windows, InWindow
<1> QED
  BY <1>1, <1>2, <1>3 DEF Windows

(* The dropper. *)
LEMMA DropperKeeps ==
  ASSUME SteadyPeer, Types, NEW C \in Seq(Segments), NEW R \in Positions, NEW H \in Positions,
         NEW O \in Positions, Parts(C, R, H, O), Dropper
  PROVE  Types' /\ Parts(C, R, H, O)'
<1>1. /\ UNCHANGED <<start, sar, state, fsm, fsmMeta, writes, reads, mem, statuses, delayed, notes,
                     delivered>>
      /\ payloads # <<>> /\ drop1 # <<>> /\ payloads' = Tail(payloads) /\ drop1' = Tail(drop1)
  BY DEF Dropper
<1>2. payloads' \in Seq(Segments) /\ Len(payloads') <= Depth
  <2>1. payloads \in Seq(Segments) /\ Len(payloads) <= Depth
    BY DEF Types
  <2> QED
    BY <1>1, <2>1, HeadAndTail, SizeFacts
<1>3. drop1' \in Seq(BOOLEAN) /\ Len(drop1') <= Depth
  <2>1. drop1 \in Seq(BOOLEAN) /\ Len(drop1) <= Depth
    BY DEF Types
  <2> QED
    BY <1>1, <2>1, HeadAndTail, SizeFacts
<1>4. /\ drop2' \in Seq(BOOLEAN) /\ Len(drop2') <= Depth
      /\ kept' \in Seq(Segments) /\ Len(kept') <= Depth
  <2>1. drop2 \in Seq(BOOLEAN) /\ Len(drop2) <= Depth /\ kept \in Seq(Segments) /\ Len(kept) <= Depth
        /\ payloads \in Seq(Segments) /\ Depth \in Nat
    BY SizeFacts DEF Types
  <2>2. CASE UNCHANGED <<drop2, kept>>
    BY <2>1, <2>2
  <2>3. CASE drop2 # <<>> /\ Room(kept) /\ drop2' = Tail(drop2)
             /\ kept' = (IF Head(drop2) THEN kept ELSE Append(kept, Head(payloads)))
    <3>1. Tail(drop2) \in Seq(BOOLEAN) /\ Len(Tail(drop2)) <= Depth
      <4>1. Tail(drop2) \in Seq(BOOLEAN) /\ Len(Tail(drop2)) = Len(drop2) - 1 /\ Len(drop2) \in Nat
        BY <2>1, <2>3, HeadAndTail
      <4> QED
        BY <2>1, <4>1
    <3> PICK x \in Segments : x = Head(payloads)
      BY <1>1, <2>1, HeadAndTail
    <3>2. Append(kept, x) \in Seq(Segments) /\ Len(Append(kept, x)) <= Depth
      <4>1. Append(kept, x) \in Seq(Segments) /\ Len(Append(kept, x)) = Len(kept) + 1
            /\ Len(kept) \in Nat
        BY <2>1, Appended
      <4>2. Len(kept) < Depth
        BY <2>3 DEF Room
      <4> QED
        BY <2>1, <4>1, <4>2
    <3>3. kept' = kept \/ kept' = Append(kept, x)
      BY <2>3
    <3>4. kept' \in Seq(Segments) /\ Len(kept') <= Depth
      BY <2>1, <3>2, <3>3, Zenon
    <3> QED
      BY <2>3, <3>1, <3>4, Zenon
  <2> QED
    BY <2>2, <2>3 DEF Dropper
<1>5. Types'
  BY <1>1, <1>2, <1>3, <1>4 DEF Types
<1>6. Matched(C)'
  BY MatchedDropper DEF Parts
<1>7. /\ (DdrBypass => FifoBuild(C, R, H))' /\ (~DdrBypass => RingBuild(C, R, H, O))'
      /\ WindowEdge' = WindowEdge /\ Pointers(R, H, O)'
  BY <1>1, RestSame
<1>8. Windows(C)'
  BY <1>1, <1>7, WindowsSame DEF Parts
<1> QED
  BY <1>5, <1>6, <1>7, <1>8 DEF Parts

(* A segment without data, without consequences. *)
LEMMA QuietKeeps ==
  ASSUME SteadyPeer, Types, NEW C \in Seq(Segments), NEW R \in Positions, NEW H \in Positions,
         NEW O \in Positions, Parts(C, R, H, O), Transition, Quiet
  PROVE  Types' /\ Parts(C, R, H, O)'
<1>1. /\ fsm # <<>> /\ fsm' = <<>> /\ fsm[1].seg.len = 0
      /\ state' \in {"ESTABLISHED", "LAST_ACK", "CLOSED"}
      /\ UNCHANGED <<start, payloads, fsmMeta, drop1, kept, reads, mem, statuses, delivered, sar,
                     drop2, writes, delayed, notes>>
  BY DEF Transition, Quiet
<1>2. Types'
  <2>1. fsm' \in Seq(FsmEntry) /\ Len(fsm') <= 1
    BY <1>1
  <2> QED
    BY <1>1, <2>1 DEF Types
<1>3. Matched(C)'
  BY <1>1, MatchedNoData DEF Parts
<1>4. /\ (DdrBypass => FifoBuild(C, R, H))' /\ (~DdrBypass => RingBuild(C, R, H, O))'
      /\ WindowEdge' = WindowEdge /\ Pointers(R, H, O)'
  BY <1>1, RestSame
<1>5. Windows(C)'
  BY <1>1, <1>4, WindowsSame DEF Parts
<1> QED
  BY <1>2, <1>3, <1>4, <1>5 DEF Parts

(* A payload that is dropped. *)
LEMMA RejectKeeps ==
  ASSUME SteadyPeer, Types, NEW C \in Seq(Segments), NEW R \in Positions, NEW H \in Positions,
         NEW O \in Positions, Parts(C, R, H, O), Transition, Reject
  PROVE  Types' /\ Parts(C, R, H, O)'
<1> PICK yes \in BOOLEAN : yes = TRUE
  OBVIOUS
<1>1. /\ fsm # <<>> /\ fsm' = <<>> /\ fsm[1].seg.len # 0
      /\ state' \in {"ESTABLISHED", "LAST_ACK", "CLOSED"}
      /\ UNCHANGED <<start, payloads, fsmMeta, drop1, kept, reads, mem, statuses, delivered, sar,
                     writes, delayed, notes>>
      /\ drop2' = Append(drop2, yes)
  BY DEF Transition, Reject
<1>2. Types'
  <2>1. fsm' \in Seq(FsmEntry) /\ Len(fsm') <= 1
    BY <1>1
  <2>2. drop2' \in Seq(BOOLEAN) /\ Len(drop2') <= Depth
    <3>1. drop2 \in Seq(BOOLEAN) /\ Len(drop2) < Depth /\ Depth \in Nat
      BY SizeFacts DEF Types, Reject, Room
    <3>2. Append(drop2, yes) \in Seq(BOOLEAN) /\ Len(Append(drop2, yes)) = Len(drop2) + 1
      BY <3>1, Appended
    <3>3. Len(Append(drop2, yes)) <= Depth
      BY <3>1, <3>2
    <3> QED
      BY <1>1, <3>2, <3>3, Zenon
  <2> QED
    BY <1>1, <2>1, <2>2 DEF Types
<1>3. Matched(C)'
  <2>1. fsm[1].seg \in Segments
    BY <1>1, Loaded
  <2> QED
    BY <1>1, <2>1, MatchedDecide DEF Parts
<1>4. /\ (DdrBypass => FifoBuild(C, R, H))' /\ (~DdrBypass => RingBuild(C, R, H, O))'
      /\ WindowEdge' = WindowEdge /\ Pointers(R, H, O)'
  BY <1>1, RestSame
<1>5. Windows(C)'
  BY <1>1, <1>4, WindowsSame DEF Parts
<1> QED
  BY <1>2, <1>3, <1>4, <1>5 DEF Parts

(* The accepted payloads, after a segment is accepted. *)
More(C, seg) == IF seg.len # 0 THEN Append(C, seg) ELSE C

LEMMA MoreAre ==
  ASSUME NEW C \in Seq(Segments), NEW seg \in Segments
  PROVE  /\ More(C, seg) \in Seq(Segments) /\ Len(C) \in Nat /\ Len(More(C, seg)) \in Nat
         /\ \A i \in 1 .. Len(C) : More(C, seg)[i] = C[i]
         /\ seg.len = 0 => Len(More(C, seg)) = Len(C)
         /\ seg.len # 0 => /\ Len(More(C, seg)) = Len(C) + 1
                           /\ More(C, seg)[Len(C) + 1] = seg
<1>1. CASE seg.len = 0
  BY <1>1 DEF More
<1>2. CASE seg.len # 0
  <2>1. More(C, seg) = Append(C, seg)
    BY <1>2 DEF More
  <2> QED
    BY <1>2, <2>1, Appended
<1> QED
  BY <1>1, <1>2

Accepted(C, R, H, O, seg, R2, H2, O2, gap, n, closed) ==
  /\ C \in Seq(Segments) /\ {R, H, O, R2, H2, O2} \subseteq Positions
  /\ seg \in Segments /\ n \in Nat /\ gap \in BOOLEAN /\ closed \in BOOLEAN
  /\ SteadyPeer /\ Types /\ Parts(C, R, H, O) /\ Transition
  /\ Accept(seg, R, H, O, R2, H2, O2, gap, n, closed)

LEMMA AcceptNote ==
  ASSUME NEW seg, NEW n \in Nat, NEW closed \in BOOLEAN, (closed /\ n = 0) <=> seg.len = 0
  PROVE  /\ NoteOf(n, closed) \in Note /\ NoteOf(n, closed).len = n
         /\ ClosedOnly(NoteOf(n, closed)) <=> seg.len = 0
  BY DEF NoteOf, Note, ClosedOnly

LEMMA AcceptTypes ==
  ASSUME NEW C, NEW R, NEW H, NEW O, NEW seg, NEW R2, NEW H2, NEW O2, NEW gap, NEW n, NEW closed,
         Accepted(C, R, H, O, seg, R2, H2, O2, gap, n, closed)
  PROVE  Types'
<1>0. /\ C \in Seq(Segments) /\ R \in Positions /\ H \in Positions /\ O \in Positions
      /\ seg \in Segments /\ R2 \in Positions /\ H2 \in Positions /\ O2 \in Positions
      /\ gap \in BOOLEAN /\ n \in Nat /\ closed \in BOOLEAN
  BY DEF Accepted
<1> USE <1>0
<1>1. Types /\ Transition /\ Accept(seg, R, H, O, R2, H2, O2, gap, n, closed)
  BY DEF Accepted
<1>2. UNCHANGED <<start, payloads, fsmMeta, drop1, kept, reads, mem, statuses, delivered>>
      /\ state' \in {"ESTABLISHED", "LAST_ACK", "CLOSED"} /\ fsm' = <<>> /\ sar' \in SarEntry
  BY <1>1 DEF Transition, Accept
<1>3. fsm' \in Seq(FsmEntry) /\ Len(fsm') <= 1
  BY <1>2
<1>4. Depth \in Nat /\ seg.pos \in Nat /\ seg.len \in Nat /\ start \in Starts
  BY <1>1, SizeFacts, SMTT(40) DEF Types
<1>5. NoteOf(n, closed) \in Note
  BY <1>1, AcceptNote DEF Accept
<1>6. drop2' \in Seq(BOOLEAN) /\ Len(drop2') <= Depth
  <2> PICK no \in BOOLEAN : no = FALSE
    OBVIOUS
  <2>1. drop2 \in Seq(BOOLEAN) /\ Len(drop2) <= Depth /\ Len(drop2) \in Nat
    BY <1>1 DEF Types
  <2>2. CASE drop2' = drop2
    BY <2>1, <2>2
  <2>3. CASE Len(drop2) < Depth /\ drop2' = Append(drop2, no)
    <3>1. Append(drop2, no) \in Seq(BOOLEAN) /\ Len(Append(drop2, no)) = Len(drop2) + 1
      BY <2>1, Appended
    <3>2. Len(Append(drop2, no)) <= Depth
      BY <1>4, <2>1, <2>3, <3>1
    <3> QED
      BY <2>3, <3>1, <3>2, Zenon
  <2> QED
    BY <1>1, <2>2, <2>3 DEF Accept, Room
<1>7. delayed \in Seq(Note) /\ Len(delayed) <= Depth /\ Len(delayed) \in Nat
      /\ notes \in Seq(Note) /\ Len(notes) <= Depth /\ Len(notes) \in Nat
      /\ writes \in Seq(Command) /\ Len(writes) <= Depth /\ Len(writes) \in Nat
  BY <1>1 DEF Types
<1>8. CASE DdrBypass
  <2>1. notes' = Append(notes, NoteOf(n, closed)) /\ UNCHANGED <<writes, delayed>>
        /\ Len(notes) < Depth
    BY <1>1, <1>8 DEF Accept, AcceptFifo, Room
  <2>2. notes' \in Seq(Note) /\ Len(notes') = Len(notes) + 1
    BY <1>5, <1>7, <2>1, Appended
  <2>3. Len(notes') <= Depth
    BY <1>4, <1>7, <2>1, <2>2
  <2> QED
    BY <1>1, <1>2, <1>3, <1>6, <2>1, <2>2, <2>3 DEF Types
<1>9. CASE ~DdrBypass
  <2>1. delayed' = Append(delayed, NoteOf(n, closed)) /\ UNCHANGED notes /\ Len(delayed) < Depth
    BY <1>1, <1>9 DEF Accept, AcceptRing, Room
  <2>2. delayed' \in Seq(Note) /\ Len(delayed') = Len(delayed) + 1
    BY <1>5, <1>7, <2>1, Appended
  <2>3. Len(delayed') <= Depth
    BY <1>4, <1>7, <2>1, <2>2
  <2>4. writes' \in Seq(Command) /\ Len(writes') <= Depth
    <3> PICK c \in Command : c = [addr |-> Cell(seg.pos), len |-> seg.len]
      BY <1>4, CellFacts DEF Command
    <3>1. CASE writes' = writes
      BY <1>7, <3>1
    <3>2. CASE Len(writes) < Depth /\ writes' = Append(writes, c)
      <4>1. Append(writes, c) \in Seq(Command) /\ Len(Append(writes, c)) = Len(writes) + 1
        BY <1>7, Appended
      <4>2. Len(Append(writes, c)) <= Depth
        BY <1>4, <1>7, <3>2, <4>1
      <4> QED
        BY <3>2, <4>1, <4>2, Zenon
    <3> QED
      BY <1>1, <1>9, <3>1, <3>2 DEF Accept, AcceptRing, Room
  <2> QED
    BY <1>1, <1>2, <1>3, <1>6, <2>1, <2>2, <2>3, <2>4 DEF Types
<1> QED
  BY <1>8, <1>9

LEMMA AcceptParts ==
  ASSUME NEW C, NEW R, NEW H, NEW O, NEW seg, NEW R2, NEW H2, NEW O2, NEW gap, NEW n, NEW closed,
         Accepted(C, R, H, O, seg, R2, H2, O2, gap, n, closed), NEW D, D = More(C, seg)
  PROVE  Matched(D)' /\ Windows(D)' /\ Pointers(R2, H2, O2)'
<1>0. /\ C \in Seq(Segments) /\ R \in Positions /\ H \in Positions /\ O \in Positions
      /\ seg \in Segments /\ R2 \in Positions /\ H2 \in Positions /\ O2 \in Positions
      /\ gap \in BOOLEAN /\ n \in Nat /\ closed \in BOOLEAN
  BY DEF Accepted
<1> USE <1>0
<1>1. Types /\ Transition /\ Accept(seg, R, H, O, R2, H2, O2, gap, n, closed) /\ Parts(C, R, H, O)
  BY DEF Accepted
<1>2. UNCHANGED <<start, payloads, fsmMeta, drop1, kept, reads, mem, statuses, delivered>>
      /\ fsm # <<>> /\ fsm' = <<>> /\ seg = fsm[1].seg
  BY <1>1 DEF Transition, Accept
<1>3. Matched(D)'
  <2>1. CASE seg.len = 0
    <3>1. drop2' = drop2
      BY <1>1, <2>1 DEF Accept
    <3>2. Matched(C)'
      BY <1>1, <1>2, <2>1, <3>1, MatchedNoData DEF Parts
    <3> QED
      BY <2>1, <3>2 DEF More
  <2>2. CASE seg.len # 0
    <3> PICK no \in BOOLEAN : no = FALSE
      OBVIOUS
    <3>1. drop2' = Append(drop2, no)
      BY <1>1, <2>2 DEF Accept
    <3>2. Matched(Append(C, seg))'
      BY <1>1, <1>2, <2>2, <3>1, MatchedDecide DEF Parts
    <3>3. D = Append(C, seg)
      BY <2>2 DEF More
    <3> QED
      BY <3>2, <3>3
  <2> QED
    BY <2>1, <2>2
<1>4. AppPos' = AppPos /\ WindowEdge' = WindowEdge
  BY <1>2 DEF AppPos, WindowEdge
<1>5. Windows(D)'
  <2>1. Windows(C) /\ Len(fsm) = 1
    BY <1>1, <1>2, Loaded DEF Parts
  <2>2. InWindow(seg)
    BY <1>2, <2>1 DEF Windows
  <2>3. ASSUME NEW i \in 1 .. Len(D) PROVE InWindow(D[i])
    <3>0. Len(C) \in Nat /\ (\A k \in 1 .. Len(C) : D[k] = C[k])
          /\ (seg.len = 0 => Len(D) = Len(C))
          /\ (seg.len # 0 => Len(D) = Len(C) + 1 /\ D[Len(C) + 1] = seg)
      BY MoreAre
    <3>1. (i \in 1 .. Len(C) /\ D[i] = C[i]) \/ D[i] = seg
      BY <3>0
    <3> QED
      BY <2>1, <2>2, <3>1 DEF Windows
  <2>4. Windows(D)
    BY <2>1, <2>3 DEF Windows
  <2>5. D \in Seq(Segments)
    BY MoreAre
  <2> QED
    BY <1>2, <1>4, <2>4, <2>5, WindowsSame
<1>6. Pointers(R2, H2, O2)'
  <2>1. (\A x : SeqNumb(x)' = SeqNumb(x)) /\ (\A x : DataEnd(x)' = DataEnd(x))
    BY <1>2 DEF SeqNumb, Isn, DataEnd
  <2>2. sar'.recvd = SeqNumb(R2) /\ sar'.head = SeqNumb(H2) /\ (sar'.gap => sar'.offset = SeqNumb(O2))
        /\ DataEnd(R2) = DataEnd(R) + n
    BY <1>1 DEF Accept
  <2>3. AppPos + Total(Lens(notes)) + Total(Lens(delayed)) = DataEnd(R)
    BY <1>1 DEF Parts, Pointers
  <2>4. NoteOf(n, closed) \in Note /\ NoteOf(n, closed).len = n
    BY <1>1, AcceptNote DEF Accept
  <2>5. notes \in Seq(Note) /\ delayed \in Seq(Note)
    BY <1>1 DEF Types
  <2>6. Total(Lens(notes')) + Total(Lens(delayed')) = Total(Lens(notes)) + Total(Lens(delayed)) + n
    <3> PICK x \in Note : x = NoteOf(n, closed) /\ x.len = n
      BY <2>4
    <3>1. Total(Lens(Append(notes, x))) = Total(Lens(notes)) + x.len
      BY <2>5, LensOf, LensAppend
    <3>2. Total(Lens(Append(delayed, x))) = Total(Lens(delayed)) + x.len
      BY <2>5, LensOf, LensAppend
    <3>3. \/ notes' = Append(notes, x) /\ delayed' = delayed
          \/ notes' = notes /\ delayed' = Append(delayed, x)
      BY <1>1 DEF Accept, AcceptFifo, AcceptRing
    <3>4. Total(Lens(notes)) \in Nat /\ Total(Lens(delayed)) \in Nat
      BY <1>1, SumTypes
    <3>5. CASE notes' = Append(notes, x) /\ delayed' = delayed
      <4>1. Total(Lens(notes')) = Total(Lens(notes)) + n /\ Total(Lens(delayed')) = Total(Lens(delayed))
        BY <3>1, <3>5
      <4> QED
        BY <3>4, <4>1
    <3>6. CASE notes' = notes /\ delayed' = Append(delayed, x)
      <4>1. Total(Lens(delayed')) = Total(Lens(delayed)) + n /\ Total(Lens(notes')) = Total(Lens(notes))
        BY <3>2, <3>6
      <4> QED
        BY <3>4, <4>1
    <3> QED
      BY <3>3, <3>5, <3>6
  <2>7. AppPos + Total(Lens(notes')) + Total(Lens(delayed')) = DataEnd(R2)
    <3>1. AppPos \in Nat /\ Total(Lens(notes)) \in Nat /\ Total(Lens(delayed)) \in Nat
      BY <1>1, SumTypes
    <3>a. Types'
      BY AcceptTypes
    <3>2. notes' \in Seq(Note) /\ delayed' \in Seq(Note)
      BY <3>a DEF Types
    <3>3. Total(Lens(notes')) \in Nat /\ Total(Lens(delayed')) \in Nat
      <4>1. ASSUME NEW q \in Seq(Note) PROVE Total(Lens(q)) \in Nat
        BY LensOf, LensAre, SumsAre
      <4> QED
        BY <3>2, <4>1
    <3> QED
      BY <2>2, <2>3, <2>6, <3>1, <3>3, SMTT(40)
  <2>8. (AppPos + Total(Lens(notes)) + Total(Lens(delayed)) = DataEnd(R2))'
    BY <1>4, <2>1, <2>7
  <2> QED
    BY <1>2, <2>1, <2>2, <2>8 DEF Pointers
<1> QED
  BY <1>3, <1>5, <1>6

(* An accepted segment, in the build with the FIFO. *)
LEMMA AcceptFifoKeeps ==
  ASSUME NEW C, NEW R, NEW H, NEW O, NEW seg, NEW R2, NEW H2, NEW O2, NEW gap, NEW n, NEW closed,
         Accepted(C, R, H, O, seg, R2, H2, O2, gap, n, closed), NEW D, D = More(C, seg),
         DdrBypass
  PROVE  FifoBuild(D, R2, H2)'
<1>0. /\ C \in Seq(Segments) /\ R \in Positions /\ H \in Positions /\ O \in Positions
      /\ seg \in Segments /\ R2 \in Positions /\ H2 \in Positions /\ O2 \in Positions
      /\ gap \in BOOLEAN /\ n \in Nat /\ closed \in BOOLEAN
  BY DEF Accepted
<1> USE <1>0
<1>1. Types /\ Transition /\ Accept(seg, R, H, O, R2, H2, O2, gap, n, closed) /\ Parts(C, R, H, O)
  BY DEF Accepted
<1>2. UNCHANGED <<start, reads, statuses, delivered>>
  BY <1>1 DEF Transition
<1>3. AcceptFifo(seg, R, R2, H2, gap, n, closed) /\ sar'.gap = gap /\ DataEnd(R2) = DataEnd(R) + n
  BY <1>1 DEF Accept
<1>4. NoteOf(n, closed) \in Note /\ NoteOf(n, closed).len = n
  BY <1>1, AcceptNote DEF Accept
<1> PICK x \in Note : x = NoteOf(n, closed) /\ x.len = n
  BY <1>4
<1>5. notes' = Append(notes, x) /\ UNCHANGED <<writes, delayed>> /\ n = seg.len /\ gap = FALSE
      /\ H2 = R2 /\ (seg.len # 0 => seg.pos = DataEnd(R))
  BY <1>3 DEF AcceptFifo
<1>6. FifoBuild(C, R, H)
  BY <1>1 DEF Parts
<1>7. PICK N \in Seq(Note) : FifoOf(C, R, N)
  BY <1>6 DEF FifoBuild
<1>8. notes \in Seq(Note) /\ reads \in Seq(Command) /\ Len(reads) \in Nat /\ Len(N) \in Nat
      /\ Len(delivered) \in Nat
  BY <1>1 DEF Types
<1>9. Pending(Append(notes, x)) = Append(Pending(notes), IF x.len # 0 THEN 1 ELSE 0)
      /\ Pending(notes) \in Seq(Bits) /\ Selects(notes, Pending(notes), N)
  BY <1>7, <1>8, PendingAppend, PendingAre DEF FifoOf
<1>10. DataEnd(R) \in Nat /\ DataEnd(R2) \in Nat
  BY SizeFacts DEF DataEnd, Positions
<1>11. /\ D \in Seq(Segments) /\ Len(C) \in Nat /\ Len(D) \in Nat
       /\ \A i \in 1 .. Len(C) : D[i] = C[i]
       /\ seg.len = 0 => Len(D) = Len(C)
       /\ seg.len # 0 => Len(D) = Len(C) + 1 /\ D[Len(C) + 1] = seg
  BY MoreAre
<1>12. \E N2 \in Seq(Note) : FifoOf(D, R2, N2)'
  <2>1. CASE seg.len = 0
    <3>1. D = C /\ DataEnd(R2) = DataEnd(R)
      BY <1>3, <1>5, <1>10, <2>1 DEF More
    <3>2. Selects(Append(notes, x), Append(Pending(notes), 0), N)
      BY <1>8, <1>9, SelectsAppend
    <3>3. Pending(notes') = Append(Pending(notes), 0)
      BY <1>5, <1>9, <2>1
    <3>4. Selects(notes', Pending(notes'), N)
      BY <1>5, <3>2, <3>3
    <3>5. FifoOf(C, R, N)'
      BY <1>2, <1>7, <3>4 DEF FifoOf, DataEnd
    <3>6. FifoOf(D, R2, N)'
      BY <3>1, <3>5 DEF FifoOf, DataEnd
    <3> QED
      BY <3>6
  <2>2. CASE seg.len # 0
    <3> DEFINE M == Append(N, x)
    <3>1. M \in Seq(Note) /\ Len(M) = Len(N) + 1 /\ (\A i \in 1 .. Len(N) : M[i] = N[i])
          /\ M[Len(N) + 1] = x
      BY Appended
    <3>2. Selects(notes', Pending(notes'), M)
      <4>1. Selects(Append(notes, x), Append(Pending(notes), 1), M)
        BY <1>8, <1>9, SelectsAppend
      <4>2. Pending(notes') = Append(Pending(notes), 1)
        BY <1>5, <1>9, <2>2
      <4> QED
        BY <1>5, <4>1, <4>2
    <3> HIDE DEF M
    <3>3. /\ C = <<>> => Len(delivered) = DataEnd(R)
          /\ C # <<>> => C[1].pos = Len(delivered) /\ C[Len(C)].pos + C[Len(C)].len = DataEnd(R)
          /\ \A i \in 1 .. Len(C) - 1 : C[i + 1].pos = C[i].pos + C[i].len
          /\ Len(C) = Len(reads) + Len(N)
          /\ \A i \in 1 .. Len(reads) : reads[i].len = C[i].len
          /\ \A j \in 1 .. Len(N) : C[Len(reads) + j].len = N[j].len
      BY <1>7 DEF FifoOf
    <3>4. Len(D) = Len(C) + 1 /\ D[Len(C) + 1] = seg /\ D # <<>>
      BY <1>11, <2>2
    <3>5. D[1].pos = Len(delivered)
      <4>1. CASE C = <<>>
        BY <1>5, <1>11, <2>2, <3>3, <3>4, <4>1
      <4>2. CASE C # <<>>
        BY <1>11, <3>3, <4>2
      <4> QED
        BY <4>1, <4>2
    <3>6. D[Len(D)].pos + D[Len(D)].len = DataEnd(R2)
      BY <1>3, <1>5, <2>2, <3>4
    <3>7. ASSUME NEW i \in 1 .. Len(D) - 1 PROVE D[i + 1].pos = D[i].pos + D[i].len
      <4>1. i \in 1 .. Len(C) /\ C # <<>> /\ D[i] = C[i]
        BY <1>11, <3>4
      <4>2. CASE i = Len(C)
        BY <1>5, <2>2, <3>3, <3>4, <4>1, <4>2
      <4>3. CASE i # Len(C)
        <5>1. i \in 1 .. Len(C) - 1 /\ i + 1 \in 1 .. Len(C)
          BY <1>11, <4>1, <4>3
        <5> QED
          BY <1>11, <3>3, <4>1, <5>1
      <4> QED
        BY <4>2, <4>3
    <3>8. Len(D) = Len(reads) + Len(M)
      BY <1>8, <3>1, <3>3, <3>4
    <3>9. ASSUME NEW i \in 1 .. Len(reads) PROVE reads[i].len = D[i].len
      <4>1. i \in 1 .. Len(C)
        BY <1>8, <3>3
      <4> QED
        BY <1>11, <3>3, <4>1
    <3>10. ASSUME NEW j \in 1 .. Len(M) PROVE D[Len(reads) + j].len = M[j].len
      <4>1. CASE j = Len(N) + 1
        <5>1. Len(reads) + j = Len(C) + 1
          BY <1>8, <3>3, <4>1
        <5> QED
          BY <1>5, <3>1, <3>4, <4>1, <5>1
      <4>2. CASE j # Len(N) + 1
        <5>1. j \in 1 .. Len(N) /\ Len(reads) + j \in 1 .. Len(C)
          BY <1>8, <3>1, <3>3, <4>2
        <5> QED
          BY <1>11, <3>1, <3>3, <5>1
      <4> QED
        BY <4>1, <4>2
    <3>11. FifoOf(D, R2, M)'
      <4>1. DataEnd(R2)' = DataEnd(R2)
        BY DEF DataEnd
      <4> QED
        BY <1>2, <3>2, <3>4, <3>5, <3>6, <3>7, <3>8, <3>9, <3>10, <4>1 DEF FifoOf
    <3> QED
      BY <3>1, <3>11
  <2> QED
    BY <2>1, <2>2
<1> QED
  BY <1>2, <1>3, <1>5, <1>6, <1>12 DEF FifoBuild

(* A longer list of payloads covers no less. *)
LEMMA CoveredMore ==
  ASSUME NEW C \in Seq(Segments), NEW D \in Seq(Segments), Len(C) <= Len(D),
         \A i \in 1 .. Len(C) : D[i] = C[i], NEW p, NEW m \in Int, NEW n \in Int, m <= n,
         Covered(C, p, m)
  PROVE  Covered(D, p, n)
<1>1. CASE mem[Cell(p)] = p
  BY <1>1 DEF Covered
<1>2. CASE \E j \in 1 .. Len(C) : j <= m /\ Carries(C[j], p)
  <2>1. PICK j \in 1 .. Len(C) : j <= m /\ Carries(C[j], p)
    BY <1>2
  <2>2. j \in 1 .. Len(D) /\ D[j] = C[j] /\ j <= n
    BY <2>1
  <2> QED
    BY <2>1, <2>2 DEF Covered
<1> QED
  BY <1>1, <1>2 DEF Covered

(* Sums over the delayed notifications are numbers, and grow. *)
LEMMA DelayedSums ==
  ASSUME Types
  PROVE  /\ Len(delayed) \in Nat
         /\ \A k \in 0 .. Len(delayed) : NotifiedAt(k) \in Nat /\ WrittenAt(k) \in Nat
         /\ \A k \in 0 .. Len(delayed) : NotifiedAt(k) <= NotifiedAt(Len(delayed))
         /\ NotifiedAt(Len(delayed)) = AppPos + Total(Lens(notes)) + Total(Lens(delayed))
         /\ WrittenAt(Len(delayed)) = Total(Waits(delayed)) /\ Total(Waits(delayed)) \in Nat
<1>1. delayed \in Seq(Note) /\ Len(delayed) \in Nat
  BY DEF Types
<1>2. Lens(delayed) \in Seq(Nat) /\ Len(Lens(delayed)) = Len(delayed)
      /\ Waits(delayed) \in Seq(Nat) /\ Len(Waits(delayed)) = Len(delayed)
  BY <1>1, LensOf, LensAre, WaitsAre
<1>3. \A k \in 0 .. Len(delayed) : Sums(Lens(delayed))[k] \in Nat
  BY <1>2, SumsAre
<1>4. \A k \in 0 .. Len(delayed) : Sums(Waits(delayed))[k] \in Nat
  BY <1>2, SumsAre
<1>5. Total(Lens(delayed)) = Sums(Lens(delayed))[Len(delayed)]
      /\ Total(Waits(delayed)) = Sums(Waits(delayed))[Len(delayed)]
  BY <1>2, SumsAre
<1>6. AppPos \in Nat /\ Total(Lens(notes)) \in Nat
  BY SumTypes
<1>7. ASSUME NEW k \in 0 .. Len(delayed)
      PROVE  Sums(Lens(delayed))[k] <= Sums(Lens(delayed))[Len(delayed)]
  <2>1. k \in 0 .. Len(Lens(delayed)) /\ Len(delayed) \in k .. Len(Lens(delayed))
    BY <1>1, <1>2
  <2> QED
    BY <1>2, <2>1, SumsGrow
<1>8. ASSUME NEW k \in 0 .. Len(delayed)
      PROVE  /\ NotifiedAt(k) \in Nat /\ WrittenAt(k) \in Nat
             /\ NotifiedAt(k) <= NotifiedAt(Len(delayed))
  <2>1. Len(delayed) \in 0 .. Len(delayed)
    BY <1>1
  <2> QED
    BY <1>3, <1>4, <1>6, <1>7, <2>1 DEF NotifiedAt, WrittenAt
<1>9. WrittenAt(Len(delayed)) = Total(Waits(delayed)) /\ Total(Waits(delayed)) \in Nat
  BY <1>2, <1>5, SumsAre DEF WrittenAt
<1> QED
  BY <1>1, <1>5, <1>8, <1>9 DEF NotifiedAt

(* An accepted segment, in the build with the ring buffer. *)
LEMMA AcceptRingKeeps ==
  ASSUME NEW C, NEW R, NEW H, NEW O, NEW seg, NEW R2, NEW H2, NEW O2, NEW gap, NEW n, NEW closed,
         Accepted(C, R, H, O, seg, R2, H2, O2, gap, n, closed), NEW D, D = More(C, seg),
         ~DdrBypass
  PROVE  RingBuild(D, R2, H2, O2)'
<1>0. /\ C \in Seq(Segments) /\ R \in Positions /\ H \in Positions /\ O \in Positions
      /\ seg \in Segments /\ R2 \in Positions /\ H2 \in Positions /\ O2 \in Positions
      /\ gap \in BOOLEAN /\ n \in Nat /\ closed \in BOOLEAN
  BY DEF Accepted
<1> USE <1>0
<1>1. Types /\ Transition /\ Accept(seg, R, H, O, R2, H2, O2, gap, n, closed) /\ Parts(C, R, H, O)
  BY DEF Accepted
<1>2. UNCHANGED <<start, reads, mem, statuses, delivered>>
  BY <1>1 DEF Transition
<1>3. AcceptRing(seg, R, H, O, R2, H2, O2, gap, n, closed) /\ sar'.gap = gap
      /\ sar'.appd = sar.appd /\ ((closed /\ n = 0) <=> seg.len = 0)
  BY <1>1 DEF Accept
<1>4. NoteOf(n, closed) \in Note /\ NoteOf(n, closed).len = n
      /\ (ClosedOnly(NoteOf(n, closed)) <=> seg.len = 0)
  BY <1>3, AcceptNote
<1> PICK x \in Note : x = NoteOf(n, closed) /\ x.len = n /\ (ClosedOnly(x) <=> seg.len = 0)
  BY <1>4
<1>5. delayed' = Append(delayed, x) /\ notes' = notes
      /\ (seg.len = 0 => writes' = writes)
      /\ (seg.len # 0 => writes' = Append(writes, [addr |-> Cell(seg.pos), len |-> seg.len]))
      /\ RingMove(seg, R, H, O, R2, H2, O2, gap, n)
  BY <1>3 DEF AcceptRing
<1>6. GapAt(R, H, O) /\ Commands(C) /\ Contents(C) /\ GapContents(C, H, O) /\ Unnotified(C)
      /\ ReadsAt
  BY <1>1 DEF Parts, RingBuild
<1>7. /\ D \in Seq(Segments) /\ Len(C) \in Nat /\ Len(D) \in Nat
      /\ \A i \in 1 .. Len(C) : D[i] = C[i]
      /\ seg.len = 0 => Len(D) = Len(C)
      /\ seg.len # 0 => Len(D) = Len(C) + 1 /\ D[Len(C) + 1] = seg
  BY MoreAre
<1>8. AppPos' = AppPos
  BY <1>2 DEF AppPos
<1>9. \A p : Cell(p)' = Cell(p)
  BY <1>2 DEF Cell, Isn
<1>10. \A p, m : Covered(D, p, m)' <=> Covered(D, p, m)
  BY <1>2, <1>9 DEF Covered
<1>11. delayed \in Seq(Note) /\ writes \in Seq(Command) /\ Len(delayed) \in Nat /\ statuses \in Nat
       /\ Len(delivered) \in Nat /\ start \in Starts
  BY <1>1 DEF Types
<1> PICK b \in Bits : b = IF ClosedOnly(x) THEN 0 ELSE 1
  BY DEF Bits
<1>12. b \in Nat /\ Len(D) = Len(C) + b /\ (b = 0 <=> seg.len = 0) /\ b <= 1
  BY <1>7 DEF Bits
<1>13. Len(delayed') = Len(delayed) + 1
  BY <1>5, <1>11, Appended
<1>14. ASSUME NEW k \in 0 .. Len(delayed)
       PROVE  NotifiedAt(k)' = NotifiedAt(k) /\ WrittenAt(k)' = WrittenAt(k)
  <2>1. Sums(Lens(Append(delayed, x)))[k] = Sums(Lens(delayed))[k]
    BY <1>11, LensOf, LensAppend
  <2>2. Sums(Waits(Append(delayed, x)))[k] = Sums(Waits(delayed))[k]
    BY <1>11, WaitsAppend
  <2>3. Sums(Lens(delayed'))[k] = Sums(Lens(delayed))[k]
        /\ Sums(Waits(delayed'))[k] = Sums(Waits(delayed))[k]
    BY <1>5, <2>1, <2>2
  <2> QED
    BY <1>5, <1>8, <2>3 DEF NotifiedAt, WrittenAt
<1>15. DataEnd(R2) = DataEnd(R) + n /\ DataEnd(R) \in Nat /\ DataEnd(R2) \in Nat
  BY <1>5, SizeFacts DEF RingMove, DataEnd, Positions
<1>16. NotifiedAt(Len(delayed)) = DataEnd(R)
       /\ AppPos + Total(Lens(notes)) + Total(Lens(delayed)) = DataEnd(R)
  BY <1>1, DelayedSums DEF Parts, Pointers
<1>17. Total(Waits(delayed)) = statuses + Len(C) /\ WrittenAt(Len(delayed)) = statuses + Len(C)
  BY <1>1, <1>6, DelayedSums DEF Commands
<1>18. Total(Waits(delayed')) = statuses + Len(D)
  <2>1. Total(Waits(Append(delayed, x))) = Total(Waits(delayed)) + b
    BY <1>11, WaitsAppend
  <2>2. Total(Waits(delayed')) = Total(Waits(delayed)) + b
    BY <1>5, <2>1
  <2> QED
    BY <1>7, <1>11, <1>12, <1>17, <2>2
<1> PICK L \in Nat : L = Len(delayed)
  BY <1>11
<1> PICK K \in Nat : K = L + 1
  OBVIOUS
<1>19. NotifiedAt(K)' = DataEnd(R2) /\ WrittenAt(K)' = statuses + Len(D)
  <2>1. Sums(Lens(Append(delayed, x)))[K] = Total(Lens(delayed)) + n
    BY <1>11, LensOf, LensAppend
  <2>2. Sums(Waits(Append(delayed, x)))[K] = Total(Waits(delayed)) + b
    BY <1>11, WaitsAppend
  <2>3. Sums(Lens(delayed'))[K] = Total(Lens(delayed)) + n
        /\ Sums(Waits(delayed'))[K] = Total(Waits(delayed)) + b
    BY <1>5, <2>1, <2>2
  <2>4. NotifiedAt(K)' = AppPos + Total(Lens(notes)) + (Total(Lens(delayed)) + n)
    BY <1>5, <1>8, <2>3 DEF NotifiedAt
  <2>5. AppPos \in Nat /\ Total(Lens(notes)) \in Nat /\ Total(Lens(delayed)) \in Nat
    BY <1>1, SumTypes
  <2>6. WrittenAt(K)' = Total(Waits(delayed)) + b
    BY <2>3 DEF WrittenAt
  <2>7. NotifiedAt(K)' = DataEnd(R2)
    BY <1>15, <1>16, <2>4, <2>5
  <2>8. WrittenAt(K)' = statuses + Len(D)
    <3>1. \A u, v, w \in Nat : (u + v) + w = u + (v + w)
      OBVIOUS
    <3>2. statuses \in Nat /\ Len(C) \in Nat /\ b \in Nat
      BY <1>7, <1>11, <1>12
    <3>3. (statuses + Len(C)) + b = statuses + (Len(C) + b)
      BY <3>1, <3>2
    <3> QED
      BY <1>12, <1>17, <2>6, <3>3
  <2> QED
    BY <2>7, <2>8
<1>20. \A k \in 0 .. Len(delayed') : k = K \/ k \in 0 .. L
  BY <1>13
<1>21. GapAt(R2, H2, O2)'
  BY <1>3, <1>5, <1>8 DEF GapAt, RingMove
<1>22. Commands(D)'
  <2>1. Len(writes) = Len(C)
        /\ \A i \in 1 .. Len(C) : writes[i].addr = Cell(C[i].pos) /\ writes[i].len = C[i].len
    BY <1>6 DEF Commands
  <2>2. Len(writes') = Len(D)
        /\ \A i \in 1 .. Len(D) : writes'[i].addr = Cell(D[i].pos) /\ writes'[i].len = D[i].len
    <3>1. CASE seg.len = 0
      BY <1>5, <1>7, <2>1, <3>1
    <3>2. CASE seg.len # 0
      <4> PICK c \in Command : c = [addr |-> Cell(seg.pos), len |-> seg.len]
        <5>1. seg.pos \in Nat /\ seg.len \in Nat
          BY SizeFacts
        <5> QED
          BY <1>11, <5>1, CellFacts DEF Command
      <4>1. writes' = Append(writes, c) /\ c.addr = Cell(seg.pos) /\ c.len = seg.len
        BY <1>5, <3>2
      <4>2. Len(writes') = Len(writes) + 1 /\ writes'[Len(writes) + 1] = c
            /\ \A i \in 1 .. Len(writes) : writes'[i] = writes[i]
        BY <1>11, <4>1, Appended
      <4>3. ASSUME NEW i \in 1 .. Len(D)
            PROVE  writes'[i].addr = Cell(D[i].pos) /\ writes'[i].len = D[i].len
        <5>1. CASE i = Len(C) + 1
          BY <1>7, <2>1, <3>2, <4>1, <4>2, <5>1
        <5>2. CASE i # Len(C) + 1
          <6>1. i \in 1 .. Len(C)
            BY <1>7, <3>2, <5>2
          <6> QED
            BY <1>7, <2>1, <4>2, <6>1
        <5> QED
          BY <5>1, <5>2
      <4> QED
        BY <1>7, <2>1, <3>2, <4>2, <4>3
    <3> QED
      BY <3>1, <3>2
  <2> QED
    BY <1>2, <1>9, <1>18, <2>2 DEF Commands
<1>23. ASSUME NEW p \in Nat, NEW m \in Int, Covered(C, p, m) PROVE \A i \in Int : m <= i => Covered(D, p, i)
  BY <1>7, <1>12, <1>23, CoveredMore
<1>24. ASSUME NEW p \in Nat, Carries(seg, p) PROVE Covered(D, p, Len(D))
  <2>1. seg.len # 0
    BY <1>24, SizeFacts DEF Carries
  <2> QED
    BY <1>7, <1>24, <2>1 DEF Covered
<1>25. ASSUME NEW p \in Nat, sar.gap, O <= p, p < H PROVE Covered(D, p, Len(D))
  <2>1. Covered(C, p, Len(C))
    BY <1>6, <1>25 DEF GapContents
  <2> QED
    BY <1>7, <1>12, <1>23, <2>1
<1>26. Contents(D)'
  <2>1. ASSUME NEW k \in 0 .. Len(delayed'), NEW p \in Nat, Len(delivered) <= p, p < NotifiedAt(k)'
        PROVE  Covered(D, p, WrittenAt(k)' - statuses)
    <3>1. CASE k \in 0 .. L
      <4>1. NotifiedAt(k)' = NotifiedAt(k) /\ WrittenAt(k)' = WrittenAt(k) /\ WrittenAt(k) \in Nat
        BY <1>1, <1>14, <3>1, DelayedSums
      <4>2. Covered(C, p, WrittenAt(k) - statuses)
        BY <1>6, <2>1, <3>1, <4>1 DEF Contents
      <4>3. WrittenAt(k) - statuses \in Int
        BY <1>11, <4>1
      <4> QED
        BY <1>23, <4>1, <4>2, <4>3
    <3>2. CASE k = K
      <4>1. p < DataEnd(R2) /\ WrittenAt(k)' - statuses = Len(D)
        BY <1>7, <1>11, <1>19, <2>1, <3>2
      <4>2. CASE p < DataEnd(R)
        <5>1. L \in 0 .. Len(delayed) /\ p < NotifiedAt(L) /\ WrittenAt(L) - statuses = Len(C)
          BY <1>7, <1>11, <1>16, <1>17, <4>2
        <5>2. Covered(C, p, Len(C))
          BY <1>6, <2>1, <5>1 DEF Contents
        <5> QED
          BY <1>7, <1>12, <1>23, <4>1, <5>2
      <4>3. CASE ~(p < DataEnd(R))
        <5>1. DataEnd(R) <= p
          BY <1>15, <4>3
        <5>2. Carries(seg, p) \/ (sar.gap /\ O <= p /\ p < H)
          BY <1>5, <4>1, <5>1 DEF RingMove
        <5> QED
          BY <1>24, <1>25, <4>1, <5>2
      <4> QED
        BY <4>2, <4>3
    <3> QED
      BY <1>20, <3>1, <3>2
  <2> QED
    BY <1>2, <1>10, <2>1 DEF Contents
<1>27. GapContents(D, H2, O2)'
  <2>1. ASSUME gap, NEW p \in Nat, O2 <= p, p < H2 PROVE Covered(D, p, Len(D))
    <3>1. Carries(seg, p) \/ (sar.gap /\ O <= p /\ p < H)
      BY <1>5, <2>1 DEF RingMove
    <3> QED
      BY <1>24, <1>25, <3>1
  <2> QED
    BY <1>3, <1>10, <2>1 DEF GapContents
<1>28. Unnotified(D)'
  <2>1. ASSUME NEW k \in 0 .. Len(delayed'), NEW j \in 1 .. Len(D), WrittenAt(k)' < statuses + j
        PROVE  NotifiedAt(k)' <= D[j].pos
    <3>1. CASE k = K
      BY <1>7, <1>11, <1>19, <2>1, <3>1
    <3>2. CASE k \in 0 .. L
      <4>1. NotifiedAt(k)' = NotifiedAt(k) /\ WrittenAt(k)' = WrittenAt(k)
        BY <1>14, <3>2
      <4>2. CASE j \in 1 .. Len(C)
        BY <1>6, <1>7, <2>1, <3>2, <4>1, <4>2 DEF Unnotified
      <4>3. CASE j \notin 1 .. Len(C)
        <5>1. seg.len # 0 /\ j = Len(C) + 1
          BY <1>7, <4>3
        <5>2. D[j] = seg /\ DataEnd(R) <= seg.pos
          BY <1>5, <1>7, <5>1 DEF RingMove
        <5>3. NotifiedAt(k) \in Nat /\ NotifiedAt(k) <= DataEnd(R)
          BY <1>1, <1>16, <3>2, DelayedSums
        <5>4. seg.pos \in Nat
          BY SizeFacts
        <5> QED
          BY <1>15, <4>1, <5>2, <5>3, <5>4
      <4> QED
        BY <4>2, <4>3
    <3> QED
      BY <1>20, <3>1, <3>2
  <2> QED
    BY <1>2, <2>1 DEF Unnotified
<1>29. ReadsAt'
  BY <1>2, <1>3, <1>6, <1>8, <1>9 DEF ReadsAt
<1> QED
  BY <1>21, <1>22, <1>26, <1>27, <1>28, <1>29 DEF RingBuild

(* State TRANSITION keeps the invariant. *)
LEMMA FsmKeeps ==
  ASSUME SteadyPeer, Types, NEW C \in Seq(Segments), NEW R \in Positions, NEW H \in Positions,
         NEW O \in Positions, Parts(C, R, H, O), FsmAck \/ FsmFin \/ FsmDefault
  PROVE  /\ Types' /\ delivered' = delivered
         /\ \E D \in Seq(Segments), R2, H2, O2 \in Positions : Parts(D, R2, H2, O2)'
<1>1. Outcome(R, H, O)
  BY FsmOutcome
<1>2. Transition /\ delivered' = delivered
  BY <1>1 DEF Outcome, Transition
<1>3. CASE Quiet
  BY <1>2, <1>3, QuietKeeps
<1>4. CASE Reject
  BY <1>2, <1>4, RejectKeeps
<1>5. CASE \E seg \in Segments, R2, H2, O2 \in Positions, gap, closed \in BOOLEAN, n \in Nat :
             Accept(seg, R, H, O, R2, H2, O2, gap, n, closed)
  <2>1. PICK seg \in Segments, R2 \in Positions, H2 \in Positions, O2 \in Positions,
             gap \in BOOLEAN, closed \in BOOLEAN, n \in Nat :
             Accept(seg, R, H, O, R2, H2, O2, gap, n, closed)
    BY <1>5
  <2>2. Accepted(C, R, H, O, seg, R2, H2, O2, gap, n, closed)
    BY <1>2, <2>1 DEF Accepted
  <2> PICK D \in Seq(Segments) : D = More(C, seg)
    BY MoreAre
  <2>3. Types'
    BY <2>2, AcceptTypes
  <2>4. Matched(D)' /\ Windows(D)' /\ Pointers(R2, H2, O2)'
    BY <2>2, AcceptParts
  <2>5. DdrBypass' = DdrBypass
    BY <1>2 DEF Transition, DdrBypass
  <2>6. DdrBypass => FifoBuild(D, R2, H2)'
    BY <2>2, AcceptFifoKeeps
  <2>7. ~DdrBypass => RingBuild(D, R2, H2, O2)'
    BY <2>2, AcceptRingKeeps
  <2>8. Parts(D, R2, H2, O2)'
    BY <2>4, <2>5, <2>6, <2>7 DEF Parts
  <2> QED
    BY <1>2, <2>3, <2>8
<1> QED
  BY <1>1, <1>3, <1>4, <1>5 DEF Outcome

(* The positions and the entries are as they were. *)
LEMMA PointersSame ==
  ASSUME NEW R, NEW H, NEW O, Pointers(R, H, O),
         UNCHANGED <<start, sar, fsm, notes, delayed, reads, delivered>>
  PROVE  Pointers(R, H, O)' /\ AppPos' = AppPos /\ WindowEdge' = WindowEdge
<1>1. AppPos' = AppPos /\ WindowEdge' = WindowEdge
  BY DEF AppPos, WindowEdge
<1> QED
  BY <1>1 DEF Pointers, SeqNumb, Isn, DataEnd

(* In the build with the ring buffer all data that is known lies within    *)
(* one turn of the ring from where the application has read.               *)
LEMMA RingBound ==
  ASSUME SteadyPeer, Types, NEW C \in Seq(Segments), NEW R \in Positions, NEW H \in Positions,
         NEW O \in Positions, Parts(C, R, H, O), ~DdrBypass
  PROVE  /\ AppPos \in Nat /\ Len(delivered) \in Nat /\ Len(delivered) <= AppPos
         /\ DataEnd(R) \in Nat /\ DataEnd(R) <= StreamLen /\ AppPos <= DataEnd(R)
         /\ DataEnd(R) <= H /\ H <= AppPos + BufSize
         /\ sar.gap => R < O /\ DataEnd(R) <= O
         /\ \A k \in 0 .. Len(delayed) : NotifiedAt(k) \in Nat /\ AppPos <= NotifiedAt(k)
                                         /\ NotifiedAt(k) <= DataEnd(R) /\ WrittenAt(k) \in Nat
         /\ NotifiedAt(0) = AppPos + Total(Lens(notes)) /\ WrittenAt(0) = 0
<1>1. /\ R \in 0 .. StreamLen + 1 /\ H \in 0 .. StreamLen + 1 /\ O \in 0 .. StreamLen + 1
      /\ StreamLen \in Nat /\ BufSize \in Nat \ {0} /\ sar.gap \in BOOLEAN
  BY SizeFacts DEF Positions, Types, SarEntry
<1>2. AppPos \in Nat /\ Len(delivered) \in Nat /\ Len(delivered) <= AppPos
      /\ Total(Lens(notes)) \in Nat /\ Total(Lens(delayed)) \in Nat
  BY SumTypes
<1>3. AppPos + Total(Lens(notes)) + Total(Lens(delayed)) = DataEnd(R) /\ GapAt(R, H, O)
  BY DEF Parts, Pointers, RingBuild
<1>4. DataEnd(R) \in Nat /\ DataEnd(R) <= StreamLen /\ DataEnd(R) <= R
  BY <1>1 DEF DataEnd
<1>5. R <= H /\ H <= AppPos + BufSize /\ (sar.gap => R < O)
  BY <1>1, <1>2, <1>3 DEF GapAt
<1>6. \A k \in 0 .. Len(delayed) : NotifiedAt(k) \in Nat /\ NotifiedAt(k) <= DataEnd(R)
                                   /\ WrittenAt(k) \in Nat
  BY <1>3, DelayedSums
<1>7. Lens(delayed) \in Seq(Nat) /\ Waits(delayed) \in Seq(Nat) /\ Len(Lens(delayed)) = Len(delayed)
      /\ Len(delayed) \in Nat
  BY LensOf, LensAre, WaitsAre DEF Types
<1>8. Sums(Lens(delayed))[0] = 0 /\ Sums(Waits(delayed))[0] = 0
  BY <1>7, SumsAre DEF SumUp
<1>9. \A k \in 0 .. Len(delayed) : Sums(Lens(delayed))[k] \in Nat
  BY <1>7, SumsAre
<1>10. \A k \in 0 .. Len(delayed) : AppPos <= NotifiedAt(k)
  BY <1>2, <1>9 DEF NotifiedAt
<1>11. NotifiedAt(0) = AppPos + Total(Lens(notes)) /\ WrittenAt(0) = 0
  BY <1>2, <1>8 DEF NotifiedAt, WrittenAt
<1>12. AppPos <= DataEnd(R)
  BY <1>2, <1>3, <1>4
<1>13. DataEnd(R) <= H /\ (sar.gap => R < O /\ DataEnd(R) <= O)
  BY <1>1, <1>4, <1>5
<1> QED
  BY <1>2, <1>4, <1>5, <1>6, <1>10, <1>11, <1>12, <1>13

(* The cells of a command are those of its bytes. *)
LEMMA CellsOf ==
  ASSUME start \in Starts, NEW pos \in Nat, NEW c, c.addr = Cell(pos), c.len \in Nat
  PROVE  /\ \A p \in Nat : pos <= p /\ p < pos + c.len => Cell(p) \in Cells(c)
         /\ \A p \in Nat : pos <= p /\ p < pos + c.len /\ c.len <= BufSize
                           => (Cell(p) + BufSize - c.addr) % BufSize = p - pos
         /\ \A a \in Cells(c) : \E p \in Nat : pos <= p /\ p < pos + c.len /\ a = Cell(p)
<1>1. \A i \in Nat : (c.addr + i) % BufSize = Cell(pos + i)
  BY CellFacts
<1>2. ASSUME NEW p \in Nat, pos <= p, p < pos + c.len PROVE Cell(p) \in Cells(c)
  <2> DEFINE i == p - pos
  <2>1. i \in 0 .. c.len - 1 /\ i \in Nat /\ pos + i = p
    BY <1>2
  <2> HIDE DEF i
  <2>2. (c.addr + i) % BufSize = Cell(p)
    BY <1>1, <2>1
  <2> QED
    BY <2>1, <2>2 DEF Cells
<1>3. ASSUME NEW p \in Nat, pos <= p, p < pos + c.len, c.len <= BufSize
      PROVE  (Cell(p) + BufSize - c.addr) % BufSize = p - pos
  <2> DEFINE i == p - pos
  <2>1. i \in 0 .. BufSize - 1 /\ pos + i = p
    BY <1>3, SizeFacts
  <2>2. (Cell(pos + i) + BufSize - Cell(pos)) % BufSize = i
    BY <2>1, CellFacts
  <2> QED
    BY <2>1, <2>2
<1>4. ASSUME NEW a \in Cells(c) PROVE \E p \in Nat : pos <= p /\ p < pos + c.len /\ a = Cell(p)
  <2>1. PICK i \in 0 .. c.len - 1 : a = (c.addr + i) % BufSize
    BY DEF Cells
  <2>2. i \in Nat /\ pos + i \in Nat /\ pos <= pos + i /\ pos + i < pos + c.len
    BY <2>1
  <2>3. a = Cell(pos + i)
    BY <1>1, <2>1, <2>2
  <2> QED
    BY <2>2, <2>3
<1> QED
  BY <1>2, <1>3, <1>4

(* What a write does to the ring: its bytes are there, and no byte that    *)
(* the application still needs is lost.                                    *)
LEMMA WrittenBytes ==
  ASSUME SteadyPeer, Types, NEW C \in Seq(Segments), NEW R \in Positions, NEW H \in Positions,
         NEW O \in Positions, Parts(C, R, H, O), MemWrite, ~DdrBypass, C # <<>>, C[1] = kept[1],
         NEW w \in Segments, w = C[1]
  PROVE  /\ mem' \in [0 .. BufSize - 1 -> -1 .. StreamLen - 1]
         /\ \A p \in Nat : Carries(w, p) => mem'[Cell(p)] = p
         /\ \A p \in Nat : /\ ~Carries(w, p) /\ Len(delivered) <= p /\ p < AppPos + BufSize
                           => mem'[Cell(p)] = mem[Cell(p)]
<1>1. writes \in Seq(Command) /\ writes # <<>> /\ kept \in Seq(Segments) /\ kept # <<>>
      /\ start \in Starts /\ mem \in [0 .. BufSize - 1 -> -1 .. StreamLen - 1]
      /\ reads \in Seq(Command)
  BY DEF Types, MemWrite
<1>2. Head(writes) = writes[1] /\ writes[1] \in Command /\ Head(kept) = kept[1]
  BY <1>1, HeadAndTail
<1> PICK c \in Command : c = writes[1]
  BY <1>2
<1>3. Len(C) \in Nat \ {0} /\ 1 \in 1 .. Len(C)
  BY HeadAndTail
<1>4. c.addr = Cell(w.pos) /\ c.len = w.len
  BY <1>1, <1>3 DEF Parts, RingBuild, Commands
<1>5. w.pos \in Nat /\ w.len \in Nat /\ w.pos + w.len <= StreamLen /\ StreamLen \in Nat
      /\ BufSize \in Nat \ {0}
  BY SizeFacts DEF SteadyPeer
<1>6. AppPos \in Nat /\ Len(delivered) \in Nat
  BY RingBound
<1>7. w.pos + w.len <= AppPos + BufSize - 1
  BY <1>3 DEF Parts, Windows, InWindow, WindowEdge
<1>8. AppPos <= w.pos
  <2>1. Len(delayed) \in Nat /\ statuses \in Nat
    BY DEF Types
  <2>2. 0 \in 0 .. Len(delayed) /\ WrittenAt(0) < statuses + 1
    BY <2>1, RingBound
  <2>3. NotifiedAt(0) <= w.pos
    BY <1>3, <2>2 DEF Parts, RingBuild, Unnotified
  <2>4. AppPos <= NotifiedAt(0) /\ NotifiedAt(0) \in Nat
    BY <2>2, RingBound
  <2> QED
    BY <1>5, <1>6, <2>3, <2>4
<1>9. c.len <= BufSize
  BY <1>4, <1>5, <1>6, <1>7, <1>8
<1>10. mem' = [a \in 0 .. BufSize - 1 |->
                 IF a \in Cells(c) THEN w.pos + ((a + BufSize - c.addr) % BufSize) ELSE mem[a]]
  BY <1>2 DEF MemWrite
<1>11. ASSUME NEW p \in Nat, Carries(w, p)
       PROVE  /\ Cell(p) \in Cells(c) /\ Cell(p) \in 0 .. BufSize - 1 /\ mem'[Cell(p)] = p
              /\ p \in -1 .. StreamLen - 1
  <2>1. w.pos <= p /\ p < w.pos + c.len
    BY <1>4, <1>11 DEF Carries
  <2>2. Cell(p) \in Cells(c) /\ (Cell(p) + BufSize - c.addr) % BufSize = p - w.pos
    BY <1>1, <1>4, <1>5, <1>9, <2>1, CellsOf
  <2>3. Cell(p) \in 0 .. BufSize - 1
    BY <1>1, CellFacts
  <2>4. mem'[Cell(p)] = w.pos + (p - w.pos)
    BY <1>10, <2>2, <2>3
  <2> QED
    BY <1>4, <1>5, <2>1, <2>2, <2>3, <2>4
<1>12. ASSUME NEW p \in Nat, ~Carries(w, p), Len(delivered) <= p, p < AppPos + BufSize
       PROVE  mem'[Cell(p)] = mem[Cell(p)]
  <2>1. Cell(p) \in 0 .. BufSize - 1
    BY <1>1, CellFacts
  <2>2. Cell(p) \notin Cells(c)
    <3> SUFFICES ASSUME Cell(p) \in Cells(c) PROVE FALSE
      OBVIOUS
    <3>1. PICK q \in Nat : w.pos <= q /\ q < w.pos + c.len /\ Cell(p) = Cell(q)
      BY <1>1, <1>4, <1>5, CellsOf, SMTT(40)
    <3>2. CASE AppPos <= p
      <4>1. p \in AppPos .. AppPos + BufSize - 1 /\ q \in AppPos .. AppPos + BufSize - 1
        BY <1>4, <1>5, <1>6, <1>7, <1>8, <1>12, <3>1, <3>2, SMTT(40)
      <4>2. p = q
        BY <1>1, <1>6, <3>1, <4>1, CellsDiffer
      <4> QED
        BY <1>4, <1>12, <3>1, <4>2 DEF Carries
    <3>3. CASE p < AppPos
      <4> DEFINE x == p - Len(delivered)
      <4>1. x \in Nat /\ x < Total(Lens(reads)) /\ Len(delivered) + x = p
        BY <1>6, <1>12, <3>3, SumTypes
      <4>2. Lens(reads) \in Seq(Nat) /\ Len(Lens(reads)) = Len(reads)
            /\ \A i \in 1 .. Len(reads) : Lens(reads)[i] = reads[i].len
        BY <1>1, LensOf, LensAre
      <4> HIDE DEF x
      <4>3. PICK i \in 1 .. Len(reads) : /\ Sums(Lens(reads))[i - 1] <= x
                                        /\ x < Sums(Lens(reads))[i - 1] + reads[i].len
        BY <4>1, <4>2, SumsLocate
      <4> DEFINE u == Len(delivered) + Sums(Lens(reads))[i - 1]
      <4>4. Sums(Lens(reads))[i - 1] \in Nat
        <5>1. i - 1 \in 0 .. Len(Lens(reads))
          BY <1>1, <4>2
        <5> QED
          BY <4>2, <5>1, SumsAre
      <4>5. reads[i] \in Command /\ reads[i].addr = Cell(u)
        BY <1>1 DEF Parts, RingBuild, ReadsAt
      <4>6. reads[i].len \in Nat
        BY <4>5 DEF Command
      <4>7. u \in Nat /\ u <= p /\ p < u + reads[i].len
        <5>1. \A a, b, l, y \in Nat : b <= y /\ y < b + l => a + b \in Nat /\ a + b <= a + y
                                                              /\ a + y < (a + b) + l
          OBVIOUS
        <5>2. Len(delivered) + x < u + reads[i].len /\ u <= Len(delivered) + x /\ u \in Nat
          BY <1>6, <4>1, <4>3, <4>4, <4>6, <5>1
        <5> QED
          BY <4>1, <5>2
      <4> HIDE DEF u
      <4>8. Cell(p) \in Cells(reads[i])
        BY <1>1, <4>5, <4>6, <4>7, CellsOf
      <4>9. Cells(reads[i]) \cap Cells(c) = {}
        BY <1>1, <1>2 DEF MemWrite
      <4> QED
        BY <4>8, <4>9
    <3> QED
      BY <1>6, <3>2, <3>3
  <2> QED
    BY <1>10, <2>1, <2>2
<1>13. ASSUME NEW a \in 0 .. BufSize - 1 PROVE mem'[a] \in -1 .. StreamLen - 1
  <2>1. CASE a \in Cells(c)
    <3>1. PICK p \in Nat : w.pos <= p /\ p < w.pos + c.len /\ a = Cell(p)
      BY <1>1, <1>4, <1>5, <2>1, CellsOf, SMTT(40)
    <3>2. Carries(w, p)
      BY <1>4, <3>1 DEF Carries
    <3> QED
      BY <1>11, <3>1, <3>2
  <2>2. CASE a \notin Cells(c)
    BY <1>1, <1>10, <2>2
  <2> QED
    BY <2>1, <2>2
<1>14. mem' \in [0 .. BufSize - 1 -> -1 .. StreamLen - 1]
  BY <1>10, <1>13
<1> QED
  BY <1>11, <1>12, <1>14

(* What was covered stays covered when the first payload is written. *)
LEMMA CoveredWritten ==
  ASSUME SteadyPeer, Types, NEW C \in Seq(Segments), NEW R \in Positions, NEW H \in Positions,
         NEW O \in Positions, Parts(C, R, H, O), MemWrite, ~DdrBypass, C # <<>>, C[1] = kept[1],
         NEW p \in Nat, Len(delivered) <= p, p < AppPos + BufSize, NEW n \in Int, Covered(C, p, n),
         NEW D \in Seq(Segments), Len(D) = Len(C) - 1, \A i \in 1 .. Len(C) - 1 : D[i] = C[i + 1]
  PROVE  Covered(D, p, n - 1)'
<1> PICK w \in Segments : w = C[1]
  BY HeadAndTail
<1>1. /\ Carries(w, p) => mem'[Cell(p)] = p
      /\ ~Carries(w, p) => mem'[Cell(p)] = mem[Cell(p)]
  BY WrittenBytes
<1>2. Cell(p)' = Cell(p)
  BY DEF Cell, Isn, MemWrite
<1>3. Len(C) \in Nat \ {0}
  BY HeadAndTail
<1>4. CASE Carries(w, p)
  BY <1>1, <1>2, <1>4 DEF Covered
<1>5. CASE ~Carries(w, p) /\ mem[Cell(p)] = p
  BY <1>1, <1>2, <1>5 DEF Covered
<1>6. CASE ~Carries(w, p) /\ mem[Cell(p)] # p
  <2>1. PICK j \in 1 .. Len(C) : j <= n /\ Carries(C[j], p)
    BY <1>6 DEF Covered
  <2>2. j # 1
    BY <1>6, <2>1
  <2>3. j - 1 \in 1 .. Len(D) /\ j - 1 \in 1 .. Len(C) - 1 /\ (j - 1) + 1 = j /\ j - 1 <= n - 1
    BY <1>3, <2>1, <2>2
  <2>4. Carries(D[j - 1], p)
    BY <2>1, <2>3
  <2>5. \E i \in 1 .. Len(D) : i <= n - 1 /\ Carries(D[i], p)
    BY <2>3, <2>4
  <2>6. (\E i \in 1 .. Len(D) : i <= n - 1 /\ Carries(D[i], p))'
    BY <2>5 DEF Carries
  <2> QED
    BY <2>6 DEF Covered
<1> QED
  BY <1>4, <1>5, <1>6

(* A payload is written to the ring. *)
LEMMA MemWriteKeeps ==
  ASSUME SteadyPeer, Types, NEW C \in Seq(Segments), NEW R \in Positions, NEW H \in Positions,
         NEW O \in Positions, Parts(C, R, H, O), MemWrite
  PROVE  Types' /\ \E D \in Seq(Segments) : Parts(D, R, H, O)'
<1>1. /\ UNCHANGED <<start, sar, state, fsm, payloads, fsmMeta, drop1, drop2, reads, delayed,
                     notes, delivered>>
      /\ writes # <<>> /\ kept # <<>> /\ writes' = Tail(writes) /\ kept' = Tail(kept)
      /\ statuses' = statuses + 1
  BY DEF MemWrite
<1>2. ~DdrBypass
  BY <1>1 DEF Parts, FifoBuild
<1>3. Matched(C)
  BY DEF Parts
<1>4. C # <<>> /\ C[1] = kept[1] /\ C[1] \in Segments /\ Matched(Tail(C))'
  BY <1>1, <1>3, MatchedTake
<1>5. Tail(C) \in Seq(Segments) /\ Len(Tail(C)) = Len(C) - 1 /\ Len(C) \in Nat \ {0}
      /\ \A i \in 1 .. Len(C) - 1 : Tail(C)[i] = C[i + 1]
  BY <1>4, HeadAndTail
<1> PICK D \in Seq(Segments) : D = Tail(C)
  BY <1>5
<1>6. Len(D) = Len(C) - 1 /\ (\A i \in 1 .. Len(C) - 1 : D[i] = C[i + 1]) /\ Matched(D)'
  BY <1>4, <1>5
<1>7. writes' \in Seq(Command) /\ Len(writes') <= Depth /\ Len(writes') = Len(writes) - 1
      /\ \A i \in 1 .. Len(writes) - 1 : writes'[i] = writes[i + 1]
  <2>1. writes \in Seq(Command) /\ Len(writes) <= Depth
    BY DEF Types
  <2>2. Tail(writes) \in Seq(Command) /\ Len(Tail(writes)) = Len(writes) - 1 /\ Len(writes) \in Nat
        /\ \A i \in 1 .. Len(writes) - 1 : Tail(writes)[i] = writes[i + 1]
    BY <1>1, <2>1, HeadAndTail
  <2>3. Len(Tail(writes)) <= Depth
    BY <2>1, <2>2, SizeFacts
  <2> QED
    BY <1>1, <2>2, <2>3, Zenon
<1>8. kept' \in Seq(Segments) /\ Len(kept') <= Depth
  <2>1. kept \in Seq(Segments) /\ Len(kept) <= Depth
    BY DEF Types
  <2>2. Tail(kept) \in Seq(Segments) /\ Len(Tail(kept)) = Len(kept) - 1 /\ Len(kept) \in Nat
    BY <1>1, <2>1, HeadAndTail
  <2>3. Len(Tail(kept)) <= Depth
    BY <2>1, <2>2, SizeFacts
  <2> QED
    BY <1>1, <2>2, <2>3, Zenon
<1>9. mem' \in [0 .. BufSize - 1 -> -1 .. StreamLen - 1]
  BY <1>2, <1>4, WrittenBytes
<1>10. statuses' \in Nat /\ statuses \in Nat
  BY <1>1 DEF Types
<1>11. Types'
  BY <1>1, <1>7, <1>8, <1>9, <1>10 DEF Types
<1>12. Pointers(R, H, O)' /\ AppPos' = AppPos /\ WindowEdge' = WindowEdge
  BY <1>1, PointersSame DEF Parts
<1>13. Windows(D)'
  <2>1. Windows(C)'
    BY <1>1, <1>12, WindowsSame DEF Parts
  <2>2. ASSUME NEW i \in 1 .. Len(D) PROVE InWindow(D[i])'
    <3>1. i \in 1 .. Len(C) - 1 /\ i + 1 \in 1 .. Len(C)
      BY <1>5, <1>6
    <3>2. InWindow(C[i + 1])' /\ D[i] = C[i + 1]
      BY <1>6, <2>1, <3>1 DEF Windows
    <3> QED
      BY <3>2 DEF InWindow
  <2> QED
    BY <2>1, <2>2 DEF Windows
<1>14. DdrBypass' = DdrBypass /\ (\A p : Cell(p)' = Cell(p))
       /\ \A k : NotifiedAt(k)' = NotifiedAt(k) /\ WrittenAt(k)' = WrittenAt(k)
  BY <1>1, <1>12 DEF DdrBypass, Cell, Isn, NotifiedAt, WrittenAt
<1>15. RingBuild(C, R, H, O)
  BY <1>2 DEF Parts
<1>16. GapAt(R, H, O)'
  BY <1>1, <1>12, <1>15 DEF RingBuild, GapAt
<1>17. ReadsAt'
  BY <1>1, <1>12, <1>14, <1>15 DEF RingBuild, ReadsAt
<1>18. Commands(D)'
  <2>1. Len(writes) = Len(C) /\ Total(Waits(delayed)) = statuses + Len(C)
        /\ \A i \in 1 .. Len(C) : writes[i].addr = Cell(C[i].pos) /\ writes[i].len = C[i].len
    BY <1>15 DEF RingBuild, Commands
  <2>2. ASSUME NEW i \in 1 .. Len(D)
        PROVE  writes'[i].addr = Cell(D[i].pos)' /\ writes'[i].len = D[i].len
    <3>1. i \in 1 .. Len(C) - 1 /\ i + 1 \in 1 .. Len(C)
      BY <1>5, <1>6
    <3>2. D[i] = C[i + 1] /\ writes'[i] = writes[i + 1]
      BY <1>6, <1>7, <2>1, <3>1
    <3> QED
      BY <1>14, <2>1, <3>1, <3>2
  <2>3. Len(writes') = Len(D)
    BY <1>6, <1>7, <2>1
  <2>4. Total(Waits(delayed')) = statuses' + Len(D)
    <3>1. \A u, v \in Nat : u + v = (u + 1) + (v - 1)
      OBVIOUS
    <3>2. statuses + Len(C) = (statuses + 1) + (Len(C) - 1)
      BY <1>5, <1>10, <3>1
    <3> QED
      BY <1>1, <1>6, <2>1, <3>2
  <2> QED
    BY <2>2, <2>3, <2>4 DEF Commands
<1>19. Contents(D)'
  <2> SUFFICES ASSUME NEW k \in 0 .. Len(delayed'), NEW p \in Nat,
                      Len(delivered') <= p, p < NotifiedAt(k)'
               PROVE  Covered(D, p, WrittenAt(k) - statuses)'
    BY DEF Contents
  <2>1. k \in 0 .. Len(delayed) /\ Len(delivered) <= p /\ p < NotifiedAt(k)
    BY <1>1, <1>14
  <2>2. Covered(C, p, WrittenAt(k) - statuses)
    BY <1>15, <2>1 DEF RingBuild, Contents
  <2>3. WrittenAt(k) \in Nat /\ p < AppPos + BufSize
    <3>1. /\ NotifiedAt(k) \in Nat /\ NotifiedAt(k) <= DataEnd(R) /\ DataEnd(R) \in Nat
          /\ DataEnd(R) <= H /\ H <= AppPos + BufSize /\ AppPos \in Nat /\ WrittenAt(k) \in Nat
      BY <1>2, <2>1, RingBound
    <3>2. H \in Nat /\ BufSize \in Nat
      BY SizeFacts DEF Positions
    <3> QED
      BY <2>1, <3>1, <3>2
  <2> PICK n \in Int : n = WrittenAt(k) - statuses
    BY <1>10, <2>3
  <2>4. Covered(D, p, n - 1)'
    BY <1>2, <1>4, <1>6, <2>1, <2>2, <2>3, CoveredWritten
  <2>5. WrittenAt(k)' - statuses' = n - 1
    BY <1>1, <1>10, <1>14, <2>3
  <2> QED
    BY <2>4, <2>5 DEF Covered
<1>20. GapContents(D, H, O)'
  <2> SUFFICES ASSUME sar'.gap, NEW p \in Nat, O <= p, p < H PROVE Covered(D, p, Len(D))'
    BY DEF GapContents
  <2>1. Covered(C, p, Len(C))
    BY <1>1, <1>15 DEF RingBuild, GapContents
  <2>2. Len(delivered) <= p /\ p < AppPos + BufSize
    <3>1. /\ Len(delivered) \in Nat /\ Len(delivered) <= AppPos /\ AppPos <= DataEnd(R)
          /\ DataEnd(R) \in Nat /\ DataEnd(R) <= O /\ H <= AppPos + BufSize /\ AppPos \in Nat
      BY <1>1, <1>2, RingBound
    <3>2. H \in Nat /\ O \in Nat /\ BufSize \in Nat
      BY SizeFacts DEF Positions
    <3> QED
      BY <3>1, <3>2
  <2>a. Len(C) \in Int
    BY <1>5
  <2> PICK n \in Int : n = Len(C)
    BY <2>a, Zenon
  <2>3. Covered(D, p, n - 1)'
    BY <1>2, <1>4, <1>6, <2>1, <2>2, CoveredWritten
  <2> QED
    BY <1>6, <2>3 DEF Covered
<1>21. Unnotified(D)'
  <2> SUFFICES ASSUME NEW k \in 0 .. Len(delayed'), NEW j \in 1 .. Len(D),
                      WrittenAt(k)' < statuses' + j
               PROVE  NotifiedAt(k)' <= D[j].pos
    BY DEF Unnotified
  <2>1. k \in 0 .. Len(delayed) /\ j \in 1 .. Len(C) - 1 /\ j + 1 \in 1 .. Len(C)
    BY <1>1, <1>5, <1>6
  <2>2. WrittenAt(k) < statuses + (j + 1)
    <3>1. statuses' + j = statuses + (j + 1)
      BY <1>1, <1>10
    <3> QED
      BY <1>14, <3>1
  <2>3. NotifiedAt(k) <= C[j + 1].pos
    BY <1>15, <2>1, <2>2 DEF RingBuild, Unnotified
  <2> QED
    BY <1>6, <1>14, <2>1, <2>3
<1>22. RingBuild(D, R, H, O)'
  BY <1>16, <1>17, <1>18, <1>19, <1>20, <1>21 DEF RingBuild
<1>23. Parts(D, R, H, O)'
  BY <1>2, <1>6, <1>12, <1>13, <1>14, <1>22 DEF Parts
<1> QED
  BY <1>11, <1>23

(* Notifications move on, and write statuses are used up.  After any       *)
(* number of the remaining ones as much is announced, and written, as it   *)
(* was before at some place.                                               *)
LEMMA NotifyShift ==
  ASSUME Types, NEW C \in Seq(Segments), NEW R \in Positions, NEW H \in Positions,
         NEW O \in Positions, RingBuild(C, R, H, O), NEW d \in Nat, statuses' = statuses - d,
         UNCHANGED <<start, sar, writes, reads, mem, delivered>>,
         Total(Waits(delayed')) = Total(Waits(delayed)) - d,
         \A k \in 0 .. Len(delayed') : \E m \in 0 .. Len(delayed) :
            NotifiedAt(k)' = NotifiedAt(m) /\ WrittenAt(k)' = WrittenAt(m) - d
  PROVE  RingBuild(C, R, H, O)'
<1>1. statuses \in Nat /\ Len(C) \in Nat
  BY DEF Types
<1>2. AppPos' = AppPos /\ \A p : Cell(p)' = Cell(p)
  BY DEF AppPos, Cell, Isn
<1>3. GapAt(R, H, O)'
  BY <1>2 DEF RingBuild, GapAt
<1>4. ReadsAt'
  BY <1>2 DEF RingBuild, ReadsAt
<1>5. \A p, n : Covered(C, p, n)' <=> Covered(C, p, n)
  BY <1>2 DEF Covered
<1>6. GapContents(C, H, O)'
  BY <1>5 DEF RingBuild, GapContents
<1>7. Commands(C)'
  <2>1. Total(Waits(delayed)) = statuses + Len(C)
    BY DEF RingBuild, Commands
  <2>2. (statuses + Len(C)) - d = (statuses - d) + Len(C)
    BY <1>1
  <2> QED
    BY <1>2, <2>1, <2>2 DEF RingBuild, Commands
<1>8. ASSUME NEW k \in 0 .. Len(delayed')
      PROVE  \E m \in 0 .. Len(delayed) : /\ NotifiedAt(k)' = NotifiedAt(m)
                                         /\ WrittenAt(k)' - statuses' = WrittenAt(m) - statuses
                                         /\ \A j \in 1 .. Len(C) : WrittenAt(k)' < statuses' + j
                                              => WrittenAt(m) < statuses + j
  <2>1. PICK m \in 0 .. Len(delayed) : NotifiedAt(k)' = NotifiedAt(m)
                                       /\ WrittenAt(k)' = WrittenAt(m) - d
    OBVIOUS
  <2>2. WrittenAt(m) \in Nat
    BY DelayedSums
  <2>3. \A w, s, j \in Nat : /\ (w - d) - (s - d) = w - s
                             /\ w - d < (s - d) + j => w < s + j
    OBVIOUS
  <2>4. WrittenAt(k)' - statuses' = WrittenAt(m) - statuses
    BY <1>1, <2>1, <2>2, <2>3
  <2>5. ASSUME NEW j \in 1 .. Len(C), WrittenAt(k)' < statuses' + j PROVE WrittenAt(m) < statuses + j
    BY <1>1, <2>1, <2>2, <2>3, <2>5
  <2> QED
    BY <2>1, <2>4, <2>5
<1>9. Contents(C)'
  <2> SUFFICES ASSUME NEW k \in 0 .. Len(delayed'), NEW p \in Nat,
                      Len(delivered') <= p, p < NotifiedAt(k)'
               PROVE  Covered(C, p, WrittenAt(k) - statuses)'
    BY DEF Contents
  <2>1. PICK m \in 0 .. Len(delayed) : NotifiedAt(k)' = NotifiedAt(m)
                                       /\ WrittenAt(k)' - statuses' = WrittenAt(m) - statuses
    BY <1>8
  <2>2. Covered(C, p, WrittenAt(m) - statuses)
    BY <2>1 DEF RingBuild, Contents
  <2> QED
    BY <1>2, <2>1, <2>2 DEF Covered
<1>10. Unnotified(C)'
  <2> SUFFICES ASSUME NEW k \in 0 .. Len(delayed'), NEW j \in 1 .. Len(C),
                      WrittenAt(k)' < statuses' + j
               PROVE  NotifiedAt(k)' <= C[j].pos
    BY DEF Unnotified
  <2>1. PICK m \in 0 .. Len(delayed) : NotifiedAt(k)' = NotifiedAt(m) /\ WrittenAt(m) < statuses + j
    BY <1>8
  <2>2. NotifiedAt(m) <= C[j].pos
    BY <2>1 DEF RingBuild, Unnotified
  <2> QED
    BY <2>1, <2>2
<1> QED
  BY <1>3, <1>4, <1>6, <1>7, <1>9, <1>10 DEF RingBuild

(* Notifications pass from the delayer to the application. *)
LEMMA NotifyParts ==
  ASSUME Types, NEW C \in Seq(Segments), NEW R \in Positions, NEW H \in Positions,
         NEW O \in Positions, Parts(C, R, H, O),
         UNCHANGED <<start, sar, state, fsm, payloads, fsmMeta, drop1, drop2, kept, writes, reads,
                     mem, delivered>>,
         delayed # <<>>,
         delayed' \in Seq(Note), Len(delayed') <= Depth, notes' \in Seq(Note),
         Len(notes') <= Depth, statuses' \in Nat,
         Total(Lens(notes')) + Total(Lens(delayed')) = Total(Lens(notes)) + Total(Lens(delayed)),
         RingBuild(C, R, H, O)'
  PROVE  Types' /\ Parts(C, R, H, O)'
<1>1. Types'
  BY DEF Types
<1>2. Matched(C)'
  BY MatchedSame DEF Parts
<1>3. AppPos' = AppPos /\ WindowEdge' = WindowEdge /\ DdrBypass' = DdrBypass
  BY DEF AppPos, WindowEdge, DdrBypass
<1>4. Windows(C)'
  BY <1>3, WindowsSame DEF Parts
<1>5. ~DdrBypass
  BY DEF Parts, FifoBuild
<1>6. Pointers(R, H, O)'
  <2>1. AppPos' + Total(Lens(notes')) + Total(Lens(delayed')) = DataEnd(R)
    <3>1. AppPos + Total(Lens(notes)) + Total(Lens(delayed)) = DataEnd(R)
      BY DEF Parts, Pointers
    <3>2. AppPos \in Nat /\ Total(Lens(notes)) \in Nat /\ Total(Lens(delayed)) \in Nat
      BY SumTypes
    <3>3. Total(Lens(notes')) \in Nat /\ Total(Lens(delayed')) \in Nat
      <4>1. Lens(notes') \in Seq(Nat) /\ Lens(delayed') \in Seq(Nat)
        BY LensOf, LensAre
      <4> QED
        BY <4>1, SumsAre
    <3>4. \A a, b, c \in Nat : a + b + c = a + (b + c)
      OBVIOUS
    <3>5. AppPos + Total(Lens(notes')) + Total(Lens(delayed'))
          = AppPos + (Total(Lens(notes')) + Total(Lens(delayed')))
      BY <3>2, <3>3, <3>4, Zenon
    <3>6. AppPos + Total(Lens(notes)) + Total(Lens(delayed))
          = AppPos + (Total(Lens(notes)) + Total(Lens(delayed)))
      BY <3>2, <3>4, Zenon
    <3> QED
      BY <1>3, <3>1, <3>5, <3>6, Zenon
  <2>2. DataEnd(R)' = DataEnd(R) /\ \A p : SeqNumb(p)' = SeqNumb(p)
    BY DEF DataEnd, SeqNumb, Isn
  <2> QED
    BY <2>1, <2>2 DEF Parts, Pointers
<1> QED
  BY <1>1, <1>2, <1>3, <1>4, <1>5, <1>6 DEF Parts

(* A notification whose data is written. *)
LEMMA NotifyWrittenKeeps ==
  ASSUME SteadyPeer, Types, NEW C \in Seq(Segments), NEW R \in Positions, NEW H \in Positions,
         NEW O \in Positions, Parts(C, R, H, O), NotifyWritten
  PROVE  Types' /\ Parts(C, R, H, O)'
<1>1. /\ UNCHANGED <<start, sar, state, fsm, payloads, fsmMeta, drop1, drop2, kept, writes, reads,
                     mem, delivered>>
      /\ statuses > 0 /\ Room(notes) /\ delayed # <<>> /\ ~ClosedOnly(Head(delayed))
      /\ delayed' = Tail(delayed) /\ statuses' = statuses - 1
      /\ notes' = IF Head(delayed).len # 0 THEN Append(notes, Head(delayed)) ELSE notes
  BY DEF NotifyWritten
<1>2. delayed \in Seq(Note) /\ Len(delayed) <= Depth /\ notes \in Seq(Note) /\ Len(notes) <= Depth
      /\ statuses \in Nat
  BY DEF Types
<1>3. Head(delayed) = delayed[1] /\ delayed[1] \in Note
  BY <1>1, <1>2, HeadAndTail
<1> PICK x \in Note : x = delayed[1]
  BY <1>3
<1>4. x.len \in Nat
  BY DEF Note
<1>5. delayed' \in Seq(Note) /\ Len(delayed') = Len(delayed) - 1 /\ Len(delayed) \in Nat \ {0}
  BY <1>1, <1>2, HeadAndTail
<1>6. Len(delayed') <= Depth
  BY <1>2, <1>5, SizeFacts
<1>7. notes' \in Seq(Note) /\ Len(notes') <= Depth /\ Total(Lens(notes')) = Total(Lens(notes)) + x.len
  <2>1. CASE x.len # 0
    <3>1. notes' = Append(notes, x)
      BY <1>1, <1>3, <2>1
    <3>2. Append(notes, x) \in Seq(Note) /\ Len(Append(notes, x)) = Len(notes) + 1 /\ Len(notes) \in Nat
      BY <1>2, Appended
    <3>3. Len(notes) < Depth
      BY <1>1 DEF Room
    <3>4. Len(Append(notes, x)) <= Depth
      BY <3>2, <3>3, SizeFacts
    <3>5. Total(Lens(Append(notes, x))) = Total(Lens(notes)) + x.len
      BY <1>2, LensOf, LensAppend
    <3> QED
      BY <3>1, <3>2, <3>4, <3>5, Zenon
  <2>2. CASE x.len = 0
    <3>1. notes' = notes
      BY <1>1, <1>3, <2>2
    <3>2. Total(Lens(notes)) = Total(Lens(notes)) + 0
      BY SumTypes
    <3> QED
      BY <1>2, <2>2, <3>1, <3>2
  <2> QED
    BY <2>1, <2>2
<1>8. /\ \A i \in 0 .. Len(delayed) - 1 : Sums(Lens(delayed'))[i] = Sums(Lens(delayed))[i + 1] - x.len
      /\ Total(Lens(delayed')) = Total(Lens(delayed)) - x.len
  BY <1>1, <1>2, LensOf, LensTail
<1>9. /\ \A i \in 0 .. Len(delayed) - 1 : Sums(Waits(delayed'))[i] = Sums(Waits(delayed))[i + 1] - 1
      /\ Total(Waits(delayed')) = Total(Waits(delayed)) - 1
  BY <1>1, <1>2, <1>3, WaitsTail DEF Bits
<1>10. AppPos' = AppPos
  BY <1>1 DEF AppPos
<1>11. AppPos \in Nat /\ Total(Lens(notes)) \in Nat /\ Total(Lens(delayed)) \in Nat
  BY SumTypes
<1>12. ASSUME NEW k \in 0 .. Len(delayed')
       PROVE  \E m \in 0 .. Len(delayed) : NotifiedAt(k)' = NotifiedAt(m)
                                           /\ WrittenAt(k)' = WrittenAt(m) - 1
  <2>1. k \in 0 .. Len(delayed) - 1 /\ k + 1 \in 0 .. Len(delayed)
    BY <1>5
  <2>2. NotifiedAt(k)' = AppPos + (Total(Lens(notes)) + x.len)
                         + (Sums(Lens(delayed))[k + 1] - x.len)
    BY <1>7, <1>8, <1>10, <2>1 DEF NotifiedAt
  <2>3. Sums(Lens(delayed))[k + 1] \in Nat
    <3>1. Lens(delayed) \in Seq(Nat) /\ Len(Lens(delayed)) = Len(delayed)
      BY <1>2, LensOf, LensAre
    <3>2. k + 1 \in 0 .. Len(Lens(delayed))
      BY <2>1, <3>1
    <3> QED
      BY <3>1, <3>2, SumsAre
  <2>4. \A a, b, c, l \in Nat : a + (b + l) + (c - l) = a + b + c
    OBVIOUS
  <2>5. NotifiedAt(k)' = NotifiedAt(k + 1)
    BY <1>4, <1>11, <2>2, <2>3, <2>4 DEF NotifiedAt
  <2>6. WrittenAt(k)' = WrittenAt(k + 1) - 1
    BY <1>9, <2>1 DEF WrittenAt
  <2> QED
    BY <2>1, <2>5, <2>6
<1>13. RingBuild(C, R, H, O)
  BY <1>1 DEF Parts, FifoBuild
<1>14. RingBuild(C, R, H, O)'
  BY <1>1, <1>9, <1>12, <1>13, NotifyShift
<1>15. statuses' \in Nat
  BY <1>1, <1>2
<1>16. Total(Lens(notes')) + Total(Lens(delayed')) = Total(Lens(notes)) + Total(Lens(delayed))
  <2>1. \A b, c, l \in Nat : (b + l) + (c - l) = b + c
    OBVIOUS
  <2> QED
    BY <1>4, <1>7, <1>8, <1>11, <2>1
<1> QED
  BY <1>1, <1>5, <1>6, <1>7, <1>14, <1>15, <1>16, NotifyParts

(* A queue with one entry taken out. *)
LEMMA Removed ==
  ASSUME NEW S, NEW q \in Seq(S), NEW i \in 1 .. Len(q)
  PROVE  /\ RemoveAt(q, i) \in Seq(S) /\ Len(RemoveAt(q, i)) = Len(q) - 1
         /\ \A k \in 1 .. Len(q) - 1 : RemoveAt(q, i)[k] = IF k < i THEN q[k] ELSE q[k + 1]
<1> DEFINE a == SubSeq(q, 1, i - 1)
           b == SubSeq(q, i + 1, Len(q))
<1>1. Len(q) \in Nat /\ i \in Nat
  OBVIOUS
<1>2. a \in Seq(S) /\ Len(a) = i - 1 /\ \A k \in 1 .. i - 1 : a[k] = q[k]
  OBVIOUS
<1>3. b \in Seq(S) /\ Len(b) = Len(q) - i /\ \A k \in 1 .. Len(q) - i : b[k] = q[i + k]
  OBVIOUS
<1>4. RemoveAt(q, i) = a \o b
  BY DEF RemoveAt
<1> HIDE DEF a, b
<1>5. a \o b \in Seq(S) /\ Len(a \o b) = Len(q) - 1
  <2>1. a \o b \in Seq(S) /\ Len(a \o b) = Len(a) + Len(b)
    BY <1>2, <1>3, Concatenated
  <2>2. (i - 1) + (Len(q) - i) = Len(q) - 1
    BY <1>1
  <2> QED
    BY <1>2, <1>3, <2>1, <2>2
<1>6. ASSUME NEW k \in 1 .. Len(q) - 1 PROVE (a \o b)[k] = IF k < i THEN q[k] ELSE q[k + 1]
  <2>1. CASE k < i
    BY <1>1, <1>2, <1>3, <2>1
  <2>2. CASE ~(k < i)
    <3>1. k - (i - 1) \in 1 .. Len(q) - i /\ i + (k - (i - 1)) = k + 1 /\ k > i - 1
      BY <1>1, <2>2
    <3>2. (a \o b)[k] = b[k - Len(a)]
      BY <1>1, <1>2, <1>3, <3>1
    <3> QED
      BY <1>2, <1>3, <2>2, <3>1, <3>2
  <2> QED
    BY <2>1, <2>2
<1> QED
  BY <1>4, <1>5, <1>6

(* A notification of the close alone overtakes those that wait. *)
LEMMA NotifyClosedKeeps ==
  ASSUME SteadyPeer, Types, NEW C \in Seq(Segments), NEW R \in Positions, NEW H \in Positions,
         NEW O \in Positions, Parts(C, R, H, O), NotifyClosed
  PROVE  Types' /\ Parts(C, R, H, O)'
<1>1. /\ UNCHANGED <<start, sar, state, fsm, payloads, fsmMeta, drop1, drop2, kept, writes, reads,
                     mem, statuses, delivered>>
      /\ Room(notes)
  BY DEF NotifyClosed
<1>2. PICK i \in 1 .. Len(delayed) : ClosedOnly(delayed[i]) /\ notes' = Append(notes, delayed[i])
                                     /\ delayed' = RemoveAt(delayed, i)
  BY DEF NotifyClosed
<1>3. delayed \in Seq(Note) /\ Len(delayed) <= Depth /\ notes \in Seq(Note) /\ Len(notes) <= Depth
      /\ statuses \in Nat
  BY DEF Types
<1>4. delayed[i] \in Note /\ Len(delayed) \in Nat \ {0} /\ delayed # <<>>
  BY <1>3
<1> PICK x \in Note : x = delayed[i]
  BY <1>4
<1>5. x.len = 0
  BY <1>2 DEF ClosedOnly
<1>6. delayed' \in Seq(Note) /\ Len(delayed') = Len(delayed) - 1
      /\ \A k \in 1 .. Len(delayed) - 1 : delayed'[k] = IF k < i THEN delayed[k] ELSE delayed[k + 1]
  BY <1>2, <1>3, Removed
<1>7. Len(delayed') <= Depth
  BY <1>3, <1>4, <1>6, SizeFacts
<1>8. notes' \in Seq(Note) /\ Len(notes') <= Depth /\ Total(Lens(notes')) = Total(Lens(notes))
  <2>1. notes' = Append(notes, x)
    BY <1>2
  <2>2. Append(notes, x) \in Seq(Note) /\ Len(Append(notes, x)) = Len(notes) + 1 /\ Len(notes) \in Nat
    BY <1>3, Appended
  <2>3. Len(notes) < Depth
    BY <1>1 DEF Room
  <2>4. Len(Append(notes, x)) <= Depth
    BY <2>2, <2>3, SizeFacts
  <2>5. Total(Lens(Append(notes, x))) = Total(Lens(notes)) + x.len
    BY <1>3, LensOf, LensAppend
  <2>6. Total(Lens(notes)) + 0 = Total(Lens(notes))
    BY SumTypes
  <2>7. Total(Lens(Append(notes, x))) = Total(Lens(notes))
    BY <1>5, <2>5, <2>6, Zenon
  <2> QED
    BY <2>1, <2>2, <2>4, <2>7, Zenon
<1>9. /\ \A k \in 0 .. Len(delayed) - 1 : Sums(Lens(delayed'))[k] =
            IF k < i THEN Sums(Lens(delayed))[k] ELSE Sums(Lens(delayed))[k + 1]
      /\ Total(Lens(delayed')) = Total(Lens(delayed))
  <2> DEFINE s == Lens(delayed)
             t == Lens(delayed')
  <2>1. s \in Seq(Nat) /\ Len(s) = Len(delayed) /\ \A k \in 1 .. Len(delayed) : s[k] = delayed[k].len
    BY <1>3, LensOf, LensAre
  <2>2. t \in Seq(Nat) /\ Len(t) = Len(delayed')
        /\ \A k \in 1 .. Len(delayed') : t[k] = delayed'[k].len
    BY <1>6, LensOf, LensAre
  <2> HIDE DEF s, t
  <2>3. s[i] = 0
    BY <1>5, <2>1
  <2>4. ASSUME NEW k \in 1 .. Len(s) - 1 PROVE t[k] = IF k < i THEN s[k] ELSE s[k + 1]
    <3>1. k \in 1 .. Len(delayed) - 1 /\ k \in 1 .. Len(delayed') /\ k \in 1 .. Len(delayed)
          /\ k + 1 \in 1 .. Len(delayed)
      BY <1>4, <1>6, <2>1
    <3>2. CASE k < i
      BY <1>6, <2>1, <2>2, <3>1, <3>2
    <3>3. CASE ~(k < i)
      BY <1>6, <2>1, <2>2, <3>1, <3>3
    <3> QED
      BY <3>2, <3>3
  <2>5. i \in 1 .. Len(s) /\ Len(t) = Len(s) - 1
    BY <1>6, <2>1, <2>2
  <2>6. /\ \A k \in 0 .. Len(s) - 1 : Sums(t)[k] = IF k < i THEN Sums(s)[k] ELSE Sums(s)[k + 1]
        /\ Total(t) = Total(s)
    BY <2>1, <2>2, <2>3, <2>4, <2>5, SumsRemove
  <2> QED
    BY <2>1, <2>6 DEF s, t
<1>10. /\ \A k \in 0 .. Len(delayed) - 1 : Sums(Waits(delayed'))[k] =
             IF k < i THEN Sums(Waits(delayed))[k] ELSE Sums(Waits(delayed))[k + 1]
       /\ Total(Waits(delayed')) = Total(Waits(delayed))
  <2> DEFINE s == Waits(delayed)
             t == Waits(delayed')
  <2>1. s \in Seq(Nat) /\ Len(s) = Len(delayed)
        /\ \A k \in 1 .. Len(delayed) : s[k] = IF ClosedOnly(delayed[k]) THEN 0 ELSE 1
    BY <1>3, WaitsAre
  <2>2. t \in Seq(Nat) /\ Len(t) = Len(delayed')
        /\ \A k \in 1 .. Len(delayed') : t[k] = IF ClosedOnly(delayed'[k]) THEN 0 ELSE 1
    BY <1>6, WaitsAre
  <2> HIDE DEF s, t
  <2>3. s[i] = 0
    BY <1>2, <2>1
  <2>4. ASSUME NEW k \in 1 .. Len(s) - 1 PROVE t[k] = IF k < i THEN s[k] ELSE s[k + 1]
    <3>1. k \in 1 .. Len(delayed) - 1 /\ k \in 1 .. Len(delayed') /\ k \in 1 .. Len(delayed)
          /\ k + 1 \in 1 .. Len(delayed)
      BY <1>4, <1>6, <2>1
    <3>2. CASE k < i
      BY <1>6, <2>1, <2>2, <3>1, <3>2
    <3>3. CASE ~(k < i)
      BY <1>6, <2>1, <2>2, <3>1, <3>3
    <3> QED
      BY <3>2, <3>3
  <2>5. i \in 1 .. Len(s) /\ Len(t) = Len(s) - 1
    BY <1>6, <2>1, <2>2
  <2>6. /\ \A k \in 0 .. Len(s) - 1 : Sums(t)[k] = IF k < i THEN Sums(s)[k] ELSE Sums(s)[k + 1]
        /\ Total(t) = Total(s)
    BY <2>1, <2>2, <2>3, <2>4, <2>5, SumsRemove
  <2> QED
    BY <2>1, <2>6 DEF s, t
<1>11. AppPos' = AppPos
  BY <1>1 DEF AppPos
<1>12. ASSUME NEW k \in 0 .. Len(delayed')
       PROVE  \E m \in 0 .. Len(delayed) : NotifiedAt(k)' = NotifiedAt(m)
                                           /\ WrittenAt(k)' = WrittenAt(m) - 0
  <2>1. k \in 0 .. Len(delayed) - 1 /\ k + 1 \in 0 .. Len(delayed) /\ k \in 0 .. Len(delayed)
    BY <1>4, <1>6
  <2>2. \A m \in 0 .. Len(delayed) : WrittenAt(m) - 0 = WrittenAt(m)
    BY DelayedSums
  <2>3. CASE k < i
    <3>1. NotifiedAt(k)' = NotifiedAt(k) /\ WrittenAt(k)' = WrittenAt(k)
      BY <1>8, <1>9, <1>10, <1>11, <2>1, <2>3 DEF NotifiedAt, WrittenAt
    <3> QED
      BY <2>1, <2>2, <3>1
  <2>4. CASE ~(k < i)
    <3>1. NotifiedAt(k)' = NotifiedAt(k + 1) /\ WrittenAt(k)' = WrittenAt(k + 1)
      BY <1>8, <1>9, <1>10, <1>11, <2>1, <2>4 DEF NotifiedAt, WrittenAt
    <3> QED
      BY <2>1, <2>2, <3>1
  <2> QED
    BY <2>3, <2>4
<1>13. RingBuild(C, R, H, O)
  BY <1>4 DEF Parts, FifoBuild
<1>14. statuses' = statuses - 0 /\ Total(Waits(delayed')) = Total(Waits(delayed)) - 0
  BY <1>1, <1>3, <1>10, DelayedSums
<1>15. RingBuild(C, R, H, O)'
  BY <1>1, <1>12, <1>13, <1>14, NotifyShift
<1>16. Total(Lens(notes')) + Total(Lens(delayed')) = Total(Lens(notes)) + Total(Lens(delayed))
  BY <1>8, <1>9
<1> QED
  BY <1>1, <1>3, <1>4, <1>6, <1>7, <1>8, <1>15, <1>16, NotifyParts

(* The application's position moves on over what it was notified of. *)
LEMMA AppMoves ==
  ASSUME Types, NEW C \in Seq(Segments), NEW R \in Positions, NEW H \in Positions,
         NEW O \in Positions, RingBuild(C, R, H, O), NEW n \in Nat, AppPos' = AppPos + n,
         Total(Lens(notes')) = Total(Lens(notes)) - n, sar'.gap = sar.gap, ReadsAt',
         UNCHANGED <<start, writes, mem, delivered, delayed, statuses>>
  PROVE  RingBuild(C, R, H, O)'
<1>1. AppPos \in Nat /\ Total(Lens(notes)) \in Nat /\ BufSize \in Nat \ {0} /\ H \in Nat
  BY SumTypes, SizeFacts DEF Positions
<1>2. \A p : Cell(p)' = Cell(p)
  BY DEF Cell, Isn
<1>3. GapAt(R, H, O)'
  <2>1. \A e \in {0, 1} : H <= AppPos + BufSize - e => H <= AppPos' + BufSize - e
    BY <1>1
  <2>2. H <= AppPos' + BufSize - (IF R = StreamLen + 1 THEN 0 ELSE 1)
    BY <2>1 DEF RingBuild, GapAt
  <2> QED
    BY <2>2 DEF RingBuild, GapAt
<1>4. ASSUME NEW k \in 0 .. Len(delayed)
      PROVE  NotifiedAt(k)' = NotifiedAt(k) /\ WrittenAt(k)' = WrittenAt(k)
  <2>1. delayed \in Seq(Note)
    BY DEF Types
  <2>2. Lens(delayed) \in Seq(Nat) /\ Len(Lens(delayed)) = Len(delayed)
    BY <2>1, LensOf, LensAre
  <2>3. Sums(Lens(delayed))[k] \in Nat
    BY <2>2, SumsAre
  <2>4. \A a, b, c \in Nat : (a + n) + (b - n) + c = a + b + c
    OBVIOUS
  <2>5. (AppPos + n) + (Total(Lens(notes)) - n) + Sums(Lens(delayed))[k]
        = AppPos + Total(Lens(notes)) + Sums(Lens(delayed))[k]
    BY <1>1, <2>3, <2>4
  <2>6. NotifiedAt(k)' = (AppPos + n) + (Total(Lens(notes)) - n) + Sums(Lens(delayed))[k]
    BY DEF NotifiedAt
  <2> QED
    BY <2>5, <2>6 DEF NotifiedAt, WrittenAt
<1>5. \A p, i : Covered(C, p, i)' <=> Covered(C, p, i)
  BY <1>2 DEF Covered
<1>6. Commands(C)'
  BY <1>2 DEF RingBuild, Commands
<1>7. GapContents(C, H, O)'
  BY <1>5 DEF RingBuild, GapContents
<1>8. Contents(C)'
  BY <1>4, <1>5 DEF RingBuild, Contents
<1>9. Unnotified(C)'
  BY <1>4 DEF RingBuild, Unnotified
<1> QED
  BY <1>3, <1>6, <1>7, <1>8, <1>9 DEF RingBuild

(* The application reads what it was notified of. *)
LEMMA AppReadKeeps ==
  ASSUME SteadyPeer, Types, NEW C \in Seq(Segments), NEW R \in Positions, NEW H \in Positions,
         NEW O \in Positions, Parts(C, R, H, O), AppRead
  PROVE  Types' /\ Parts(C, R, H, O)'
<1>1. /\ UNCHANGED <<start, state, fsm, payloads, fsmMeta, drop1, drop2, kept, writes, mem,
                     statuses, delayed, delivered>>
      /\ notes # <<>> /\ Room(reads) /\ notes' = Tail(notes)
      /\ Head(notes).len # 0 => /\ reads' = Append(reads, [addr |-> sar.appd, len |-> Head(notes).len])
                                /\ sar' = [sar EXCEPT !.appd = (sar.appd + Head(notes).len) % BufSize]
      /\ Head(notes).len = 0 => UNCHANGED <<reads, sar>>
  BY DEF AppRead
<1>2. notes \in Seq(Note) /\ Len(notes) <= Depth /\ reads \in Seq(Command) /\ Len(reads) <= Depth
      /\ sar \in SarEntry /\ start \in Starts
  BY DEF Types
<1>3. Head(notes) = notes[1] /\ notes[1] \in Note /\ Len(notes) \in Nat \ {0}
      /\ Tail(notes) \in Seq(Note) /\ Len(Tail(notes)) = Len(notes) - 1
  BY <1>1, <1>2, HeadAndTail
<1>4. notes[1].len \in Nat
  BY <1>3 DEF Note
<1> PICK n \in Nat : n = notes[1].len
  BY <1>4
<1>5. notes' \in Seq(Note) /\ Len(notes') <= Depth /\ Total(Lens(notes')) = Total(Lens(notes)) - n
  <2>1. Len(Tail(notes)) <= Depth
    BY <1>2, <1>3, SizeFacts
  <2>2. Total(Lens(Tail(notes))) = Total(Lens(notes)) - n
    BY <1>1, <1>2, LensOf, LensTail
  <2> QED
    BY <1>1, <1>3, <2>1, <2>2, Zenon
<1>6. sar.appd \in 0 .. BufSize - 1 /\ sar.gap \in BOOLEAN
  BY <1>2 DEF SarEntry
<1> PICK c \in Command : c = [addr |-> sar.appd, len |-> n]
  BY <1>6 DEF Command
<1>7. c.addr = sar.appd /\ c.len = n
  OBVIOUS
<1>8. n # 0 => reads' = Append(reads, c)
  BY <1>1, <1>3
<1>9. n = 0 => reads' = reads /\ sar' = sar
  BY <1>1, <1>3
<1>10. reads' \in Seq(Command) /\ Len(reads') <= Depth
       /\ Total(Lens(reads')) = Total(Lens(reads)) + n
  <2>1. CASE n # 0
    <3>1. Append(reads, c) \in Seq(Command) /\ Len(Append(reads, c)) = Len(reads) + 1
          /\ Len(reads) \in Nat
      BY <1>2, Appended
    <3>2. Len(reads) < Depth
      BY <1>1 DEF Room
    <3>3. Len(Append(reads, c)) <= Depth
      BY <3>1, <3>2, SizeFacts
    <3>4. Total(Lens(Append(reads, c))) = Total(Lens(reads)) + n
      BY <1>2, <1>7, LensOf, LensAppend
    <3> QED
      BY <1>8, <2>1, <3>1, <3>3, <3>4, Zenon
  <2>2. CASE n = 0
    <3>1. Total(Lens(reads)) + 0 = Total(Lens(reads))
      BY SumTypes
    <3> QED
      BY <1>2, <1>9, <2>2, <3>1
  <2> QED
    BY <2>1, <2>2
<1>11. sar' \in SarEntry /\ sar'.recvd = sar.recvd /\ sar'.head = sar.head /\ sar'.offset = sar.offset
       /\ sar'.gap = sar.gap
  <2>1. CASE n # 0
    <3>1. sar' = [sar EXCEPT !.appd = (sar.appd + n) % BufSize]
      BY <1>1, <1>3, <2>1
    <3>2. (sar.appd + n) % BufSize \in 0 .. BufSize - 1
      <4>1. sar.appd + n \in Int /\ BufSize \in Nat \ {0}
        BY <1>6, SizeFacts
      <4> QED
        BY <4>1, ModRange, Zenon
    <3> QED
      BY <1>2, <3>1, <3>2 DEF SarEntry
  <2>2. CASE n = 0
    BY <1>2, <1>9, <2>2
  <2> QED
    BY <2>1, <2>2
<1>12. Types'
  BY <1>1, <1>5, <1>10, <1>11 DEF Types
<1>13. AppPos \in Nat /\ AppPos' = AppPos + n /\ WindowEdge <= WindowEdge'
  <2>1. AppPos \in Nat /\ Total(Lens(reads)) \in Nat /\ Len(delivered) \in Nat
    BY SumTypes
  <2>2. AppPos' = Len(delivered) + (Total(Lens(reads)) + n)
    BY <1>1, <1>10 DEF AppPos
  <2>3. \A a, b \in Nat : a + (b + n) = (a + b) + n
    OBVIOUS
  <2>4. AppPos' = AppPos + n
    BY <2>1, <2>2, <2>3 DEF AppPos
  <2> QED
    BY <2>1, <2>4, SizeFacts DEF WindowEdge
<1>14. Matched(C)'
  BY <1>1, MatchedSame DEF Parts
<1>15. Windows(C)'
  <2>1. ASSUME NEW s \in Segments, InWindow(s) PROVE s.pos + s.len <= WindowEdge'
    <3>1. s.pos + s.len <= WindowEdge
      BY <2>1 DEF InWindow
    <3>2. s.pos + s.len \in Int /\ WindowEdge \in Int /\ WindowEdge' \in Int
      BY <1>13, SizeFacts DEF WindowEdge
    <3>3. \A u, v, w \in Int : u <= v /\ v <= w => u <= w
      OBVIOUS
    <3> QED
      BY <1>13, <3>1, <3>2, <3>3
  <2>2. fsmMeta \in Seq(Segments) /\ fsm \in Seq(FsmEntry)
    BY DEF Types
  <2>3. \A i \in 1 .. Len(fsm) : fsm[i].seg \in Segments
    <3>1. ASSUME NEW i \in 1 .. Len(fsm) PROVE fsm[i].seg \in Segments
      <4>1. fsm[i] \in FsmEntry
        BY <2>2
      <4> QED
        BY <4>1 DEF FsmEntry
    <3> QED
      BY <3>1
  <2>4. \A i \in 1 .. Len(fsmMeta) : fsmMeta[i].pos + fsmMeta[i].len <= WindowEdge'
    BY <2>1, <2>2 DEF Parts, Windows
  <2>5. \A i \in 1 .. Len(fsm) : fsm[i].seg.pos + fsm[i].seg.len <= WindowEdge'
    BY <2>1, <2>3 DEF Parts, Windows
  <2>6. \A i \in 1 .. Len(C) : C[i].pos + C[i].len <= WindowEdge'
    BY <2>1 DEF Parts, Windows
  <2> QED
    BY <1>1, <2>4, <2>5, <2>6 DEF Windows, InWindow
<1>16. Pointers(R, H, O)'
  <2>1. DataEnd(R)' = DataEnd(R) /\ \A p : SeqNumb(p)' = SeqNumb(p)
    BY <1>1 DEF DataEnd, SeqNumb, Isn
  <2>2. AppPos' + Total(Lens(notes')) + Total(Lens(delayed')) = DataEnd(R)
    <3>1. AppPos + Total(Lens(notes)) + Total(Lens(delayed)) = DataEnd(R)
      BY DEF Parts, Pointers
    <3>2. AppPos \in Nat /\ Total(Lens(notes)) \in Nat /\ Total(Lens(delayed)) \in Nat
      BY SumTypes
    <3>3. \A u, v, w \in Nat : (u + n) + (v - n) + w = u + v + w
      OBVIOUS
    <3>4. (AppPos + n) + (Total(Lens(notes)) - n) + Total(Lens(delayed))
          = AppPos + Total(Lens(notes)) + Total(Lens(delayed))
      BY <3>2, <3>3
    <3> QED
      BY <1>1, <1>5, <1>13, <3>1, <3>4
  <2> QED
    BY <1>1, <1>11, <2>1, <2>2 DEF Parts, Pointers
<1>17. DdrBypass' = DdrBypass
  BY <1>1 DEF DdrBypass
<1>18. ASSUME ~DdrBypass PROVE RingBuild(C, R, H, O)'
  <2>1. RingBuild(C, R, H, O)
    BY <1>18 DEF Parts
  <2>2. /\ sar.appd = Cell(AppPos)
        /\ \A i \in 1 .. Len(reads) : reads[i].addr = Cell(Len(delivered) + Sums(Lens(reads))[i - 1])
    BY <2>1 DEF RingBuild, ReadsAt
  <2>3. \A p : Cell(p)' = Cell(p)
    BY <1>1 DEF Cell, Isn
  <2>4. sar'.appd = Cell(AppPos + n)
    <3>1. CASE n # 0
      <4>1. sar'.appd = (Cell(AppPos) + n) % BufSize
        BY <1>1, <1>2, <1>3, <2>2, <3>1 DEF SarEntry
      <4> QED
        BY <1>2, <1>13, <4>1, CellFacts
    <3>2. CASE n = 0
      <4>1. AppPos + n = AppPos
        BY <1>13, <3>2
      <4> QED
        BY <1>9, <2>2, <3>2, <4>1
    <3> QED
      BY <3>1, <3>2
  <2>5. ASSUME NEW i \in 1 .. Len(reads')
        PROVE  reads'[i].addr = Cell(Len(delivered) + Sums(Lens(reads'))[i - 1])
    <3>1. CASE n = 0
      BY <1>9, <2>2, <3>1
    <3>2. CASE n # 0
      <4>1. /\ Len(reads') = Len(reads) + 1 /\ Len(reads) \in Nat
            /\ (\A k \in 1 .. Len(reads) : reads'[k] = reads[k])
            /\ reads'[Len(reads) + 1] = c
        <5>1. reads' = Append(reads, c) /\ Len(reads) \in Nat
          BY <1>2, <1>8, <3>2
        <5> QED
          BY <1>2, <5>1, Appended
      <4>2. \A k \in 0 .. Len(reads) : Sums(Lens(reads'))[k] = Sums(Lens(reads))[k]
        <5>1. \A k \in 0 .. Len(reads) : Sums(Lens(Append(reads, c)))[k] = Sums(Lens(reads))[k]
          BY <1>2, LensOf, LensAppend
        <5> QED
          BY <1>8, <3>2, <5>1, Zenon
      <4>3. i - 1 \in 0 .. Len(reads)
        BY <4>1
      <4>4. CASE i \in 1 .. Len(reads)
        BY <2>2, <4>1, <4>2, <4>3, <4>4
      <4>5. CASE i = Len(reads) + 1
        <5>1. i - 1 = Len(reads)
          BY <4>1, <4>5
        <5>2. Sums(Lens(reads))[Len(reads)] = Total(Lens(reads))
          <6>1. Len(Lens(reads)) = Len(reads)
            BY <1>2, LensOf, LensAre
          <6> QED
            BY <6>1 DEF Total
        <5>3. Len(delivered) + Sums(Lens(reads'))[i - 1] = AppPos
          BY <4>2, <4>3, <5>1, <5>2 DEF AppPos
        <5> QED
          BY <1>7, <2>2, <4>1, <4>5, <5>3
      <4> QED
        BY <4>1, <4>4, <4>5
    <3> QED
      BY <3>1, <3>2
  <2>6. ReadsAt'
    BY <1>1, <1>13, <2>3, <2>4, <2>5 DEF ReadsAt
  <2> QED
    BY <1>1, <1>5, <1>11, <1>13, <2>1, <2>6, AppMoves
<1>19. ASSUME DdrBypass PROVE FifoBuild(C, R, H)'
  <2>1. FifoBuild(C, R, H)
    BY <1>19 DEF Parts
  <2>2. PICK N \in Seq(Note) : FifoOf(C, R, N)
    BY <2>1 DEF FifoBuild
  <2>3. Selects(notes, Pending(notes), N) /\ Pending(notes) \in Seq(Bits)
        /\ Pending(notes') = Tail(Pending(notes)) /\ Pending(notes)[1] = IF n # 0 THEN 1 ELSE 0
    BY <1>1, <1>2, <2>2, PendingAre, PendingTail DEF FifoOf
  <2>4. /\ C = <<>> => Len(delivered) = DataEnd(R)
        /\ C # <<>> => C[1].pos = Len(delivered) /\ C[Len(C)].pos + C[Len(C)].len = DataEnd(R)
        /\ \A i \in 1 .. Len(C) - 1 : C[i + 1].pos = C[i].pos + C[i].len
        /\ Len(C) = Len(reads) + Len(N)
        /\ \A i \in 1 .. Len(reads) : reads[i].len = C[i].len
        /\ \A j \in 1 .. Len(N) : C[Len(reads) + j].len = N[j].len
    BY <2>2 DEF FifoOf
  <2>5. DataEnd(R)' = DataEnd(R)
    BY DEF DataEnd
  <2>6. \E N2 \in Seq(Note) : FifoOf(C, R, N2)'
    <3>1. CASE n = 0
      <4>1. Selects(notes', Pending(notes'), N)
        BY <1>1, <1>2, <2>3, <3>1, SelectsTail, ZenonT(60)
      <4>2. FifoOf(C, R, N)'
        BY <1>1, <1>9, <2>4, <2>5, <3>1, <4>1 DEF FifoOf
      <4> QED
        BY <4>2
    <3>2. CASE n # 0
      <4>1. N # <<>> /\ N[1] = notes[1] /\ Selects(notes', Pending(notes'), Tail(N))
        <5>1. Pending(notes)[1] = 1
          BY <2>3, <3>2
        <5>2. N # <<>> /\ N[1] = notes[1] /\ Selects(Tail(notes), Tail(Pending(notes)), Tail(N))
          BY <1>1, <1>2, <2>3, <5>1, SelectsTail
        <5> QED
          BY <1>1, <2>3, <5>2
      <4>2. Tail(N) \in Seq(Note) /\ Len(Tail(N)) = Len(N) - 1 /\ Len(N) \in Nat \ {0}
            /\ \A i \in 1 .. Len(N) - 1 : Tail(N)[i] = N[i + 1]
        BY <4>1, HeadAndTail
      <4> PICK M \in Seq(Note) : M = Tail(N)
        BY <4>2
      <4>3. /\ Len(reads') = Len(reads) + 1 /\ Len(reads) \in Nat
            /\ (\A k \in 1 .. Len(reads) : reads'[k] = reads[k])
            /\ reads'[Len(reads) + 1] = c
        <5>1. reads' = Append(reads, c) /\ Len(reads) \in Nat
          BY <1>2, <1>8, <3>2
        <5> QED
          BY <1>2, <5>1, Appended
      <4>4. Len(C) = Len(reads') + Len(M)
        BY <2>4, <4>2, <4>3
      <4>5. ASSUME NEW i \in 1 .. Len(reads') PROVE reads'[i].len = C[i].len
        <5>1. CASE i \in 1 .. Len(reads)
          BY <2>4, <4>3, <5>1
        <5>2. CASE i = Len(reads) + 1
          <6>1. 1 \in 1 .. Len(N)
            BY <4>2
          <6>2. C[Len(reads) + 1].len = N[1].len
            BY <2>4, <6>1
          <6> QED
            BY <1>7, <4>1, <4>3, <5>2, <6>2
        <5> QED
          BY <4>3, <5>1, <5>2
      <4>6. ASSUME NEW j \in 1 .. Len(M) PROVE C[Len(reads') + j].len = M[j].len
        <5>1. j + 1 \in 1 .. Len(N) /\ j \in 1 .. Len(N) - 1 /\ Len(reads') + j = Len(reads) + (j + 1)
          BY <4>2, <4>3
        <5>2. C[Len(reads) + (j + 1)].len = N[j + 1].len
          BY <2>4, <5>1
        <5> QED
          BY <4>2, <5>1, <5>2
      <4>7. FifoOf(C, R, M)'
        BY <1>1, <2>4, <2>5, <4>1, <4>4, <4>5, <4>6 DEF FifoOf
      <4> QED
        BY <4>7
    <3> QED
      BY <3>1, <3>2
  <2> QED
    BY <1>1, <1>11, <2>1, <2>6 DEF FifoBuild
<1> QED
  BY <1>12, <1>14, <1>15, <1>16, <1>17, <1>18, <1>19 DEF Parts

(* The next n bytes of the stream are delivered. *)
LEMMA NextBytes ==
  ASSUME delivered \in Seq(Nat), StreamDelivered, NEW n \in Nat, NEW f, f \in [1 .. n -> Nat],
         \A i \in 1 .. n : f[i] = Len(delivered) + (i - 1), delivered' = delivered \o f
  PROVE  delivered' \in Seq(Nat) /\ Len(delivered') = Len(delivered) + n /\ StreamDelivered'
<1>1. f \in Seq(Nat) /\ Len(f) = n
  BY FunctionIsSeq
<1>2. delivered' \in Seq(Nat) /\ Len(delivered') = Len(delivered) + n /\ Len(delivered) \in Nat
      /\ (\A i \in 1 .. Len(delivered) : delivered'[i] = delivered[i])
      /\ \A i \in Len(delivered) + 1 .. Len(delivered) + n : delivered'[i] = f[i - Len(delivered)]
  <2>1. Len(delivered) \in Nat
    OBVIOUS
  <2>2. /\ delivered \o f \in Seq(Nat) /\ Len(delivered \o f) = Len(delivered) + Len(f)
        /\ \A i \in 1 .. Len(delivered) : (delivered \o f)[i] = delivered[i]
        /\ \A i \in Len(delivered) + 1 .. Len(delivered) + Len(f) :
             (delivered \o f)[i] = f[i - Len(delivered)]
    BY <1>1, Concatenated
  <2> QED
    BY <1>1, <2>1, <2>2, Zenon
<1>3. ASSUME NEW i \in 1 .. Len(delivered') PROVE delivered'[i] = i - 1
  <2>1. CASE i \in 1 .. Len(delivered)
    BY <1>2, <2>1 DEF StreamDelivered
  <2>2. CASE i \notin 1 .. Len(delivered)
    <3>1. i - Len(delivered) \in 1 .. n /\ i \in Len(delivered) + 1 .. Len(delivered) + n
      BY <1>2, <2>2
    <3>2. delivered'[i] = Len(delivered) + ((i - Len(delivered)) - 1)
      BY <1>2, <3>1
    <3> QED
      BY <1>2, <3>1, <3>2
  <2> QED
    BY <2>1, <2>2
<1> QED
  BY <1>2, <1>3 DEF StreamDelivered

(* A read is served: the application's position, which counts the reads on *)
(* their way, stays.                                                       *)
LEMMA ReadServed ==
  ASSUME Types, reads # <<>>, reads' = Tail(reads), Len(delivered') = Len(delivered) + reads[1].len
  PROVE  /\ reads' \in Seq(Command) /\ Len(reads') <= Depth /\ Len(reads) \in Nat \ {0}
         /\ Len(reads') = Len(reads) - 1 /\ \A i \in 1 .. Len(reads) - 1 : reads'[i] = reads[i + 1]
         /\ reads[1] \in Command /\ reads[1].len \in Nat
         /\ AppPos' = AppPos /\ WindowEdge' = WindowEdge
         /\ Len(delivered) + reads[1].len <= AppPos
         /\ \A i \in 1 .. Len(reads) - 1 : Len(delivered') + Sums(Lens(reads'))[i - 1]
                                           = Len(delivered) + Sums(Lens(reads))[i]
<1>1. reads \in Seq(Command) /\ Len(reads) <= Depth
  BY DEF Types
<1>2. Tail(reads) \in Seq(Command) /\ Len(Tail(reads)) = Len(reads) - 1 /\ Len(reads) \in Nat \ {0}
      /\ (\A i \in 1 .. Len(reads) - 1 : Tail(reads)[i] = reads[i + 1])
      /\ Head(reads) = reads[1] /\ Head(reads) \in Command
  BY <1>1, HeadAndTail
<1>3. Len(Tail(reads)) <= Depth
  BY <1>1, <1>2, SizeFacts
<1>4. /\ \A i \in 0 .. Len(reads) - 1 : Sums(Lens(Tail(reads)))[i] = Sums(Lens(reads))[i + 1] - reads[1].len
      /\ Total(Lens(Tail(reads))) = Total(Lens(reads)) - reads[1].len
      /\ reads[1].len \in Nat /\ reads[1].len <= Total(Lens(reads))
  BY <1>1, LensOf, LensTail
<1>5. Len(delivered) \in Nat /\ Total(Lens(reads)) \in Nat
  BY SumTypes
<1>6. \A a, b, l \in Nat : (a + l) + (b - l) = a + b /\ (l <= b => a + l <= a + b)
  OBVIOUS
<1>7. AppPos' = AppPos
  BY <1>4, <1>5, <1>6 DEF AppPos
<1>8. Len(delivered) + reads[1].len <= AppPos
  BY <1>4, <1>5, <1>6 DEF AppPos
<1>9. ASSUME NEW i \in 1 .. Len(reads) - 1
      PROVE  Len(delivered') + Sums(Lens(reads'))[i - 1] = Len(delivered) + Sums(Lens(reads))[i]
  <2>1. i - 1 \in 0 .. Len(reads) - 1 /\ (i - 1) + 1 = i /\ i \in 0 .. Len(reads)
    BY <1>2
  <2>2. Lens(reads) \in Seq(Nat) /\ Len(Lens(reads)) = Len(reads)
    BY <1>1, LensOf, LensAre
  <2>3. Sums(Lens(reads))[i] \in Nat
    BY <2>1, <2>2, SumsAre
  <2>4. Sums(Lens(reads'))[i - 1] = Sums(Lens(reads))[i] - reads[1].len
    BY <1>4, <2>1
  <2> QED
    BY <1>4, <1>5, <1>6, <2>3, <2>4
<1>10. WindowEdge' = WindowEdge
  BY <1>7 DEF WindowEdge
<1> QED
  BY <1>2, <1>3, <1>4, <1>7, <1>8, <1>9, <1>10

(* What the application was notified of is in the ring buffer: a read has  *)
(* no more than its size, and visits the cells of its bytes.               *)
LEMMA ReadBytes ==
  ASSUME SteadyPeer, Types, NEW C \in Seq(Segments), NEW R \in Positions, NEW H \in Positions,
         NEW O \in Positions, Parts(C, R, H, O), ~DdrBypass, reads # <<>>,
         NEW c \in Command, c = reads[1], Len(delivered) + c.len <= AppPos
  PROVE  \A i \in 0 .. c.len - 1 : mem[ReadAddr(c, i)] = Len(delivered) + i
<1>1. start \in Starts /\ reads \in Seq(Command) /\ statuses \in Nat
  BY DEF Types
<1>2. c.addr \in 0 .. BufSize - 1 /\ c.len \in Nat /\ BufSize \in Nat \ {0}
  BY SizeFacts DEF Command
<1>3. Short = BufSize
  BY <1>1 DEF SteadyPeer, DdrBypass
<1>4. Len(delivered) \in Nat /\ AppPos \in Nat /\ Total(Lens(notes)) \in Nat
  BY SumTypes
<1>5. c.addr = Cell(Len(delivered))
  <2>1. Len(reads) \in Nat \ {0} /\ 1 \in 1 .. Len(reads)
    BY <1>1, HeadAndTail
  <2>2. c.addr = Cell(Len(delivered) + Sums(Lens(reads))[1 - 1])
    BY <2>1 DEF Parts, RingBuild, ReadsAt
  <2>3. Lens(reads) \in Seq(Nat)
    BY <1>1, LensOf, LensAre
  <2>4. Sums(Lens(reads))[0] = 0 /\ 1 - 1 = 0 /\ Len(delivered) + 0 = Len(delivered)
    BY <1>4, <2>3, SumsAre DEF SumUp
  <2> QED
    BY <2>2, <2>4
<1>6. ASSUME NEW i \in 0 .. c.len - 1
      PROVE  Len(delivered) + i \in Nat /\ mem[Cell(Len(delivered) + i)] = Len(delivered) + i
  <2>1. PICK p \in Nat : p = Len(delivered) + i /\ Len(delivered) <= p /\ p < AppPos
    BY <1>2, <1>4
  <2>2. 0 \in 0 .. Len(delayed) /\ NotifiedAt(0) = AppPos + Total(Lens(notes)) /\ WrittenAt(0) = 0
    BY RingBound, DelayedSums
  <2>3. p < NotifiedAt(0)
    BY <1>4, <2>1, <2>2
  <2>4. Covered(C, p, WrittenAt(0) - statuses)
    BY <2>1, <2>2, <2>3 DEF Parts, RingBuild, Contents
  <2>5. \A j \in 1 .. Len(C) : ~(j <= WrittenAt(0) - statuses)
    BY <1>1, <2>2
  <2>6. mem[Cell(p)] = p
    BY <2>4, <2>5 DEF Covered
  <2> QED
    BY <2>1, <2>6
<1>7. c.len <= BufSize
  <2> SUFFICES ASSUME ~(c.len <= BufSize) PROVE FALSE
    OBVIOUS
  <2>1. 0 \in 0 .. c.len - 1 /\ BufSize \in 0 .. c.len - 1
    BY <1>2
  <2>2. mem[Cell(Len(delivered) + 0)] = Len(delivered) + 0
        /\ mem[Cell(Len(delivered) + BufSize)] = Len(delivered) + BufSize
    BY <1>6, <2>1
  <2>3. Cell(Len(delivered) + BufSize) = Cell(Len(delivered) + 0)
    <3>1. Isn \in Nat
      BY <1>1, SizeFacts DEF Isn
    <3> DEFINE a == Isn + Len(delivered)
    <3>2. a \in Int /\ Isn + (Len(delivered) + BufSize) = a + BufSize /\ Isn + (Len(delivered) + 0) = a
      BY <1>2, <1>4, <3>1
    <3> HIDE DEF a
    <3>3. a % BufSize \in 0 .. BufSize - 1 /\ BufSize \in 0 .. BufSize
      <4>1. a % BufSize \in 0 .. BufSize - 1
        BY <1>2, <3>2, ModRange, Zenon
      <4>2. BufSize \in 0 .. BufSize
        BY <1>2
      <4> QED
        BY <4>1, <4>2
    <3>4. (a + BufSize) % BufSize = IF (a % BufSize) + BufSize < BufSize THEN (a % BufSize) + BufSize
                                    ELSE (a % BufSize) + BufSize - BufSize
      BY <1>2, <3>2, <3>3, ModAdd
    <3>5. (a + BufSize) % BufSize = a % BufSize
      <4>1. \A r \in 0 .. BufSize - 1 : r + BufSize - BufSize = r /\ ~(r + BufSize < BufSize)
        BY <1>2
      <4> QED
        BY <3>3, <3>4, <4>1
    <3> QED
      BY <3>2, <3>5 DEF Cell
  <2> QED
    BY <1>2, <1>4, <2>2, <2>3
<1>8. ASSUME NEW i \in 0 .. c.len - 1 PROVE ReadAddr(c, i) = Cell(Len(delivered) + i)
  <2>1. i \in Nat /\ i \in 0 .. BufSize - 1 /\ i \in 0 .. BufSize /\ c.addr \in Int
    BY <1>2, <1>7
  <2>2. c.addr % BufSize = c.addr
    BY <1>2, ModSmall
  <2>3. (c.addr + i) % BufSize = IF c.addr + i < BufSize THEN c.addr + i ELSE c.addr + i - BufSize
    BY <1>2, <2>1, <2>2, ModAdd
  <2>4. ReadAddr(c, i) = IF c.addr + i < BufSize THEN c.addr + i
                         ELSE c.addr - c.addr + (c.addr + i - BufSize)
    BY <1>3, <2>2 DEF ReadAddr
  <2>5. c.addr - c.addr + (c.addr + i - BufSize) = c.addr + i - BufSize
    BY <1>2, <2>1
  <2>6. (c.addr + i) % BufSize = Cell(Len(delivered) + i)
    BY <1>1, <1>4, <1>5, <2>1, CellFacts
  <2> QED
    BY <2>3, <2>4, <2>5, <2>6
<1> QED
  BY <1>6, <1>8

(* Pointers and windows, while the application's position stays. *)
LEMMA PointersStay ==
  ASSUME NEW C \in Seq(Segments), NEW R, NEW H, NEW O, Pointers(R, H, O), Windows(C),
         AppPos' = AppPos, WindowEdge' = WindowEdge,
         UNCHANGED <<start, sar, fsm, fsmMeta, notes, delayed>>
  PROVE  Pointers(R, H, O)' /\ Windows(C)' /\ DataEnd(R)' = DataEnd(R)
<1>1. Pointers(R, H, O)'
  BY DEF Pointers, SeqNumb, Isn, DataEnd
<1>2. Windows(C)'
  BY WindowsSame
<1> QED
  BY <1>1, <1>2 DEF DataEnd

(* The memory serves a read. *)
LEMMA MemReadKeeps ==
  ASSUME SteadyPeer, Types, StreamDelivered, NEW C \in Seq(Segments), NEW R \in Positions,
         NEW H \in Positions, NEW O \in Positions, Parts(C, R, H, O), MemRead
  PROVE  Types' /\ StreamDelivered' /\ Parts(C, R, H, O)'
<1>1. /\ UNCHANGED <<start, sar, state, fsm, payloads, fsmMeta, drop1, drop2, kept, writes, mem,
                     statuses, delayed, notes>>
      /\ ~DdrBypass /\ reads # <<>> /\ reads' = Tail(reads)
  BY DEF MemRead
<1>2. reads \in Seq(Command) /\ delivered \in Seq(Nat)
  BY DEF Types
<1>3. Head(reads) = reads[1] /\ reads[1] \in Command
  BY <1>1, <1>2, HeadAndTail
<1> PICK c \in Command : c = reads[1]
  BY <1>3
<1>4. c.len \in Nat
  BY DEF Command
<1> DEFINE f == [i \in 1 .. c.len |-> mem[ReadAddr(c, i - 1)]]
<1>5. delivered' = delivered \o f
  BY <1>3 DEF MemRead
<1>6. Len(delivered) + c.len <= AppPos /\ Len(delivered) \in Nat
  <2>1. c.len <= Total(Lens(reads))
    BY <1>1, <1>2, LensOf, LensTail
  <2>2. Len(delivered) \in Nat /\ Total(Lens(reads)) \in Nat
    BY SumTypes
  <2>3. \A a, b, l \in Nat : l <= b => a + l <= a + b
    OBVIOUS
  <2> QED
    BY <1>4, <2>1, <2>2, <2>3 DEF AppPos
<1>7. \A i \in 0 .. c.len - 1 : mem[ReadAddr(c, i)] = Len(delivered) + i
  BY <1>1, <1>6, ReadBytes
<1>8. ASSUME NEW i \in 1 .. c.len PROVE f[i] = Len(delivered) + (i - 1) /\ f[i] \in Nat
  <2>1. i - 1 \in 0 .. c.len - 1
    BY <1>4
  <2>2. f[i] = Len(delivered) + (i - 1)
    BY <1>7, <2>1
  <2> QED
    BY <1>6, <2>1, <2>2
<1>9. f \in [1 .. c.len -> Nat]
  BY <1>8
<1> HIDE DEF f
<1>10. delivered' \in Seq(Nat) /\ Len(delivered') = Len(delivered) + c.len /\ StreamDelivered'
  BY <1>2, <1>4, <1>5, <1>8, <1>9, NextBytes
<1>11. /\ reads' \in Seq(Command) /\ Len(reads') <= Depth /\ Len(reads) \in Nat \ {0}
       /\ Len(reads') = Len(reads) - 1 /\ (\A i \in 1 .. Len(reads) - 1 : reads'[i] = reads[i + 1])
       /\ AppPos' = AppPos /\ WindowEdge' = WindowEdge
       /\ \A i \in 1 .. Len(reads) - 1 : Len(delivered') + Sums(Lens(reads'))[i - 1]
                                         = Len(delivered) + Sums(Lens(reads))[i]
  BY <1>1, <1>10, ReadServed
<1>12. Types'
  BY <1>1, <1>10, <1>11 DEF Types
<1>13. Matched(C)'
  BY <1>1, MatchedSame DEF Parts
<1>14. Pointers(R, H, O)' /\ Windows(C)'
  BY <1>1, <1>11, PointersStay DEF Parts
<1>15. DdrBypass' = DdrBypass /\ (\A p : Cell(p)' = Cell(p))
       /\ \A k : NotifiedAt(k)' = NotifiedAt(k) /\ WrittenAt(k)' = WrittenAt(k)
  BY <1>1, <1>11 DEF DdrBypass, Cell, Isn, NotifiedAt, WrittenAt
<1>16. RingBuild(C, R, H, O)
  BY <1>1 DEF Parts
<1>17. \A p, n : Covered(C, p, n)' <=> Covered(C, p, n)
  BY <1>1, <1>15 DEF Covered
<1>18. GapAt(R, H, O)' /\ Commands(C)' /\ GapContents(C, H, O)' /\ Unnotified(C)'
  <2>1. GapAt(R, H, O)'
    BY <1>1, <1>11, <1>16 DEF RingBuild, GapAt
  <2>2. Commands(C)'
    BY <1>1, <1>15, <1>16 DEF RingBuild, Commands
  <2>3. GapContents(C, H, O)'
    BY <1>1, <1>16, <1>17 DEF RingBuild, GapContents
  <2>4. Unnotified(C)'
    BY <1>1, <1>15, <1>16 DEF RingBuild, Unnotified
  <2> QED
    BY <2>1, <2>2, <2>3, <2>4
<1>19. Contents(C)'
  <2> SUFFICES ASSUME NEW k \in 0 .. Len(delayed'), NEW p \in Nat,
                      Len(delivered') <= p, p < NotifiedAt(k)'
               PROVE  Covered(C, p, WrittenAt(k) - statuses)'
    BY DEF Contents
  <2>1. Len(delivered) <= p
    BY <1>4, <1>6, <1>10
  <2>2. Covered(C, p, WrittenAt(k) - statuses)
    BY <1>1, <1>15, <1>16, <2>1 DEF RingBuild, Contents
  <2> QED
    BY <1>1, <1>15, <2>2 DEF Covered
<1>20. ReadsAt'
  <2>1. ASSUME NEW i \in 1 .. Len(reads')
        PROVE  reads'[i].addr = Cell(Len(delivered') + Sums(Lens(reads'))[i - 1])
    <3>1. i \in 1 .. Len(reads) - 1 /\ i + 1 \in 1 .. Len(reads) /\ (i + 1) - 1 = i
      BY <1>11
    <3>2. reads[i + 1].addr = Cell(Len(delivered) + Sums(Lens(reads))[i])
      BY <1>16, <3>1 DEF RingBuild, ReadsAt
    <3> QED
      BY <1>11, <3>1, <3>2
  <2> QED
    BY <1>1, <1>11, <1>15, <1>16, <2>1 DEF RingBuild, ReadsAt
<1>21. RingBuild(C, R, H, O)'
  BY <1>18, <1>19, <1>20 DEF RingBuild
<1> QED
  BY <1>1, <1>10, <1>12, <1>13, <1>14, <1>15, <1>21 DEF Parts

(* In the build with the FIFO, the next payload is read. *)
LEMMA FifoReadKeeps ==
  ASSUME SteadyPeer, Types, StreamDelivered, NEW C \in Seq(Segments), NEW R \in Positions,
         NEW H \in Positions, NEW O \in Positions, Parts(C, R, H, O), FifoRead
  PROVE  Types' /\ StreamDelivered' /\ \E D \in Seq(Segments) : Parts(D, R, H, O)'
<1>1. /\ UNCHANGED <<start, sar, state, fsm, payloads, fsmMeta, drop1, drop2, writes, mem,
                     statuses, delayed, notes>>
      /\ DdrBypass /\ reads # <<>> /\ reads' = Tail(reads) /\ kept # <<>> /\ kept' = Tail(kept)
  BY DEF FifoRead
<1>2. reads \in Seq(Command) /\ delivered \in Seq(Nat) /\ kept \in Seq(Segments) /\ Len(kept) <= Depth
  BY DEF Types
<1>3. Head(kept) = kept[1] /\ kept[1] \in Segments /\ Len(reads) \in Nat \ {0}
  BY <1>1, <1>2, HeadAndTail
<1>4. Matched(C)
  BY DEF Parts
<1>5. C # <<>> /\ C[1] = kept[1] /\ C[1] \in Segments /\ Matched(Tail(C))'
  BY <1>1, <1>4, MatchedTake
<1>6. Tail(C) \in Seq(Segments) /\ Len(Tail(C)) = Len(C) - 1 /\ Len(C) \in Nat \ {0}
      /\ \A i \in 1 .. Len(C) - 1 : Tail(C)[i] = C[i + 1]
  BY <1>5, HeadAndTail
<1> PICK D \in Seq(Segments) : D = Tail(C)
  BY <1>6
<1>7. Len(D) = Len(C) - 1 /\ (\A i \in 1 .. Len(C) - 1 : D[i] = C[i + 1]) /\ Matched(D)'
  BY <1>5, <1>6
<1> PICK w \in Segments : w = C[1]
  BY <1>5
<1>8. w.len \in Nat /\ w.pos \in Nat
  BY SizeFacts
<1>9. FifoBuild(C, R, H)
  BY <1>1 DEF Parts
<1>10. PICK N \in Seq(Note) : FifoOf(C, R, N)
  BY <1>9 DEF FifoBuild
<1>11. /\ w.pos = Len(delivered) /\ C[Len(C)].pos + C[Len(C)].len = DataEnd(R)
       /\ \A i \in 1 .. Len(C) - 1 : C[i + 1].pos = C[i].pos + C[i].len
       /\ Len(C) = Len(reads) + Len(N) /\ Len(N) \in Nat
       /\ \A i \in 1 .. Len(reads) : reads[i].len = C[i].len
       /\ \A j \in 1 .. Len(N) : C[Len(reads) + j].len = N[j].len
       /\ Selects(notes, Pending(notes), N)
  BY <1>5, <1>10 DEF FifoOf
<1>12. reads[1].len = w.len
  BY <1>3, <1>11
<1> DEFINE f == [i \in 1 .. w.len |-> w.pos + i - 1]
<1>13. delivered' = delivered \o f
  BY <1>3, <1>5 DEF FifoRead
<1>14. ASSUME NEW i \in 1 .. w.len PROVE f[i] = Len(delivered) + (i - 1) /\ f[i] \in Nat
  <2>1. f[i] = w.pos + i - 1 /\ i \in Nat \ {0}
    BY <1>8
  <2>2. \A a \in Nat, b \in Nat \ {0} : a + b - 1 = a + (b - 1) /\ a + b - 1 \in Nat
    OBVIOUS
  <2> QED
    BY <1>8, <1>11, <2>1, <2>2
<1>15. f \in [1 .. w.len -> Nat]
  BY <1>14
<1> HIDE DEF f
<1>16. delivered' \in Seq(Nat) /\ Len(delivered') = Len(delivered) + w.len /\ StreamDelivered'
  BY <1>2, <1>8, <1>13, <1>14, <1>15, NextBytes
<1>17. /\ reads' \in Seq(Command) /\ Len(reads') <= Depth /\ Len(reads') = Len(reads) - 1
       /\ (\A i \in 1 .. Len(reads) - 1 : reads'[i] = reads[i + 1])
       /\ AppPos' = AppPos /\ WindowEdge' = WindowEdge
  BY <1>1, <1>12, <1>16, ReadServed
<1>18. kept' \in Seq(Segments) /\ Len(kept') <= Depth
  <2>1. Tail(kept) \in Seq(Segments) /\ Len(Tail(kept)) = Len(kept) - 1 /\ Len(kept) \in Nat
    BY <1>1, <1>2, HeadAndTail
  <2>2. Len(Tail(kept)) <= Depth
    BY <1>2, <2>1, SizeFacts
  <2> QED
    BY <1>1, <2>1, <2>2, Zenon
<1>19. Types'
  BY <1>1, <1>16, <1>17, <1>18 DEF Types
<1>20. Pointers(R, H, O)' /\ Windows(C)' /\ DataEnd(R)' = DataEnd(R)
  BY <1>1, <1>17, PointersStay DEF Parts
<1>21. Windows(D)'
  <2>1. ASSUME NEW i \in 1 .. Len(D) PROVE InWindow(D[i])'
    <3>1. i \in 1 .. Len(C) - 1 /\ i + 1 \in 1 .. Len(C)
      BY <1>6, <1>7
    <3>2. InWindow(C[i + 1])' /\ D[i] = C[i + 1]
      BY <1>7, <1>20, <3>1 DEF Windows
    <3> QED
      BY <3>2 DEF InWindow
  <2> QED
    BY <1>20, <2>1 DEF Windows
<1>22. FifoOf(D, R, N)'
  <2>1. ASSUME D = <<>> PROVE Len(delivered') = DataEnd(R)
    <3>1. Len(C) = 1
      <4>1. Len(D) = 0
        <5>1. Len(<<>>) = 0
          OBVIOUS
        <5> QED
          BY <2>1, <5>1, Zenon
      <4>2. \A a \in Nat : a - 1 = 0 => a = 1
        OBVIOUS
      <4> QED
        BY <1>6, <1>7, <4>1, <4>2, Zenon
    <3> QED
      BY <1>11, <1>16, <3>1
  <2>2. ASSUME D # <<>>
        PROVE  D[1].pos = Len(delivered') /\ D[Len(D)].pos + D[Len(D)].len = DataEnd(R)
    <3>1. Len(D) \in Nat \ {0}
      BY <2>2, HeadAndTail
    <3>2. 1 \in 1 .. Len(C) - 1 /\ Len(D) \in 1 .. Len(C) - 1 /\ Len(D) + 1 = Len(C) /\ 1 + 1 = 2
      BY <1>6, <1>7, <3>1
    <3>3. D[1] = C[2] /\ D[Len(D)] = C[Len(C)]
      BY <1>7, <3>2
    <3>4. C[2].pos = C[1].pos + C[1].len
      BY <1>11, <3>2
    <3> QED
      BY <1>11, <1>16, <3>3, <3>4
  <2>3. ASSUME NEW i \in 1 .. Len(D) - 1 PROVE D[i + 1].pos = D[i].pos + D[i].len
    <3>1. i \in 1 .. Len(C) - 1 /\ i + 1 \in 1 .. Len(C) - 1
      BY <1>6, <1>7
    <3>2. D[i] = C[i + 1] /\ D[i + 1] = C[(i + 1) + 1]
      BY <1>7, <3>1
    <3> QED
      BY <1>11, <3>1, <3>2
  <2>4. Len(D) = Len(reads') + Len(N)
    BY <1>3, <1>7, <1>11, <1>17
  <2>5. ASSUME NEW i \in 1 .. Len(reads') PROVE reads'[i].len = D[i].len
    <3>1. i \in 1 .. Len(reads) - 1 /\ i + 1 \in 1 .. Len(reads)
      BY <1>3, <1>17
    <3>2. \A a, b \in Nat : \A k \in 1 .. a - 1 : k \in 1 .. (a + b) - 1
      OBVIOUS
    <3>3. i \in 1 .. Len(C) - 1
      BY <1>3, <1>11, <3>1, <3>2
    <3> QED
      BY <1>7, <1>11, <1>17, <3>1, <3>3
  <2>6. ASSUME NEW j \in 1 .. Len(N) PROVE D[Len(reads') + j].len = N[j].len
    <3>1. Len(reads') + j \in 1 .. Len(C) - 1 /\ (Len(reads') + j) + 1 = Len(reads) + j
      BY <1>3, <1>6, <1>11, <1>17
    <3>2. D[Len(reads') + j] = C[Len(reads) + j]
      BY <1>7, <3>1
    <3> QED
      BY <1>11, <3>2
  <2>7. Selects(notes', Pending(notes'), N)
    BY <1>1, <1>11
  <2> QED
    BY <1>20, <2>1, <2>2, <2>3, <2>4, <2>5, <2>6, <2>7 DEF FifoOf
<1>23. FifoBuild(D, R, H)'
  BY <1>1, <1>9, <1>22 DEF FifoBuild
<1>24. DdrBypass' = DdrBypass
  BY <1>1 DEF DdrBypass
<1>25. Parts(D, R, H, O)'
  BY <1>1, <1>7, <1>20, <1>21, <1>23, <1>24 DEF Parts
<1> QED
  BY <1>16, <1>19, <1>25

-----------------------------------------------------------------------------
(* The invariant holds *)

(* At the start nothing is on its way. *)
LEMMA MatchedInit ==
  ASSUME Init
  PROVE  Matched(<<>>)
<1>1. payloads = <<>> /\ fsmMeta = <<>> /\ drop1 = <<>> /\ drop2 = <<>> /\ fsm = <<>> /\ kept = <<>>
  BY DEF Init
<1>2. Undropped(<<>>) = <<>> /\ Pending(<<>>) = <<>>
  BY DEF Undropped, Pending
<1>3. ~Deciding /\ Len(<<>>) = 0 /\ <<>> \in Seq(Segments)
  BY <1>1 DEF Deciding
<1>4. Joined(<<>>, <<>>, <<>>)
  BY <1>1, <1>3 DEF Joined
<1>5. Accounts(<<>>, <<>>, <<>>, <<>>, <<>>)
  BY <1>1, <1>2, <1>3, <1>4, SelectsEmpty DEF Accounts
<1> QED
  BY <1>3, <1>5 DEF Matched

LEMMA InitHolds ==
  ASSUME SteadyPeer, Init
  PROVE  Inv
<1>1. /\ start \in Starts /\ state = "ESTABLISHED" /\ payloads = <<>> /\ fsmMeta = <<>>
      /\ drop1 = <<>> /\ drop2 = <<>> /\ fsm = <<>> /\ kept = <<>> /\ writes = <<>>
      /\ reads = <<>> /\ statuses = 0 /\ delayed = <<>> /\ notes = <<>> /\ delivered = <<>>
      /\ mem = [a \in 0 .. BufSize - 1 |-> -1]
      /\ sar = [recvd |-> Isn, head |-> Isn, offset |-> 0, gap |-> FALSE, appd |-> Isn % BufSize]
  BY DEF Init
<1>2. Isn \in 0 .. SeqSpace - 1 /\ SeqSpace \in Nat \ {0} /\ BufSize \in Nat \ {0}
      /\ StreamLen \in Nat \ {0} /\ Depth \in Nat \ {0}
  BY <1>1, SizeFacts DEF Isn
<1>3. Isn % BufSize \in 0 .. BufSize - 1
  BY <1>2, ModRange
<1>4. sar \in SarEntry /\ sar.recvd = Isn /\ sar.head = Isn /\ sar.gap = FALSE
      /\ sar.appd = Isn % BufSize
  BY <1>1, <1>2, <1>3 DEF SarEntry
<1>5. mem \in [0 .. BufSize - 1 -> -1 .. StreamLen - 1]
  BY <1>1, <1>2
<1>6. Len(<<>>) = 0 /\ \A S : <<>> \in Seq(S)
  OBVIOUS
<1>7. Types
  <2>1. 0 <= Depth /\ 0 <= 1 /\ 0 \in Nat
    BY <1>2
  <2> QED
    BY <1>1, <1>4, <1>5, <1>6, <2>1 DEF Types
<1>8. StreamDelivered
  BY <1>1 DEF StreamDelivered
<1>9. 0 \in Positions /\ DataEnd(0) = 0
  BY <1>2 DEF Positions, DataEnd
<1>10. Lens(<<>>) = <<>> /\ Waits(<<>>) = <<>>
  BY DEF Lens, Waits
<1>11. AppPos = 0 /\ Total(Lens(notes)) = 0 /\ Total(Lens(delayed)) = 0 /\ Total(Waits(delayed)) = 0
       /\ Sums(Lens(delayed))[0] = 0 /\ Sums(Waits(delayed))[0] = 0
  <2>1. AppPos = 0 + 0
    BY <1>1, <1>6, <1>10, SumsEmpty DEF AppPos
  <2> QED
    BY <1>1, <1>10, <2>1, SumsEmpty
<1>12. SeqNumb(0) = Isn /\ Cell(0) = Isn % BufSize
  <2>1. Isn + 0 = Isn /\ Isn % SeqSpace = Isn
    BY <1>2, ModSmall
  <2> QED
    BY <2>1 DEF SeqNumb, Cell
<1>13. Pointers(0, 0, 0)
  BY <1>1, <1>4, <1>9, <1>11, <1>12 DEF Pointers
<1>14. Windows(<<>>)
  BY <1>1 DEF Windows
<1>15. Pending(<<>>) = <<>>
  BY DEF Pending
<1>16. FifoBuild(<<>>, 0, 0)
  <2>1. FifoOf(<<>>, 0, <<>>)
    BY <1>1, <1>6, <1>9, <1>15, SelectsEmpty DEF FifoOf
  <2> QED
    BY <1>1, <1>4, <1>6, <2>1 DEF FifoBuild
<1>17. RingBuild(<<>>, 0, 0, 0)
  <2>1. GapAt(0, 0, 0)
    BY <1>2, <1>4, <1>11 DEF GapAt
  <2>2. Commands(<<>>)
    BY <1>1, <1>6, <1>11 DEF Commands
  <2>3. NotifiedAt(0) = 0
    BY <1>11 DEF NotifiedAt
  <2>4. Contents(<<>>)
    <3> SUFFICES ASSUME NEW k \in 0 .. Len(delayed), NEW p \in Nat, p < NotifiedAt(k) PROVE FALSE
      BY DEF Contents
    <3>1. k = 0
      BY <1>1, <1>6
    <3> QED
      BY <2>3, <3>1
  <2>5. GapContents(<<>>, 0, 0)
    BY <1>4 DEF GapContents
  <2>6. Unnotified(<<>>)
    BY <1>6 DEF Unnotified
  <2>7. ReadsAt
    BY <1>1, <1>4, <1>6, <1>11, <1>12 DEF ReadsAt
  <2> QED
    BY <2>1, <2>2, <2>4, <2>5, <2>6, <2>7 DEF RingBuild
<1>18. Parts(<<>>, 0, 0, 0)
  BY <1>13, <1>14, <1>16, <1>17, MatchedInit DEF Parts
<1> QED
  BY <1>6, <1>7, <1>8, <1>9, <1>18 DEF Inv

(* A step that changes nothing. *)
LEMMA StutterKeeps ==
  ASSUME Types, NEW C \in Seq(Segments), NEW R \in Positions, NEW H \in Positions,
         NEW O \in Positions, Parts(C, R, H, O), UNCHANGED vars
  PROVE  Types' /\ Parts(C, R, H, O)'
<1>1. UNCHANGED <<start, sar, state, fsm, payloads, fsmMeta, drop1, drop2, kept, writes, reads,
                  delayed, notes, mem, statuses, delivered>>
  BY DEF vars, fifos
<1>2. Types'
  BY <1>1 DEF Types
<1>3. Matched(C)'
  BY <1>1, MatchedSame DEF Parts
<1>4. /\ (DdrBypass => FifoBuild(C, R, H))' /\ (~DdrBypass => RingBuild(C, R, H, O))'
      /\ WindowEdge' = WindowEdge /\ Pointers(R, H, O)'
  BY <1>1, RestSame
<1>5. Windows(C)'
  BY <1>1, <1>4, WindowsSame DEF Parts
<1> QED
  BY <1>2, <1>3, <1>4, <1>5 DEF Parts

(* Every step keeps the invariant. *)
LEMMA NextHolds ==
  ASSUME Inv, [Next]_vars
  PROVE  Inv'
<1>1. SteadyPeer /\ Types /\ StreamDelivered
  BY DEF Inv
<1>2. SteadyPeer'
  BY <1>1 DEF SteadyPeer
<1>3. PICK C \in Seq(Segments), R \in Positions, H \in Positions, O \in Positions : Parts(C, R, H, O)
  BY DEF Inv
<1> DEFINE Kept == \E D \in Seq(Segments), R2, H2, O2 \in Positions : Parts(D, R2, H2, O2)'
<1>4. ASSUME delivered' = delivered PROVE StreamDelivered'
  BY <1>1, <1>4 DEF StreamDelivered
<1>5. Types' /\ StreamDelivered' /\ Kept
  <2>1. CASE \E seg \in Segments, hit \in BOOLEAN : Receive(seg, hit)
    <3>1. PICK seg \in Segments, hit \in BOOLEAN : Receive(seg, hit)
      BY <2>1
    <3>2. Types' /\ Parts(C, R, H, O)'
      BY <1>1, <1>3, <3>1, ReceiveKeeps
    <3>3. delivered' = delivered
      BY <3>1 DEF Receive
    <3> QED
      BY <1>4, <3>2, <3>3
  <2>2. CASE FsmLoad
    <3>1. Types' /\ Parts(C, R, H, O)'
      BY <1>1, <1>3, <2>2, LoadKeeps
    <3>2. delivered' = delivered
      BY <2>2 DEF FsmLoad
    <3> QED
      BY <1>4, <3>1, <3>2
  <2>3. CASE FsmAck \/ FsmFin \/ FsmDefault
    <3>1. Types' /\ delivered' = delivered /\ Kept
      BY <1>1, <1>3, <2>3, FsmKeeps
    <3> QED
      BY <1>4, <3>1
  <2>4. CASE Dropper
    <3>1. Types' /\ Parts(C, R, H, O)'
      BY <1>1, <1>3, <2>4, DropperKeeps
    <3>2. delivered' = delivered
      BY <2>4 DEF Dropper
    <3> QED
      BY <1>4, <3>1, <3>2
  <2>5. CASE MemWrite
    <3>1. Types' /\ \E D \in Seq(Segments) : Parts(D, R, H, O)'
      BY <1>1, <1>3, <2>5, MemWriteKeeps
    <3>2. delivered' = delivered
      BY <2>5 DEF MemWrite
    <3> QED
      BY <1>4, <3>1, <3>2
  <2>6. CASE NotifyWritten
    <3>1. Types' /\ Parts(C, R, H, O)'
      BY <1>1, <1>3, <2>6, NotifyWrittenKeeps
    <3>2. delivered' = delivered
      BY <2>6 DEF NotifyWritten
    <3> QED
      BY <1>4, <3>1, <3>2
  <2>7. CASE NotifyClosed
    <3>1. Types' /\ Parts(C, R, H, O)'
      BY <1>1, <1>3, <2>7, NotifyClosedKeeps
    <3>2. delivered' = delivered
      BY <2>7 DEF NotifyClosed
    <3> QED
      BY <1>4, <3>1, <3>2
  <2>8. CASE AppRead
    <3>1. Types' /\ Parts(C, R, H, O)'
      BY <1>1, <1>3, <2>8, AppReadKeeps
    <3>2. delivered' = delivered
      BY <2>8 DEF AppRead
    <3> QED
      BY <1>4, <3>1, <3>2
  <2>9. CASE MemRead
    BY <1>1, <1>3, <2>9, MemReadKeeps
  <2>10. CASE FifoRead
    BY <1>1, <1>3, <2>10, FifoReadKeeps
  <2>11. CASE UNCHANGED vars
    <3>1. Types' /\ Parts(C, R, H, O)'
      BY <1>1, <1>3, <2>11, StutterKeeps
    <3>2. delivered' = delivered
      BY <2>11 DEF vars
    <3> QED
      BY <1>4, <3>1, <3>2
  <2> QED
    BY <2>1, <2>2, <2>3, <2>4, <2>5, <2>6, <2>7, <2>8, <2>9, <2>10, <2>11 DEF Next
<1>6. (\E D \in Seq(Segments), R2, H2, O2 \in Positions : Parts(D, R2, H2, O2))'
  <2>1. Positions' = Positions
    BY DEF Positions
  <2> QED
    BY <1>5, <2>1
<1> QED
  BY <1>2, <1>5, <1>6 DEF Inv

-----------------------------------------------------------------------------
(* What follows *)

(* As many ones as there are entries, at most. *)
LEMMA BitsBound ==
  ASSUME NEW c \in Seq(Bits)
  PROVE  Total(c) \in Nat /\ Total(c) <= Len(c)
<1> DEFINE e == Sums(c)
           Bad == {n \in Nat : n <= Len(c) /\ ~(e[n] <= n)}
<1>1. c \in Seq(Nat) /\ Len(c) \in Nat /\ \A i \in 1 .. Len(c) : c[i] = 0 \/ c[i] = 1
  BY BitsAreNumbers
<1>2. SumUp(c, e) /\ Total(c) = e[Len(c)] /\ \A n \in 0 .. Len(c) : e[n] \in Nat
  BY <1>1, SumsAre
<1> HIDE DEF e
<1>3. Bad = {}
  <2> SUFFICES ASSUME Bad # {} PROVE FALSE
    OBVIOUS
  <2>1. PICK n \in Bad : \A m \in Bad : n <= m
    BY LeastNumber
  <2>2. n # 0
    BY <1>2, <2>1 DEF SumUp
  <2>3. n \in 1 .. Len(c) /\ n - 1 \in Nat /\ n - 1 <= Len(c) /\ n - 1 \notin Bad
    BY <1>1, <2>1, <2>2
  <2>4. e[n - 1] <= n - 1 /\ e[n - 1] \in Nat
    BY <1>2, <2>3
  <2>5. e[n] = e[n - 1] + c[n] /\ (c[n] = 0 \/ c[n] = 1)
    BY <1>1, <1>2, <2>3 DEF SumUp
  <2> QED
    BY <2>1, <2>4, <2>5
<1> QED
  BY <1>1, <1>2, <1>3

LEMMA Bounded ==
  ASSUME NEW S, NEW q \in Seq(S), Len(q) <= Depth
  PROVE  q \in BoundedSeq(S, Depth)
<1>1. Len(q) \in 0 .. Depth
  BY SizeFacts
<1>2. q \in [1 .. Len(q) -> S]
  OBVIOUS
<1>3. [1 .. Len(q) -> S] \in {[1 .. m -> S] : m \in 0 .. Depth}
  BY <1>1
<1> QED
  BY <1>2, <1>3, Zenon DEF BoundedSeq, SeqOf

(* The data the application has asked for is in order. *)
LEMMA AppBound ==
  ASSUME Types, NEW R \in Positions, NEW H, NEW O, Pointers(R, H, O)
  PROVE  /\ AppPos \in Nat /\ Len(delivered) \in Nat /\ Len(delivered) <= AppPos /\ AppPos <= R
         /\ AppPos <= StreamLen
<1>1. AppPos \in Nat /\ Len(delivered) \in Nat /\ Len(delivered) <= AppPos
      /\ Total(Lens(notes)) \in Nat /\ Total(Lens(delayed)) \in Nat
  BY SumTypes
<1>2. AppPos + Total(Lens(notes)) + Total(Lens(delayed)) = DataEnd(R)
  BY DEF Pointers
<1>3. R \in 0 .. StreamLen + 1 /\ StreamLen \in Nat
  BY SizeFacts DEF Positions
<1>4. DataEnd(R) \in Nat /\ DataEnd(R) <= StreamLen /\ DataEnd(R) <= R
  BY <1>3 DEF DataEnd
<1> QED
  BY <1>1, <1>2, <1>3, <1>4

LEMMA InvTypes ==
  ASSUME Inv
  PROVE  TypeOK
<1>1. Types
  BY DEF Inv
<1>2. PICK C \in Seq(Segments), R \in Positions, H \in Positions, O \in Positions : Parts(C, R, H, O)
  BY DEF Inv
<1>3. \A q \in {payloads, fsmMeta, kept} : q \in BoundedSeq(Segments, Depth)
  BY <1>1, Bounded DEF Types
<1>4. \A q \in {drop1, drop2} : q \in BoundedSeq(BOOLEAN, Depth)
  BY <1>1, Bounded DEF Types
<1>5. \A i \in DOMAIN fsm : fsm[i].seg \in Segments
  <2>1. ASSUME NEW i \in DOMAIN fsm PROVE fsm[i].seg \in Segments
    <3>1. fsm[i] \in FsmEntry
      BY <1>1 DEF Types
    <3> QED
      BY <3>1 DEF FsmEntry
  <2> QED
    BY <2>1
<1>6. statuses \in 0 .. Depth
  <2>1. statuses \in Nat /\ Depth \in Nat /\ Len(C) \in Nat
    BY <1>1, SizeFacts DEF Types
  <2>2. CASE DdrBypass
    <3>1. statuses = 0
      BY <1>2, <2>2 DEF Parts, FifoBuild
    <3> QED
      BY <2>1, <3>1
  <2>3. CASE ~DdrBypass
    <3>1. Total(Waits(delayed)) = statuses + Len(C)
      BY <1>2, <2>3 DEF Parts, RingBuild, Commands
    <3>2. delayed \in Seq(Note) /\ Len(delayed) <= Depth /\ Len(delayed) \in Nat
      BY <1>1 DEF Types
    <3>3. Waits(delayed) \in Seq(Bits) /\ Len(Waits(delayed)) = Len(delayed)
      BY <3>2, WaitsAre
    <3>4. Total(Waits(delayed)) <= Len(delayed)
      BY <3>3, BitsBound
    <3> QED
      BY <2>1, <3>1, <3>2, <3>4
  <2> QED
    BY <2>2, <2>3
<1>7. Len(delivered) <= StreamLen
  <2>1. Pointers(R, H, O)
    BY <1>2 DEF Parts
  <2>2. AppPos \in Nat /\ Len(delivered) \in Nat /\ Len(delivered) <= AppPos /\ AppPos <= StreamLen
    BY <1>1, <2>1, AppBound
  <2> QED
    BY <2>2, SizeFacts
<1> QED
  BY <1>1, <1>3, <1>4, <1>5, <1>6, <1>7 DEF Types, TypeOK, SarEntry

LEMMA InvPointers ==
  ASSUME Inv
  PROVE  PointerOrder
<1>1. Types /\ SteadyPeer
  BY DEF Inv
<1>2. PICK C \in Seq(Segments), R \in Positions, H \in Positions, O \in Positions : Parts(C, R, H, O)
  BY DEF Inv
<1>3. Pointers(R, H, O)
  BY <1>2 DEF Parts
<1>4. sar.recvd = SeqNumb(R) /\ sar.head = SeqNumb(H) /\ (sar.gap => sar.offset = SeqNumb(O))
  BY <1>3 DEF Pointers
<1>5. Pos(SeqNumb(R)) = R /\ Pos(SeqNumb(H)) = H /\ Pos(SeqNumb(O)) = O
  BY <1>1, SeqFacts DEF Positions, Types
<1>6. AppPos <= R
  BY <1>1, <1>3, AppBound
<1>7. Ended <=> R = StreamLen + 1
  BY <1>4, <1>5 DEF Ended
<1>8. CASE DdrBypass
  <2>1. sar.gap = FALSE /\ R = H
    BY <1>2, <1>8 DEF Parts, FifoBuild
  <2> QED
    BY <1>4, <1>5, <1>6, <1>8, <2>1 DEF PointerOrder
<1>9. CASE ~DdrBypass
  <2>1. GapAt(R, H, O)
    BY <1>2, <1>9 DEF Parts, RingBuild
  <2>2. /\ sar.gap => R < O /\ O < H
        /\ ~sar.gap => H = R
        /\ H <= AppPos + BufSize - (IF R = StreamLen + 1 THEN 0 ELSE 1)
    BY <2>1 DEF GapAt
  <2> QED
    BY <1>4, <1>5, <1>6, <1>7, <2>2 DEF PointerOrder
<1> QED
  BY <1>8, <1>9

(* The segment in state TRANSITION counts when it has a payload. *)
LEMMA FsmPending ==
  ASSUME Types
  PROVE  Total(Pending([i \in DOMAIN fsm |-> fsm[i].seg])) = IF Deciding THEN 1 ELSE 0
<1> DEFINE q == [i \in DOMAIN fsm |-> fsm[i].seg]
<1>1. CASE fsm = <<>>
  <2>1. q = <<>>
    BY <1>1
  <2>2. Pending(<<>>) = <<>>
    BY DEF Pending
  <2> HIDE DEF q
  <2>3. Total(Pending(q)) = 0
    BY <2>1, <2>2, SumsEmpty
  <2> QED
    BY <1>1, <2>3 DEF Deciding, q
<1>2. CASE fsm # <<>>
  <2>1. Len(fsm) = 1 /\ fsm[1].seg \in Segments /\ fsm \in Seq(FsmEntry)
    BY <1>2, Loaded DEF Types
  <2>2. DOMAIN fsm = 1 .. 1
    BY <2>1
  <2>3. q \in [1 .. 1 -> Segments] /\ q[1] = fsm[1].seg
    BY <2>1, <2>2
  <2> HIDE DEF q
  <2>4. q \in Seq(Segments) /\ Len(q) = 1
    BY <2>3, FunctionIsSeq
  <2> DEFINE c == Pending(q)
  <2>5. c \in Seq(Bits) /\ Len(c) = 1 /\ c[1] = IF q[1].len # 0 THEN 1 ELSE 0
    BY <2>4, PendingAre
  <2> HIDE DEF c
  <2>6. c \in Seq(Nat)
    BY <2>5, BitsAreNumbers
  <2>7. Total(c) = Sums(c)[1] /\ Sums(c)[0] = 0 /\ \A i \in 1 .. 1 : Sums(c)[i] = Sums(c)[i - 1] + c[i]
    BY <2>5, <2>6, SumsAre DEF SumUp
  <2>8. Sums(c)[1] = Sums(c)[0] + c[1]
    <3>1. 1 \in 1 .. 1 /\ 1 - 1 = 0
      OBVIOUS
    <3> QED
      BY <2>7, <3>1
  <2>9. Total(c) = c[1]
    BY <2>5, <2>7, <2>8
  <2> QED
    BY <1>2, <2>3, <2>5, <2>9 DEF Deciding, q, c
<1> QED
  BY <1>1, <1>2

LEMMA InvDecided ==
  ASSUME Inv
  PROVE  Decided
<1>1. Types
  BY DEF Inv
<1>2. PICK C \in Seq(Segments), R \in Positions, H \in Positions, O \in Positions : Parts(C, R, H, O)
  BY DEF Inv
<1>3. PICK U \in Seq(Segments), D \in Seq(Segments), P \in Seq(Segments), A \in Seq(Segments) :
        Accounts(C, U, D, P, A)
  BY <1>2 DEF Parts, Matched
<1>4. Len(payloads) = Len(drop1) /\ Len(U) = Total(Undropped(drop1))
      /\ Len(P) = Total(Pending(fsmMeta)) /\ Len(D) = Len(drop2)
  BY <1>3 DEF Accounts, Selects, Joined
<1>5. Len(U) = Len(D) + Len(P) + (IF Deciding THEN 1 ELSE 0)
  <2>1. Len(D) \in Nat /\ Len(P) \in Nat
    OBVIOUS
  <2>2. CASE Deciding
    <3>1. Len(U) = Len(D) + 1 + Len(P)
      BY <1>3, <2>2 DEF Accounts, Joined
    <3> QED
      BY <2>1, <2>2, <3>1
  <2>3. CASE ~Deciding
    <3>1. Len(U) = Len(D) + Len(P)
      BY <1>3, <2>3 DEF Accounts, Joined
    <3> QED
      BY <2>1, <2>3, <3>1
  <2> QED
    BY <2>2, <2>3
<1> QED
  BY <1>1, <1>4, <1>5, FsmPending DEF Decided

(* The inductive invariant holds for ever, for every peer that cuts its    *)
(* stream as SteadyPeer says.                                              *)
THEOREM InvHolds == SteadyPeer => (Spec => []Inv)
<1>1. SteadyPeer /\ Init => Inv
  BY InitHolds
<1>2. Inv /\ [Next]_vars => Inv'
  BY NextHolds
<1> QED
  BY <1>1, <1>2, PTL DEF Spec

(* No FIFO of the receive engine is filled beyond its depth, the write     *)
(* statuses are bounded by the delayed notifications, and every byte in    *)
(* the ring buffer is one of the stream.                                   *)
THEOREM TypeCorrect == SteadyPeer => (Spec => []TypeOK)
<1>1. Inv => TypeOK
  BY InvTypes
<1> QED
  BY <1>1, InvHolds, PTL

(* The application receives the peer's bytes in order, none missing and    *)
(* none twice, in both builds: rxTcpFSM's decisions, the dropper, the ring *)
(* buffer and its write statuses, the delayed notifications and            *)
(* rx_app_stream_if agree on every segment, whatever the network reorders  *)
(* or repeats.                                                             *)
THEOREM StreamCorrect == SteadyPeer => (Spec => []StreamDelivered)
<1>1. Inv => StreamDelivered
  BY DEF Inv
<1> QED
  BY <1>1, InvHolds, PTL

(* appd, recvd, offset and head of rx_sar_table keep their order, and head *)
(* never reaches a byte the application has not read.                      *)
THEOREM PointersCorrect == SteadyPeer => (Spec => []PointerOrder)
<1>1. Inv => PointerOrder
  BY InvPointers
<1> QED
  BY <1>1, InvHolds, PTL

(* Every payload before the dropper has its decisions made or a segment on *)
(* its way to rxTcpFSM that will make it.                                  *)
THEOREM DecidedCorrect == SteadyPeer => (Spec => []Decided)
<1>1. Inv => Decided
  BY InvDecided
<1> QED
  BY <1>1, InvHolds, PTL
=============================================================================
