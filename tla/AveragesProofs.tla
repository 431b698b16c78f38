----------------------------- MODULE AveragesProofs -----------------------------
(***************************************************************************)
(* Proofs about the throughput of a connection, for any refresh interval,  *)
(* any sizes of packets, any lateness of the passes and any setting of the *)
(* clock: no byte is lost or counted twice, the speed drawn is the average *)
(* while the passes are in time, and the speed of a connection that has    *)
(* fallen silent goes to zero.                                             *)
(***************************************************************************)
EXTENDS Averages, TLAPS, WellFoundedInduction, SequenceTheorems

(* Induction. *)

\* Induction over the natural numbers, for a set of them.
LEMMA Induct ==
  ASSUME NEW S, 0 \in S, \A n \in Nat : n \in S => n + 1 \in S
  PROVE  Nat \subseteq S
PROOF
  <1> SUFFICES ASSUME Nat \ S # {}  PROVE FALSE
    OBVIOUS
  <1>1. PICK x \in Nat \ S : \A y \in Nat \ S : ~(<<y, x>> \in OpToRel(<, Nat))
    BY NatLessThanWellFounded, WFMin
  <1>2. x \in Nat /\ x # 0 /\ x \notin S
    BY <1>1
  <1>3. x - 1 \in Nat \ S
    BY <1>2
  <1>4. <<x - 1, x>> \in OpToRel(<, Nat)
    BY <1>2, <1>3 DEF OpToRel
  <1> QED
    BY <1>1, <1>3, <1>4

\* A set of natural numbers that is not empty has a least element.
LEMMA Least ==
  ASSUME NEW T, T \subseteq Nat, T # {}
  PROVE  \E x \in T : \A y \in T : x <= y
PROOF
  <1>1. PICK x \in T : \A y \in T : ~(<<y, x>> \in OpToRel(<, Nat))
    BY NatLessThanWellFounded, WFMin
  <1>2. \A y \in T : ~(y < x)
    <2> SUFFICES ASSUME NEW y \in T, y < x  PROVE FALSE
      OBVIOUS
    <2>1. <<y, x>> \in OpToRel(<, Nat)
      BY DEF OpToRel
    <2> QED  BY <1>1, <2>1
  <1> QED
    BY <1>2

-----------------------------------------------------------------------------
(* Sums. *)

\* p is the function of the sums of the first values of f.
Partial(p, f, n) ==
  /\ p \in [0 .. n -> Nat]
  /\ p[0] = 0 /\ \A i \in 1 .. n : p[i] = p[i - 1] + f[i]

\* There is such a function.
LEMMA PartialExists ==
  ASSUME NEW n \in Nat, NEW f, \A i \in 1 .. n : f[i] \in Nat
  PROVE  \E p : Partial(p, f, n)
PROOF
  <1> DEFINE Possible == {m \in Nat : m <= n => \E p : Partial(p, f, m)}
  <1>1. 0 \in Possible
    <2>1. Partial([i \in 0 .. 0 |-> 0], f, 0)
      BY DEF Partial
    <2> QED  BY <2>1
  <1>2. \A m \in Nat : m \in Possible => m + 1 \in Possible
    <2> SUFFICES ASSUME NEW m \in Possible, m + 1 <= n
                 PROVE  \E p : Partial(p, f, m + 1)
      OBVIOUS
    <2>1. PICK p : Partial(p, f, m)
      OBVIOUS
    <2> DEFINE q == [i \in 0 .. m + 1 |-> IF i = m + 1 THEN p[m] + f[m + 1] ELSE p[i]]
    <2>2. m \in Nat /\ m + 1 \in 1 .. n
      OBVIOUS
    <2>3. q \in [0 .. m + 1 -> Nat]
      BY <2>1, <2>2 DEF Partial
    <2>4. q[0] = 0
      BY <2>1, <2>2 DEF Partial
    <2>5. ASSUME NEW i \in 1 .. m + 1  PROVE q[i] = q[i - 1] + f[i]
      <3>1. CASE i = m + 1
        BY <2>2, <3>1
      <3>2. CASE i # m + 1
        <4>1. i \in 1 .. m /\ i - 1 \in 0 .. m + 1 /\ i - 1 # m + 1
          BY <2>2, <3>2
        <4>2. p[i] = p[i - 1] + f[i]
          BY <2>1, <4>1 DEF Partial
        <4>3. q[i] = p[i] /\ q[i - 1] = p[i - 1]
          BY <3>2, <4>1
        <4> QED  BY <4>2, <4>3
      <3> QED  BY <3>1, <3>2
    <2> HIDE DEF q
    <2>6. Partial(q, f, m + 1)
      BY <2>3, <2>4, <2>5 DEF Partial
    <2> QED  BY <2>6
  <1>3. n \in Possible
    BY <1>1, <1>2, Induct
  <1> QED
    BY <1>3

\* SumTo reads its value off such a function.
LEMMA SumIsPartial ==
  ASSUME NEW n \in Nat, NEW f, \A i \in 1 .. n : f[i] \in Nat
  PROVE  \E p : Partial(p, f, n) /\ SumTo(f, n) = p[n]
PROOF
  <1> DEFINE Next1(g) == [i \in 0 .. n |-> IF i = 0 THEN 0 ELSE g[i - 1] + f[i]]
             up == CHOOSE g : g = Next1(g)
  <1>1. PICK p : Partial(p, f, n)
    BY PartialExists
  <1>2. p = Next1(p)
    <2>1. p = [i \in 0 .. n |-> p[i]]
      BY <1>1 DEF Partial
    <2>2. \A i \in 0 .. n : p[i] = Next1(p)[i]
      BY <1>1 DEF Partial
    <2> QED  BY <2>1, <2>2
  <1>3. up = Next1(up)
    <2> HIDE DEF Next1
    <2> QED  BY <1>2
  <1>4. SumTo(f, n) = up[n]
    BY DEF SumTo
  <1> HIDE DEF up
  <1>5. up[0] = 0 /\ \A i \in 1 .. n : up[i] = up[i - 1] + f[i]
    BY <1>3
  <1> DEFINE S == {i \in Nat : i <= n => up[i] \in Nat}
  <1>6. Nat \subseteq S
    <2>1. 0 \in S
      BY <1>5
    <2>2. \A i \in Nat : i \in S => i + 1 \in S
      <3> SUFFICES ASSUME NEW i \in S, i + 1 <= n  PROVE up[i + 1] \in Nat
        OBVIOUS
      <3>1. i + 1 \in 1 .. n /\ (i + 1) - 1 = i /\ up[i] \in Nat
        OBVIOUS
      <3>2. up[i + 1] = up[i] + f[i + 1]
        BY <1>5, <3>1
      <3> QED  BY <3>1, <3>2
    <2> HIDE DEF S
    <2> QED  BY <2>1, <2>2, Induct
  <1>7. up \in [0 .. n -> Nat]
    <2>1. \A i \in 0 .. n : up[i] \in Nat
      BY <1>6
    <2>2. up = [i \in 0 .. n |-> up[i]]
      BY <1>3
    <2> QED  BY <2>1, <2>2
  <1>8. Partial(up, f, n)
    BY <1>5, <1>7 DEF Partial
  <1> QED
    BY <1>4, <1>8

\* It is the only one, so far as the values that are added agree.
LEMMA PartialIsUnique ==
  ASSUME NEW m \in Nat, NEW n \in Nat, NEW f, NEW g, NEW p, NEW q,
         Partial(p, f, m), Partial(q, g, n),
         NEW k \in Nat, k <= m, k <= n, \A i \in 1 .. k : f[i] = g[i]
  PROVE  p[k] = q[k]
PROOF
  <1> DEFINE S == {i \in Nat : i <= k => p[i] = q[i]}
  <1>1. 0 \in S
    BY DEF Partial
  <1>2. \A i \in Nat : i \in S => i + 1 \in S
    <2> SUFFICES ASSUME NEW i \in S, i + 1 <= k  PROVE p[i + 1] = q[i + 1]
      OBVIOUS
    <2>1. /\ i + 1 \in 1 .. m /\ i + 1 \in 1 .. n /\ i + 1 \in 1 .. k
          /\ (i + 1) - 1 = i /\ p[i] = q[i]
      OBVIOUS
    <2>2. p[i + 1] = p[i] + f[i + 1] /\ q[i + 1] = q[i] + g[i + 1]
      BY <2>1 DEF Partial
    <2> QED  BY <2>1, <2>2
  <1>3. Nat \subseteq S
    <2> HIDE DEF S
    <2> QED  BY <1>1, <1>2, Induct
  <1> QED
    BY <1>3

\* The rules for sums.
LEMMA SumZero ==
  ASSUME NEW f  PROVE SumTo(f, 0) = 0
PROOF
  <1>1. \A i \in 1 .. 0 : f[i] \in Nat
    OBVIOUS
  <1>2. PICK p : Partial(p, f, 0) /\ SumTo(f, 0) = p[0]
    BY <1>1, SumIsPartial
  <1> QED
    BY <1>2 DEF Partial

LEMMA SumStep ==
  ASSUME NEW n \in Nat, NEW f, \A i \in 1 .. n + 1 : f[i] \in Nat
  PROVE  /\ SumTo(f, n) \in Nat
         /\ SumTo(f, n + 1) = SumTo(f, n) + f[n + 1]
PROOF
  <1>1. PICK p : Partial(p, f, n) /\ SumTo(f, n) = p[n]
    BY SumIsPartial
  <1>2. PICK q : Partial(q, f, n + 1) /\ SumTo(f, n + 1) = q[n + 1]
    BY SumIsPartial
  <1>3. p[n] = q[n]
    BY <1>1, <1>2, PartialIsUnique
  <1>4. p[n] \in Nat
    BY <1>1 DEF Partial
  <1>5. q[n + 1] = q[n] + f[n + 1]
    <2>1. n + 1 \in 1 .. n + 1 /\ (n + 1) - 1 = n
      OBVIOUS
    <2> QED  BY <1>2, <2>1 DEF Partial
  <1> QED
    BY <1>1, <1>2, <1>3, <1>4, <1>5

LEMMA SumType ==
  ASSUME NEW n \in Nat, NEW f, \A i \in 1 .. n : f[i] \in Nat
  PROVE  SumTo(f, n) \in Nat
PROOF
  <1>1. PICK p : Partial(p, f, n) /\ SumTo(f, n) = p[n]
    BY SumIsPartial
  <1> QED
    BY <1>1 DEF Partial

LEMMA SumSame ==
  ASSUME NEW n \in Nat, NEW f, NEW g,
         \A i \in 1 .. n : f[i] \in Nat /\ g[i] = f[i]
  PROVE  SumTo(f, n) = SumTo(g, n)
PROOF
  <1>1. PICK p : Partial(p, f, n) /\ SumTo(f, n) = p[n]
    BY SumIsPartial
  <1>2. PICK q : Partial(q, g, n) /\ SumTo(g, n) = q[n]
    BY SumIsPartial
  <1>3. p[n] = q[n]
    BY <1>1, <1>2, PartialIsUnique
  <1> QED
    BY <1>1, <1>2, <1>3

\* A sum of zeros, and the sum of two functions.
LEMMA SumOfNothing ==
  ASSUME NEW n \in Nat, NEW f, \A i \in 1 .. n : f[i] = 0
  PROVE  SumTo(f, n) = 0
PROOF
  <1> DEFINE S == {k \in Nat : k <= n => SumTo(f, k) = 0}
  <1>1. 0 \in S
    BY SumZero
  <1>2. \A k \in Nat : k \in S => k + 1 \in S
    <2> SUFFICES ASSUME NEW k \in S, k + 1 <= n  PROVE SumTo(f, k + 1) = 0
      OBVIOUS
    <2>1. k \in Nat /\ SumTo(f, k) = 0 /\ f[k + 1] = 0 /\ \A i \in 1 .. k + 1 : f[i] \in Nat
      OBVIOUS
    <2>2. SumTo(f, k + 1) = SumTo(f, k) + f[k + 1]
      BY <2>1, SumStep
    <2> QED  BY <2>1, <2>2
  <1>3. Nat \subseteq S
    <2> HIDE DEF S
    <2> QED  BY <1>1, <1>2, Induct
  <1> QED
    BY <1>3

LEMMA SumPlus ==
  ASSUME NEW n \in Nat, NEW f, NEW g, NEW h,
         \A i \in 1 .. n : f[i] \in Nat /\ g[i] \in Nat /\ h[i] = f[i] + g[i]
  PROVE  SumTo(h, n) = SumTo(f, n) + SumTo(g, n)
PROOF
  <1> DEFINE S == {k \in Nat : k <= n => SumTo(h, k) = SumTo(f, k) + SumTo(g, k)}
  <1>1. 0 \in S
    BY SumZero
  <1>2. \A k \in Nat : k \in S => k + 1 \in S
    <2> SUFFICES ASSUME NEW k \in S, k + 1 <= n
                 PROVE  SumTo(h, k + 1) = SumTo(f, k + 1) + SumTo(g, k + 1)
      OBVIOUS
    <2>1. k \in Nat /\ k + 1 \in 1 .. n /\ SumTo(h, k) = SumTo(f, k) + SumTo(g, k)
      OBVIOUS
    <2>2. \A i \in 1 .. k + 1 : f[i] \in Nat /\ g[i] \in Nat /\ h[i] \in Nat
      BY <2>1
    <2>3. SumTo(f, k + 1) = SumTo(f, k) + f[k + 1] /\ SumTo(f, k) \in Nat
      BY <2>1, <2>2, SumStep
    <2>4. SumTo(g, k + 1) = SumTo(g, k) + g[k + 1] /\ SumTo(g, k) \in Nat
      BY <2>1, <2>2, SumStep
    <2>5. SumTo(h, k + 1) = SumTo(h, k) + h[k + 1]
      BY <2>1, <2>2, SumStep
    <2> QED  BY <2>1, <2>2, <2>3, <2>4, <2>5
  <1>3. Nat \subseteq S
    <2> HIDE DEF S
    <2> QED  BY <1>1, <1>2, Induct
  <1> QED
    BY <1>3

-----------------------------------------------------------------------------
(* Remainders. *)

\* A number that is split into a multiple and a remainder.
LEMMA ModIs ==
  ASSUME NEW W \in Nat \ {0}, NEW q \in Int, NEW r \in 0 .. W - 1, NEW a \in Int,
         a = W * q + r
  PROVE  a % W = r
  OBVIOUS

\* Products, which the provers do not multiply out.
LEMMA Distribute ==
  ASSUME NEW x \in Int, NEW y \in Int, NEW z \in Int
  PROVE  x * (y + z) = x * y + x * z /\ x * y \in Int /\ x * z \in Int
  OBVIOUS

\* Every number can be split so.
LEMMA Division ==
  ASSUME NEW a \in Nat, NEW W \in Nat \ {0}
  PROVE  a % W \in 0 .. W - 1 /\ \E q \in Int : a = W * q + (a % W)
PROOF
  <1> DEFINE Splits(x) == \E q \in Int, r \in 0 .. W - 1 : x = W * q + r
             S == {x \in Nat : Splits(x)}
  <1>1. Splits(0)
    <2>1. 0 \in Int /\ 0 \in 0 .. W - 1 /\ 0 = W * 0 + 0
      OBVIOUS
    <2> QED  BY <2>1
  <1>2. ASSUME NEW x \in Nat, Splits(x)  PROVE Splits(x + 1)
    <2>1. PICK q \in Int, r \in 0 .. W - 1 : x = W * q + r
      BY <1>2
    <2>2. CASE r = W - 1
      <3>1. W * (q + 1) = W * q + W
        OBVIOUS
      <3>2. q + 1 \in Int /\ 0 \in 0 .. W - 1 /\ x + 1 = W * (q + 1) + 0
        BY <2>1, <2>2, <3>1
      <3> QED  BY <3>2
    <2>3. CASE r # W - 1
      <3>1. r + 1 \in 0 .. W - 1 /\ x + 1 = W * q + (r + 1)
        BY <2>1, <2>3
      <3> QED  BY <3>1
    <2> QED  BY <2>2, <2>3
  <1>3. Splits(a)
    <2> HIDE DEF Splits
    <2>1. 0 \in S /\ \A x \in Nat : x \in S => x + 1 \in S
      BY <1>1, <1>2
    <2> HIDE DEF S
    <2>2. Nat \subseteq S
      BY <2>1, Induct
    <2> QED  BY <2>2 DEF S
  <1>4. PICK q \in Int, r \in 0 .. W - 1 : a = W * q + r
    BY <1>3
  <1>5. a % W = r
    BY <1>4, ModIs
  <1> QED
    BY <1>4, <1>5

\* What is reduced before it is added is as good as what is not.
LEMMA ModAdd ==
  ASSUME NEW a \in Nat, NEW b \in Nat, NEW W \in Nat \ {0}
  PROVE  ((a % W) + b) % W = (a + b) % W
PROOF
  <1>1. PICK q \in Int : a = W * q + (a % W)
    BY Division
  <1> DEFINE r == a % W
             m == (r + b) % W
  <1>2. r \in Nat
    BY Division
  <1>3. PICK s \in Int : r + b = W * s + m /\ m \in 0 .. W - 1
    <2>1. r + b \in Nat
      BY <1>2
    <2> HIDE DEF r
    <2> QED  BY <2>1, Division
  <1>4. a = W * q + r
    BY <1>1
  <1> HIDE DEF r, m
  <1>5. a + b = W * (q + s) + m
    BY <1>2, <1>3, <1>4, Distribute
  <1>6. (a + b) % W = m
    <2> DEFINE t == q + s
               c == a + b
    <2>1. t \in Int /\ c \in Int /\ c = W * t + m
      BY <1>5
    <2> HIDE DEF t, c
    <2>2. c % W = m
      BY <1>3, <2>1, ModIs
    <2> QED  BY <2>2 DEF c
  <1> QED
    BY <1>6 DEF m, r

-----------------------------------------------------------------------------
(* The constants, the entries and the arrivals. *)

Entries == [ts : Nat, size : 0 .. Word - 1]
Arrivals == [at : Nat, size : Nat, moved : Nat]

LEMMA Constants ==
  /\ Second \in Nat \ {0} /\ MinIntvl \in Nat \ {0} /\ MaxIntvl \in Nat \ {0}
  /\ Word \in Nat \ {0} /\ LongWord \in Nat \ {0} /\ Epoch \in Nat \ {0}
  /\ Slack \in Nat /\ Setback \in Nat /\ MaxPackets \in Nat /\ MaxKeys \in Nat
  /\ MaxSets \in Nat /\ MaxTime \in Nat /\ Sizes \subseteq Nat
  /\ MinIntvl <= Second /\ Second <= MaxIntvl
  /\ Setback * MaxSets \in Nat /\ Epoch > Setback * MaxSets
  /\ 3 * Second + MaxIntvl <= LongWord
  /\ Window \in Nat /\ Never \in Nat /\ Never = MaxTime + 1
PROOF
  <1>1. /\ Second \in Nat \ {0} /\ MinIntvl \in Nat \ {0} /\ MaxIntvl \in Nat \ {0}
        /\ Word \in Nat \ {0} /\ LongWord \in Nat \ {0} /\ Epoch \in Nat \ {0}
        /\ Slack \in Nat /\ Setback \in Nat /\ MaxPackets \in Nat /\ MaxKeys \in Nat
        /\ MaxSets \in Nat /\ MaxTime \in Nat /\ Sizes \subseteq Nat
    BY Zenon, AveragesAssumption
  <1>2. Setback * MaxSets \in Nat
    BY <1>1
  <1>3. Epoch > Setback * MaxSets + 3 * Second /\ MinIntvl <= Second
        /\ Second <= MaxIntvl /\ 3 * Second + MaxIntvl <= LongWord
    BY AveragesAssumption
  <1>4. Epoch > Setback * MaxSets
    BY <1>1, <1>2, <1>3
  <1> QED
    BY <1>1, <1>2, <1>3, <1>4 DEF Window, Never

\* The sizes in avgstack, and the bytes of the arrivals arr that were moved at
\* one of times.
SizesOf(s) == [i \in 1 .. Len(s) |-> s[i].size]
BytesIn(arr, times) ==
  SumTo([i \in 1 .. Len(arr) |-> IF arr[i].moved \in times THEN arr[i].size ELSE 0], Len(arr))

LEMMA Fields ==
  ASSUME NEW arr \in Seq(Arrivals)
  PROVE  /\ Len(arr) \in Nat
         /\ \A i \in 1 .. Len(arr) :
              arr[i].at \in Nat /\ arr[i].size \in Nat /\ arr[i].moved \in Nat
PROOF
  <1>1. ASSUME NEW i \in 1 .. Len(arr)  PROVE arr[i] \in Arrivals
    OBVIOUS
  <1>2. \A a \in Arrivals : a.at \in Nat /\ a.size \in Nat /\ a.moved \in Nat
    BY DEF Arrivals
  <1> QED
    BY <1>1, <1>2

LEMMA BytesType ==
  ASSUME NEW arr \in Seq(Arrivals), NEW times
  PROVE  BytesIn(arr, times) \in Nat
PROOF
  <1> DEFINE f == [i \in 1 .. Len(arr) |-> IF arr[i].moved \in times THEN arr[i].size ELSE 0]
  <1>1. Len(arr) \in Nat /\ \A i \in 1 .. Len(arr) : f[i] \in Nat
    BY Fields
  <1> HIDE DEF f
  <1>2. SumTo(f, Len(arr)) \in Nat
    BY <1>1, SumType
  <1> QED
    BY <1>2 DEF f, BytesIn

\* Two histories that agree on what was moved when.
LEMMA BytesSame ==
  ASSUME NEW arr \in Seq(Arrivals), NEW brr \in Seq(Arrivals), NEW T, NEW U,
         Len(arr) = Len(brr),
         \A i \in 1 .. Len(arr) : /\ arr[i].size = brr[i].size
                                  /\ arr[i].moved \in T <=> brr[i].moved \in U
  PROVE  BytesIn(arr, T) = BytesIn(brr, U)
PROOF
  <1> DEFINE f == [i \in 1 .. Len(arr) |-> IF arr[i].moved \in T THEN arr[i].size ELSE 0]
             g == [i \in 1 .. Len(brr) |-> IF brr[i].moved \in U THEN brr[i].size ELSE 0]
  <1>1. Len(arr) \in Nat /\ \A i \in 1 .. Len(arr) : f[i] \in Nat /\ g[i] = f[i]
    BY Fields
  <1> HIDE DEF f, g
  <1>2. SumTo(f, Len(arr)) = SumTo(g, Len(arr))
    BY <1>1, SumSame
  <1> QED
    BY <1>2 DEF f, g, BytesIn

\* Nothing was moved then.
LEMMA BytesNone ==
  ASSUME NEW arr \in Seq(Arrivals), NEW T,
         \A i \in 1 .. Len(arr) : arr[i].moved \notin T
  PROVE  BytesIn(arr, T) = 0
PROOF
  <1> DEFINE f == [i \in 1 .. Len(arr) |-> IF arr[i].moved \in T THEN arr[i].size ELSE 0]
  <1>1. Len(arr) \in Nat /\ \A i \in 1 .. Len(arr) : f[i] = 0
    OBVIOUS
  <1> HIDE DEF f
  <1>2. SumTo(f, Len(arr)) = 0
    BY <1>1, SumOfNothing
  <1> QED
    BY <1>2 DEF f, BytesIn

\* What was moved at one time or another.
LEMMA BytesUnion ==
  ASSUME NEW arr \in Seq(Arrivals), NEW T, NEW U, T \cap U = {}
  PROVE  BytesIn(arr, T \cup U) = BytesIn(arr, T) + BytesIn(arr, U)
PROOF
  <1> DEFINE f == [i \in 1 .. Len(arr) |-> IF arr[i].moved \in T THEN arr[i].size ELSE 0]
             g == [i \in 1 .. Len(arr) |-> IF arr[i].moved \in U THEN arr[i].size ELSE 0]
             h == [i \in 1 .. Len(arr) |-> IF arr[i].moved \in T \cup U THEN arr[i].size ELSE 0]
  <1>1. /\ Len(arr) \in Nat
        /\ \A i \in 1 .. Len(arr) : f[i] \in Nat /\ g[i] \in Nat /\ h[i] = f[i] + g[i]
    BY Fields
  <1> HIDE DEF f, g, h
  <1>2. SumTo(h, Len(arr)) = SumTo(f, Len(arr)) + SumTo(g, Len(arr))
    BY <1>1, SumPlus
  <1> QED
    BY <1>2 DEF f, g, h, BytesIn

\* A packet more.
LEMMA BytesAppend ==
  ASSUME NEW arr \in Seq(Arrivals), NEW a \in Arrivals, NEW T
  PROVE  BytesIn(Append(arr, a), T) = BytesIn(arr, T) + IF a.moved \in T THEN a.size ELSE 0
PROOF
  <1> DEFINE brr == Append(arr, a)
             n == Len(arr)
             f == [i \in 1 .. Len(arr) |-> IF arr[i].moved \in T THEN arr[i].size ELSE 0]
             g == [i \in 1 .. Len(brr) |-> IF brr[i].moved \in T THEN brr[i].size ELSE 0]
  <1>1. /\ n \in Nat /\ Len(brr) = n + 1 /\ brr \in Seq(Arrivals)
        /\ brr[n + 1] = a /\ \A i \in 1 .. n : brr[i] = arr[i]
    OBVIOUS
  <1>2. \A i \in 1 .. n : f[i] \in Nat /\ g[i] = f[i]
    BY <1>1, Fields
  <1>3. g[n + 1] = IF a.moved \in T THEN a.size ELSE 0
    BY <1>1
  <1>4. \A i \in 1 .. n + 1 : g[i] \in Nat
    <2>1. a.size \in Nat
      BY DEF Arrivals
    <2> QED  BY <1>1, <1>2, <1>3, <2>1
  <1>5. BytesIn(brr, T) = SumTo(g, n + 1) /\ BytesIn(arr, T) = SumTo(f, n)
    BY <1>1 DEF BytesIn
  <1> HIDE DEF f, g, n, brr
  <1>6. SumTo(g, n + 1) = SumTo(g, n) + g[n + 1] /\ SumTo(g, n) = SumTo(f, n)
    BY <1>1, <1>2, <1>4, SumStep, SumSame
  <1> QED
    BY <1>3, <1>5, <1>6 DEF brr

\* The total is the bytes of all packets, whenever they were moved.
LEMMA TotalAppend ==
  ASSUME NEW arr \in Seq(Arrivals), NEW a \in Arrivals
  PROVE  /\ SumOfSizes(arr) \in Nat
         /\ SumOfSizes(Append(arr, a)) = SumOfSizes(arr) + a.size
PROOF
  <1>1. ASSUME NEW brr \in Seq(Arrivals)  PROVE SumOfSizes(brr) = BytesIn(brr, Nat)
    <2>1. ASSUME NEW i \in 1 .. Len(brr)  PROVE brr[i].moved \in Nat
      BY <1>1, Fields
    <2> DEFINE f == [i \in 1 .. Len(brr) |-> IF brr[i].moved \in Nat THEN brr[i].size ELSE 0]
    <2>2. f = [i \in 1 .. Len(brr) |-> brr[i].size]
      BY <2>1
    <2> QED  BY <2>2 DEF SumOfSizes, BytesIn
  <1>2. BytesIn(Append(arr, a), Nat) = BytesIn(arr, Nat) + a.size
    <2>1. a.moved \in Nat
      BY DEF Arrivals
    <2> QED  BY <2>1, BytesAppend
  <1>3. Append(arr, a) \in Seq(Arrivals)
    OBVIOUS
  <1> QED
    BY <1>1, <1>2, <1>3, BytesType

-----------------------------------------------------------------------------
(* The inductive invariant. *)

\* The times: the maintenance thread wakes up an interval after the last pass
\* and may be late, and the clock is where it would be but for the settings.
Clocks ==
  /\ now \in 0 .. MaxTime /\ sets \in 0 .. MaxSets
  /\ clock \in Int
  /\ intvl \in MinIntvl .. MaxIntvl /\ wake \in Nat
  /\ last \in 0 .. now /\ setAt \in 0 .. now
  /\ last < wake /\ wake <= last + MaxIntvl /\ now <= wake + Slack
Ahead == clock >= Epoch + now - Setback * sets

Counters ==
  /\ total \in Nat /\ pending \in 0 .. Word - 1 /\ rate \in Nat
  /\ avgstack \in Seq(Entries)
  /\ arrivals \in Seq(Arrivals) /\ Len(arrivals) > 0

\* A packet has come in and waits for a pass, or one has moved its bytes.
Moved ==
  \A i \in 1 .. Len(arrivals) :
    /\ arrivals[i].at <= now
    /\ arrivals[i].moved = Never \/ arrivals[i].moved <= last

\* The time of the pass that made an entry, if the clock was not set since.
PassedAt(k) == avgstack[k].ts - (clock - now)

\* While nobody has set the clock: the counter holds the bytes of the packets
\* that wait, each entry those that its pass moved, the entries lie within the
\* window, newest first, and every pass in the window that moved something has
\* its entry.
Totals ==
  sets = 0 => /\ total = SumOfSizes(arrivals)
              /\ pending = BytesIn(arrivals, {Never}) % Word
Marked ==
  sets = 0 => \A k \in 1 .. Len(avgstack) :
    /\ PassedAt(k) \in 0 .. last /\ PassedAt(k) > last - Window
    /\ avgstack[k].size = BytesIn(arrivals, {PassedAt(k)}) % Word
Descending ==
  sets = 0 => \A j, k \in 1 .. Len(avgstack) : j < k => PassedAt(k) < PassedAt(j)
Listed ==
  sets = 0 => \A i \in 1 .. Len(arrivals) :
    arrivals[i].moved # Never /\ arrivals[i].moved > last - Window
      => \E k \in 1 .. Len(avgstack) : PassedAt(k) = arrivals[i].moved

\* Once a pass has come after the last packet and the last setting of the
\* clock, nothing waits, no entry is older than the window, and what has bytes
\* is not newer than the first such pass: it is that entry or behind it.
Calm ==
  last > LastChange =>
    /\ pending = 0
    /\ \A k \in 1 .. Len(avgstack) :
         /\ PassedAt(k) > last - Window
         /\ avgstack[k].size # 0 =>
              \E j \in 1 .. k : PassedAt(j) <= LastChange + MaxIntvl + Slack

IInv == /\ Clocks /\ Ahead /\ Counters /\ Moved
        /\ Totals /\ Marked /\ Descending /\ Listed /\ Calm


\* A product of natural numbers grows with its factors.
LEMMA Grows ==
  ASSUME NEW x \in Nat, NEW y \in Nat, NEW z \in Nat, y <= z
  PROVE  x * y <= x * z
PROOF
  <1>1. x * (z - y) \in Nat
    OBVIOUS
  <1>2. x * z = x * y + x * (z - y)
    OBVIOUS
  <1> QED
    BY <1>1, <1>2

LEMMA ClockIsNatural == Clocks /\ Ahead => clock \in Nat
PROOF
  <1> SUFFICES ASSUME Clocks, Ahead  PROVE clock \in Nat
    OBVIOUS
  <1>1. Setback * sets <= Setback * MaxSets /\ Setback * sets \in Nat
    BY Constants, Grows DEF Clocks
  <1>2. clock >= Epoch + now - Setback * sets
    BY DEF Ahead
  <1>3. clock \in Int /\ now \in Nat
    BY DEF Clocks
  <1> QED
    BY <1>1, <1>2, <1>3, Constants

\* The maintenance thread sleeps, for an interval at most.
LEMMA Sleeps ==
  ASSUME NEW t \in Int, intvl \in Nat \ {0}
  PROVE  SleepTime(t) \in 1 .. intvl
  BY DEF SleepTime

LEMMA IntervalIsPositive == Clocks => intvl \in Nat \ {0} /\ intvl <= MaxIntvl
  BY Constants DEF Clocks

\* What a pass does to the times.
LEMMA PassTimes ==
  ASSUME Pass
  PROVE  /\ now >= wake /\ wake' = now + SleepTime(clock) /\ last' = now /\ pending' = 0
         /\ UNCHANGED <<now, clock, intvl, total, rate, keys, sets, setAt>>
  BY Zenon DEF Pass

\* What is left of avgstack are the entries in front of the first that is too old.
LEMMA PurgeFacts ==
  ASSUME NEW s \in Seq(Entries), clock \in Int
  PROVE  LET p == PurgeAvgStack(s)
         IN  /\ p \in Seq(Entries) /\ Len(p) <= Len(s)
             /\ \A i \in 1 .. Len(p) : p[i] = s[i] /\ s[i].ts > clock - Window
             /\ Len(p) < Len(s) => s[Len(p) + 1].ts <= clock - Window
PROOF
  <1> DEFINE p == PurgeAvgStack(s)
             old == {i \in 1 .. Len(s) : s[i].ts <= clock - Window}
             first == CHOOSE i \in old : \A j \in old : i <= j
  <1>1. Len(s) \in Nat /\ \A i \in 1 .. Len(s) : s[i].ts \in Nat
    <2>1. \A i \in 1 .. Len(s) : s[i] \in Entries
      OBVIOUS
    <2> QED  BY <2>1 DEF Entries
  <1>2. CASE old = {}
    <2>1. p = s
      BY <1>2 DEF PurgeAvgStack
    <2> QED  BY <1>1, <1>2, <2>1, Constants
  <1>3. CASE old # {}
    <2>1. first \in old /\ \A j \in old : first <= j
      <3>1. old \subseteq Nat
        OBVIOUS
      <3>2. \E x \in old : \A y \in old : x <= y
        <4> HIDE DEF old
        <4> QED  BY <1>3, <3>1, Least
      <3> QED  BY <3>2
    <2>2. p = SubSeq(s, 1, first - 1)
      BY <1>3 DEF PurgeAvgStack
    <2>3. first \in 1 .. Len(s) /\ s[first].ts <= clock - Window
      BY <2>1
    <2>4. \A i \in 1 .. first - 1 : s[i].ts > clock - Window
      <3> SUFFICES ASSUME NEW i \in 1 .. first - 1, ~(s[i].ts > clock - Window)
                   PROVE  FALSE
        OBVIOUS
      <3>1. i \in 1 .. Len(s) /\ s[i].ts <= clock - Window
        BY <1>1, <2>3, Constants
      <3>2. first <= i
        BY <2>1, <3>1
      <3> QED  BY <2>3, <3>2
    <2> HIDE DEF first, old, p
    <2>5. p \in Seq(Entries) /\ Len(p) = first - 1 /\ \A i \in 1 .. Len(p) : p[i] = s[i]
      BY <1>1, <2>2, <2>3
    <2>6. Len(p) + 1 = first
      BY <2>3, <2>5
    <2> QED  BY <1>1, <2>3, <2>4, <2>5, <2>6 DEF p
  <1> QED
    BY <1>2, <1>3

\* What a pass does to avgstack.
LEMMA PassStacks ==
  ASSUME Clocks, Ahead, Counters, Pass
  PROVE  /\ avgstack' \in Seq(Entries) /\ Len(avgstack') \in 1 .. Len(avgstack) + 1
         /\ avgstack'[1].ts = clock /\ avgstack'[1].size = pending
         /\ \A k \in 2 .. Len(avgstack') :
              /\ k - 1 \in 1 .. Len(avgstack) /\ avgstack'[k] = avgstack[k - 1]
              /\ avgstack[k - 1].ts > clock - Window
         /\ Len(avgstack') <= Len(avgstack) =>
              avgstack[Len(avgstack')].ts <= clock - Window
PROOF
  <1> DEFINE e == [ts |-> clock, size |-> pending]
             p == PurgeAvgStack(avgstack)
  <1>1. e \in Entries /\ avgstack \in Seq(Entries) /\ clock \in Int
    BY ClockIsNatural DEF Counters, Entries
  <1>2. /\ p \in Seq(Entries) /\ Len(p) <= Len(avgstack)
        /\ \A i \in 1 .. Len(p) : p[i] = avgstack[i] /\ avgstack[i].ts > clock - Window
        /\ Len(p) < Len(avgstack) => avgstack[Len(p) + 1].ts <= clock - Window
    BY <1>1, PurgeFacts
  <1>3. avgstack' = <<e>> \o p
    BY DEF Pass
  <1>4. e.ts = clock /\ e.size = pending
    OBVIOUS
  <1> HIDE DEF p, e
  <1>5. /\ avgstack' \in Seq(Entries) /\ Len(avgstack') = Len(p) + 1
        /\ avgstack'[1] = e
        /\ \A k \in 2 .. Len(avgstack') : avgstack'[k] = p[k - 1]
    BY <1>1, <1>2, <1>3
  <1>6. Len(p) \in Nat /\ Len(avgstack) \in Nat
    BY <1>1, <1>2
  <1>7. ASSUME NEW k \in 2 .. Len(avgstack')
        PROVE  /\ k - 1 \in 1 .. Len(avgstack) /\ avgstack'[k] = avgstack[k - 1]
               /\ avgstack[k - 1].ts > clock - Window
    <2>1. k - 1 \in 1 .. Len(p)
      BY <1>5, <1>6
    <2> QED  BY <1>2, <1>5, <1>6, <2>1
  <1> QED
    BY <1>2, <1>4, <1>5, <1>6, <1>7

\* What it does to the history of the packets.
LEMMA PassMoves ==
  ASSUME Clocks, Counters, Moved, Pass
  PROVE  /\ now > last /\ now \in Nat
         /\ arrivals' \in Seq(Arrivals) /\ Len(arrivals') = Len(arrivals)
         /\ \A i \in 1 .. Len(arrivals) :
              /\ arrivals'[i].size = arrivals[i].size /\ arrivals'[i].at = arrivals[i].at
              /\ arrivals[i].moved = Never => arrivals'[i].moved = now
              /\ arrivals[i].moved # Never => /\ arrivals'[i].moved = arrivals[i].moved
                                              /\ arrivals[i].moved <= last
PROOF
  <1>1. now > last /\ now \in Nat /\ last \in Nat
    BY PassTimes DEF Clocks
  <1>2. Len(arrivals) \in Nat /\ \A i \in 1 .. Len(arrivals) : arrivals[i] \in Arrivals
    BY DEF Counters
  <1> DEFINE b(i) == IF arrivals[i].moved = Never THEN [arrivals[i] EXCEPT !.moved = now]
                                                  ELSE arrivals[i]
  <1>3. arrivals' = [i \in 1 .. Len(arrivals) |-> b(i)]
    BY DEF Pass
  <1>4. ASSUME NEW i \in 1 .. Len(arrivals)
        PROVE  /\ b(i) \in Arrivals
               /\ b(i).size = arrivals[i].size /\ b(i).at = arrivals[i].at
               /\ arrivals[i].moved = Never => b(i).moved = now
               /\ arrivals[i].moved # Never => b(i).moved = arrivals[i].moved
    BY <1>1, <1>2 DEF Arrivals
  <1> HIDE DEF b
  <1>5. arrivals' \in Seq(Arrivals) /\ Len(arrivals') = Len(arrivals)
    BY <1>2, <1>3, <1>4
  <1>6. \A i \in 1 .. Len(arrivals) : arrivals'[i] = b(i)
    BY <1>3
  <1> QED
    BY <1>1, <1>4, <1>5, <1>6 DEF Moved

-----------------------------------------------------------------------------
(* Each part of the invariant is kept. *)

LEMMA InitIInv == Init => IInv
PROOF
  <1> SUFFICES ASSUME Init  PROVE IInv
    OBVIOUS
  <1>1. clock \in Nat /\ clock >= Epoch /\ now = 0 /\ sets = 0 /\ last = 0 /\ setAt = 0
    BY Constants DEF Init
  <1>2. Setback * sets = 0
    BY <1>1, Constants
  <1>3. wake \in 1 .. MaxIntvl
    <2>1. intvl = Second /\ wake = SleepTime(clock)
      BY DEF Init
    <2>2. SleepTime(clock) \in 1 .. Second
      <3>1. clock \in Int /\ intvl \in Nat \ {0}
        BY <1>1, <2>1, Constants
      <3>2. SleepTime(clock) \in 1 .. intvl
        BY <3>1, Sleeps
      <3> QED  BY <2>1, <3>2
    <2> QED  BY <2>1, <2>2, Constants
  <1>4. Clocks /\ Ahead
    BY <1>1, <1>2, <1>3, Constants DEF Init, Clocks, Ahead
  <1>5. PICK n \in Sizes : /\ total = n /\ pending = n % Word
                           /\ arrivals = <<[at |-> 0, size |-> n, moved |-> Never]>>
    BY DEF Init
  <1> DEFINE a == [at |-> 0, size |-> n, moved |-> Never]
  <1>6. a \in Arrivals /\ a.size = n /\ a.moved = Never /\ a.at = 0
    BY Constants DEF Arrivals
  <1>7. arrivals = Append(<<>>, a) /\ avgstack = <<>> /\ <<>> \in Seq(Arrivals)
    BY <1>5 DEF Init
  <1> HIDE DEF a
  <1>8. arrivals \in Seq(Arrivals) /\ Len(arrivals) = 1 /\ arrivals[1] = a
    BY <1>6, <1>7
  <1>9. Counters
    <2>1. n \in Nat /\ n % Word \in 0 .. Word - 1
      BY Constants, Division
    <2>2. avgstack \in Seq(Entries)
      BY <1>7
    <2> QED  BY <1>5, <1>8, <2>1, <2>2 DEF Init, Counters
  <1>10. Moved
    BY <1>1, <1>6, <1>8 DEF Moved
  <1>11. Totals
    <2>1. BytesIn(<<>>, {Never}) = 0 /\ SumOfSizes(<<>>) = 0
      BY SumZero DEF BytesIn, SumOfSizes
    <2>2. BytesIn(arrivals, {Never}) = 0 + a.size
      BY <1>6, <1>7, <2>1, BytesAppend
    <2>3. SumOfSizes(arrivals) = 0 + a.size
      BY <1>6, <1>7, <2>1, TotalAppend
    <2>4. n \in Nat
      BY Constants
    <2> QED  BY <1>5, <1>6, <2>2, <2>3, <2>4 DEF Totals
  <1>12. Marked /\ Descending
    BY <1>7 DEF Marked, Descending
  <1>13. Listed
    BY <1>6, <1>8 DEF Listed
  <1>14. Calm
    <2>1. LastChange = 0
      BY <1>1, <1>6, <1>8 DEF LastChange
    <2> QED  BY <1>1, <2>1 DEF Calm
  <1> QED
    BY <1>4, <1>9, <1>10, <1>11, <1>12, <1>13, <1>14 DEF IInv

\* The keys change the interval within its limits.
LEMMA KeysKeepLimits ==
  ASSUME Clocks, PressPlusMinus
  PROVE  intvl' \in MinIntvl .. MaxIntvl
PROOF
  <1>1. MinIntvl <= MaxIntvl
    BY Constants
  <1> QED
    BY <1>1, Constants DEF Clocks, PressPlusMinus, Halved, Doubled

LEMMA ClocksKept == Clocks /\ Ahead /\ Next => Clocks'
PROOF
  <1> SUFFICES ASSUME Clocks, Ahead, Next  PROVE Clocks'
    OBVIOUS
  <1>1. ASSUME NEW n \in Sizes, Packet(n)  PROVE Clocks'
    BY <1>1 DEF Packet, Clocks
  <1>2. CASE Pass
    <2>1. SleepTime(clock) \in 1 .. MaxIntvl
      <3>1. clock \in Int /\ intvl \in Nat \ {0} /\ intvl <= MaxIntvl
        BY IntervalIsPositive DEF Clocks
      <3>2. SleepTime(clock) \in 1 .. intvl
        BY <3>1, Sleeps
      <3> QED  BY <3>1, <3>2, Constants
    <2> HIDE DEF Clocks
    <2>2. /\ now >= wake /\ wake' = now + SleepTime(clock) /\ last' = now
          /\ UNCHANGED <<now, clock, intvl, sets, setAt>>
      BY <1>2, PassTimes
    <2> QED  BY <2>1, <2>2, Constants DEF Clocks
  <1>3. CASE Draw
    BY <1>3 DEF Draw, Clocks, history
  <1>4. CASE PressPlusMinus
    BY <1>4, KeysKeepLimits DEF PressPlusMinus, Clocks
  <1>5. CASE Tick
    BY <1>5, Constants DEF Tick, Clocks, history
  <1>6. CASE SetClock
    BY <1>6, Constants DEF SetClock, Clocks
  <1> QED
    BY <1>1, <1>2, <1>3, <1>4, <1>5, <1>6 DEF Next

LEMMA AheadKept == Clocks /\ Ahead /\ Next => Ahead'
PROOF
  <1> SUFFICES ASSUME Clocks, Ahead, Next  PROVE Ahead'
    OBVIOUS
  <1>1. CASE clock' = clock /\ now' = now /\ sets' = sets
    BY <1>1 DEF Ahead
  <1>2. CASE clock' = clock + 1 /\ now' = now + 1 /\ sets' = sets
    <2>1. Setback * sets \in Int /\ clock \in Int /\ now \in Int
      BY Constants DEF Clocks
    <2> QED  BY <1>2, <2>1, Constants DEF Ahead
  <1>3. CASE clock' = clock - Setback /\ now' = now /\ sets' = sets + 1
    <2>1. /\ Setback * (sets + 1) = Setback * sets + Setback
          /\ Setback * sets \in Int /\ clock \in Int /\ now \in Int
      BY Constants DEF Clocks
    <2> QED  BY <1>3, <2>1, Constants DEF Ahead
  <1> QED
    BY <1>1, <1>2, <1>3 DEF Next, Packet, Pass, Draw, PressPlusMinus, Tick, SetClock, history

LEMMA CountersKept ==
  ASSUME Clocks, Ahead, Counters, Moved, Next
  PROVE  Counters' /\ Moved'
PROOF
  <1>1. ASSUME NEW n \in Sizes, Packet(n)  PROVE Counters' /\ Moved'
    <2> DEFINE a == [at |-> now, size |-> n, moved |-> Never]
    <2>1. a \in Arrivals /\ a.at = now /\ a.moved = Never /\ n \in Nat
      BY Constants DEF Arrivals, Clocks
    <2>2. arrivals' = Append(arrivals, a)
      BY <1>1 DEF Packet
    <2> HIDE DEF a
    <2>3. /\ arrivals' \in Seq(Arrivals) /\ Len(arrivals') = Len(arrivals) + 1
          /\ Len(arrivals) \in Nat /\ arrivals'[Len(arrivals) + 1] = a
          /\ \A i \in 1 .. Len(arrivals) : arrivals'[i] = arrivals[i]
      BY <2>1, <2>2 DEF Counters
    <2>4. pending' \in 0 .. Word - 1
      <3>1. pending + n \in Nat /\ pending' = (pending + n) % Word
        BY <1>1, <2>1, Constants DEF Packet, Counters
      <3> QED  BY <3>1, Constants, Division
    <2>5. Counters'
      BY <1>1, <2>1, <2>3, <2>4 DEF Packet, Counters
    <2>6. now \in Nat /\ now' = now /\ last' = last
      BY <1>1 DEF Packet, Clocks
    <2>7. Moved'
      BY <2>1, <2>3, <2>6 DEF Moved
    <2> QED  BY <2>5, <2>7
  <1>2. CASE Pass
    <2>1. Counters'
      <3>1. avgstack' \in Seq(Entries)
        BY <1>2, PassStacks
      <3>2. arrivals' \in Seq(Arrivals) /\ Len(arrivals') = Len(arrivals)
        BY <1>2, PassMoves
      <3>3. total' = total /\ rate' = rate /\ pending' = 0
        BY <1>2, PassTimes
      <3>4. 0 \in 0 .. Word - 1
        BY Constants
      <3> QED  BY <3>1, <3>2, <3>3, <3>4 DEF Counters
    <2>2. /\ now > last /\ now \in Nat /\ now' = now /\ last' = now /\ last \in Nat
          /\ Len(arrivals') = Len(arrivals)
      BY <1>2, PassMoves, PassTimes DEF Clocks
    <2>3. ASSUME NEW i \in 1 .. Len(arrivals)
          PROVE  /\ arrivals'[i].at <= now
                 /\ arrivals'[i].moved = Never \/ arrivals'[i].moved <= now
      <3>1. /\ arrivals'[i].at = arrivals[i].at
            /\ arrivals[i].moved = Never => arrivals'[i].moved = now
            /\ arrivals[i].moved # Never => /\ arrivals'[i].moved = arrivals[i].moved
                                            /\ arrivals[i].moved <= last
        BY <1>2, PassMoves
      <3>2. arrivals[i].moved \in Nat /\ arrivals[i].at <= now
        BY Fields DEF Counters, Moved
      <3> QED  BY <2>2, <3>1, <3>2
    <2>4. Moved'
      BY <2>2, <2>3 DEF Moved
    <2> QED  BY <2>1, <2>4
  <1>3. CASE Draw
    <2>1. Moved'
      BY <1>3 DEF Draw, Moved, history
    <2>2. rate' \in Nat
      <3> DEFINE d == (intvl + IF avgstack = <<>> THEN 0
                               ELSE avgstack[1].ts - avgstack[Len(avgstack)].ts) % LongWord
                 s == SumOfSizes(avgstack) % Word
      <3>1. rate' = IF d > 0 THEN (s * Second) \div d ELSE 0
        BY <1>3 DEF Draw, AvgBps
      <3>2. d \in Nat
        <4>1. ASSUME avgstack # <<>>
              PROVE  avgstack[1].ts \in Int /\ avgstack[Len(avgstack)].ts \in Int
          <5>1. avgstack[1] \in Entries /\ avgstack[Len(avgstack)] \in Entries
            BY <4>1 DEF Counters
          <5> QED  BY <5>1 DEF Entries
        <4>2. intvl \in Nat
          BY Constants DEF Clocks
        <4> QED  BY <4>1, <4>2, Constants
      <3>3. s \in Nat
        <4>1. Len(avgstack) \in Nat /\ \A k \in 1 .. Len(avgstack) : SizesOf(avgstack)[k] \in Nat
          <5>1. \A k \in 1 .. Len(avgstack) : avgstack[k] \in Entries
            BY DEF Counters
          <5> QED  BY <5>1 DEF Counters, Entries, SizesOf
        <4>2. SumOfSizes(avgstack) \in Nat
          BY <4>1, SumType DEF SumOfSizes, SizesOf
        <4> QED  BY <4>2, Constants, Division
      <3> HIDE DEF d, s
      <3>4. s * Second \in Nat
        BY <3>3, Constants
      <3>5. d > 0 => (s * Second) \div d \in Nat
        BY <3>2, <3>4
      <3> QED  BY <3>1, <3>5
    <2>3. Counters'
      BY <1>3, <2>2 DEF Draw, Counters, history
    <2> QED  BY <2>1, <2>3
  <1>4. CASE PressPlusMinus
    BY <1>4 DEF PressPlusMinus, Counters, Moved
  <1>5. CASE Tick
    <2>1. now' = now + 1 /\ last' = last /\ arrivals' = arrivals
      BY <1>5 DEF Tick, history
    <2>2. \A i \in 1 .. Len(arrivals) : arrivals[i].at \in Nat /\ arrivals[i].at <= now
      BY Fields DEF Counters, Moved
    <2>3. Moved'
      BY <2>1, <2>2 DEF Moved, Clocks
    <2> QED  BY <1>5, <2>3 DEF Tick, Counters, history
  <1>6. CASE SetClock
    BY <1>6 DEF SetClock, Counters, Moved
  <1> QED
    BY <1>1, <1>2, <1>3, <1>4, <1>5, <1>6 DEF Next

\* While the clock is not set, time passes without a change to the bytes.
LEMMA QuietSteps ==
  ASSUME Clocks, sets' = 0,
         Draw \/ PressPlusMinus \/ Tick \/ SetClock \/ UNCHANGED vars
  PROVE  /\ sets = 0 /\ clock' - now' = clock - now /\ last' = last
         /\ UNCHANGED <<total, pending, avgstack, arrivals>>
PROOF
  <1>1. sets \in Nat /\ clock \in Int /\ now \in Int
    BY DEF Clocks
  <1>2. CASE Draw \/ PressPlusMinus \/ UNCHANGED vars
    <2>1. UNCHANGED <<sets, clock, now, last, total, pending, avgstack, arrivals>>
      BY <1>2 DEF Draw, PressPlusMinus, history, vars
    <2> QED  BY <2>1
  <1>3. CASE Tick
    BY <1>1, <1>3 DEF Tick, history
  <1>4. CASE SetClock
    BY <1>1, <1>4 DEF SetClock
  <1> QED
    BY <1>2, <1>3, <1>4

LEMMA QuietStepsKeepBytes ==
  ASSUME IInv, Draw \/ PressPlusMinus \/ Tick \/ SetClock \/ UNCHANGED vars
  PROVE  Totals' /\ Marked' /\ Descending' /\ Listed'
PROOF
  <1> SUFFICES ASSUME sets' = 0  PROVE Totals' /\ Marked' /\ Descending' /\ Listed'
    BY DEF Totals, Marked, Descending, Listed
  <1>1. /\ sets = 0 /\ clock' - now' = clock - now /\ last' = last
        /\ UNCHANGED <<total, pending, avgstack, arrivals>>
    BY QuietSteps DEF IInv
  <1>2. \A k : PassedAt(k)' = PassedAt(k)
    BY <1>1 DEF PassedAt
  <1>3. Totals'
    BY <1>1 DEF IInv, Totals
  <1>4. Marked'
    BY <1>1, <1>2 DEF IInv, Marked
  <1>5. Descending'
    BY <1>1, <1>2 DEF IInv, Descending
  <1>6. Listed'
    BY <1>1, <1>2 DEF IInv, Listed
  <1> QED
    BY <1>3, <1>4, <1>5, <1>6

\* A packet waits for the next pass.
LEMMA PacketKeepsBytes ==
  ASSUME IInv, NEW n \in Sizes, Packet(n)
  PROVE  Totals' /\ Marked' /\ Descending' /\ Listed'
PROOF
  <1> SUFFICES ASSUME sets' = 0  PROVE Totals' /\ Marked' /\ Descending' /\ Listed'
    BY DEF Totals, Marked, Descending, Listed
  <1> DEFINE a == [at |-> now, size |-> n, moved |-> Never]
  <1>1. a \in Arrivals /\ a.at = now /\ a.size = n /\ a.moved = Never /\ n \in Nat
    BY Constants DEF Arrivals, IInv, Clocks
  <1>2. /\ sets = 0 /\ arrivals' = Append(arrivals, a)
        /\ total' = total + n /\ pending' = (pending + n) % Word
        /\ UNCHANGED <<now, clock, last, avgstack>>
    BY DEF Packet
  <1> HIDE DEF a
  <1>3. arrivals \in Seq(Arrivals) /\ total \in Nat /\ pending \in Nat
    BY DEF IInv, Counters
  <1>4. /\ Len(arrivals') = Len(arrivals) + 1 /\ Len(arrivals) \in Nat
        /\ arrivals'[Len(arrivals) + 1] = a
        /\ \A i \in 1 .. Len(arrivals) : arrivals'[i] = arrivals[i]
    BY <1>1, <1>2, <1>3
  <1>5. \A k : PassedAt(k)' = PassedAt(k)
    BY <1>2 DEF PassedAt
  <1>6. Totals'
    <2>1. SumOfSizes(arrivals') = SumOfSizes(arrivals) + n
      BY <1>1, <1>2, <1>3, TotalAppend
    <2>2. BytesIn(arrivals', {Never}) = BytesIn(arrivals, {Never}) + n
      BY <1>1, <1>2, <1>3, BytesAppend
    <2>3. BytesIn(arrivals, {Never}) \in Nat
      BY <1>3, BytesType
    <2>4. total = SumOfSizes(arrivals) /\ pending = BytesIn(arrivals, {Never}) % Word
      BY <1>2 DEF IInv, Totals
    <2>5. pending' = (BytesIn(arrivals, {Never}) + n) % Word
      BY <1>1, <1>2, <2>3, <2>4, ModAdd, Constants
    <2> QED  BY <1>2, <2>1, <2>2, <2>4, <2>5 DEF Totals
  <1>7. Marked'
    <2> SUFFICES ASSUME NEW k \in 1 .. Len(avgstack)
                 PROVE  /\ PassedAt(k) \in 0 .. last /\ PassedAt(k) > last - Window
                        /\ avgstack[k].size = BytesIn(arrivals', {PassedAt(k)}) % Word
      BY <1>2, <1>5 DEF Marked
    <2>1. /\ PassedAt(k) \in 0 .. last /\ PassedAt(k) > last - Window
          /\ avgstack[k].size = BytesIn(arrivals, {PassedAt(k)}) % Word
      BY <1>2 DEF IInv, Marked
    <2>2. Never \notin {PassedAt(k)}
      BY <2>1, Constants DEF IInv, Clocks
    <2>3. BytesIn(arrivals', {PassedAt(k)}) = BytesIn(arrivals, {PassedAt(k)}) + 0
      BY <1>1, <1>2, <1>3, <2>2, BytesAppend
    <2>4. BytesIn(arrivals, {PassedAt(k)}) \in Nat
      BY <1>3, BytesType
    <2> QED  BY <2>1, <2>3, <2>4
  <1>8. Descending'
    BY <1>2, <1>5 DEF IInv, Descending
  <1>9. Listed'
    <2> SUFFICES ASSUME NEW i \in 1 .. Len(arrivals'),
                        arrivals'[i].moved # Never, arrivals'[i].moved > last - Window
                 PROVE  \E k \in 1 .. Len(avgstack) : PassedAt(k) = arrivals'[i].moved
      BY <1>2, <1>5 DEF Listed
    <2>1. i \in 1 .. Len(arrivals) /\ arrivals'[i] = arrivals[i]
      BY <1>1, <1>4
    <2> QED  BY <1>2, <2>1 DEF IInv, Listed
  <1> QED
    BY <1>6, <1>7, <1>8, <1>9

\* A pass moves what waits into an entry of its own.
LEMMA PassKeepsBytes ==
  ASSUME IInv, Pass
  PROVE  Totals' /\ Marked' /\ Descending' /\ Listed'
PROOF
  <1> SUFFICES ASSUME sets' = 0  PROVE Totals' /\ Marked' /\ Descending' /\ Listed'
    BY DEF Totals, Marked, Descending, Listed
  <1>1. /\ sets = 0 /\ last' = now /\ pending' = 0
        /\ UNCHANGED <<now, clock, total>>
    BY PassTimes
  <1>2. /\ now > last /\ now \in Nat /\ last \in Nat /\ clock \in Int /\ now # Never
        /\ last # Never
    BY PassMoves, Constants DEF IInv, Clocks
  <1>3. /\ arrivals \in Seq(Arrivals) /\ arrivals' \in Seq(Arrivals)
        /\ Len(arrivals') = Len(arrivals) /\ Len(arrivals) \in Nat
    BY PassMoves DEF IInv, Counters
  <1>4. \A i \in 1 .. Len(arrivals) :
          /\ arrivals'[i].size = arrivals[i].size
          /\ arrivals[i].moved = Never => arrivals'[i].moved = now
          /\ arrivals[i].moved # Never => /\ arrivals'[i].moved = arrivals[i].moved
                                          /\ arrivals[i].moved <= last
    BY PassMoves DEF IInv
  <1>5. /\ avgstack' \in Seq(Entries) /\ Len(avgstack') \in 1 .. Len(avgstack) + 1
        /\ avgstack'[1].ts = clock /\ avgstack'[1].size = pending
        /\ \A k \in 2 .. Len(avgstack') :
             /\ k - 1 \in 1 .. Len(avgstack) /\ avgstack'[k] = avgstack[k - 1]
             /\ avgstack[k - 1].ts > clock - Window
        /\ Len(avgstack') <= Len(avgstack) =>
             avgstack[Len(avgstack')].ts <= clock - Window
    BY PassStacks DEF IInv
  <1>6. Len(avgstack) \in Nat /\ \A k \in 1 .. Len(avgstack) : avgstack[k].ts \in Nat
    <2>1. \A k \in 1 .. Len(avgstack) : avgstack[k] \in Entries
      BY DEF IInv, Counters
    <2> QED  BY <2>1 DEF IInv, Counters, Entries
  <1>7. /\ \A k \in {1} : PassedAt(k)' = now
        /\ \A k \in 2 .. Len(avgstack') : PassedAt(k)' = PassedAt(k - 1)
    BY <1>1, <1>2, <1>5 DEF PassedAt
  <1>8. \A k \in 1 .. Len(avgstack) :
          /\ PassedAt(k) \in 0 .. last
          /\ avgstack[k].size = BytesIn(arrivals, {PassedAt(k)}) % Word
    BY <1>1 DEF IInv, Marked
  <1>8a. \A k \in 1 .. Len(avgstack) : PassedAt(k) \in 0 .. last
    BY <1>8
  <1>9. Totals'
    <2>1. SumOfSizes(arrivals') = SumOfSizes(arrivals)
      <3> DEFINE f == SizesOf(arrivals)
                 g == SizesOf(arrivals')
      <3>1. \A i \in 1 .. Len(arrivals) : f[i] \in Nat /\ g[i] = f[i]
        BY <1>3, <1>4, Fields DEF SizesOf
      <3>2. SumTo(f, Len(arrivals)) = SumTo(g, Len(arrivals))
        <4> HIDE DEF f, g
        <4> QED  BY <1>3, <3>1, SumSame
      <3> QED  BY <1>3, <3>2 DEF SumOfSizes, SizesOf
    <2>2. \A i \in 1 .. Len(arrivals') : arrivals'[i].moved \notin {Never}
      BY <1>2, <1>3, <1>4
    <2>3. BytesIn(arrivals', {Never}) = 0
      BY <1>3, <2>2, BytesNone
    <2>4. 0 % Word = 0
      BY Constants
    <2> QED  BY <1>1, <2>1, <2>3, <2>4 DEF IInv, Totals
  <1>10. Marked'
    <2> SUFFICES ASSUME NEW k \in 1 .. Len(avgstack')
                 PROVE  /\ PassedAt(k)' \in 0 .. now /\ PassedAt(k)' > now - Window
                        /\ avgstack'[k].size = BytesIn(arrivals', {PassedAt(k)'}) % Word
      BY <1>1 DEF Marked
    <2>1. CASE k = 1
      <3>1. BytesIn(arrivals', {now}) = BytesIn(arrivals, {Never})
        <4>1. \A i \in 1 .. Len(arrivals) :
                arrivals'[i].moved \in {now} <=> arrivals[i].moved \in {Never}
          BY <1>2, <1>4
        <4> QED  BY <1>3, <1>4, <4>1, BytesSame
      <3>2. pending = BytesIn(arrivals, {Never}) % Word
        BY <1>1 DEF IInv, Totals
      <3>3. Window > 0
        BY Constants DEF Window
      <3>4. PassedAt(k)' = now
        BY <1>7, <2>1
      <3>5. avgstack'[k].size = BytesIn(arrivals', {PassedAt(k)'}) % Word
        BY <1>5, <2>1, <3>1, <3>2, <3>4
      <3> QED  BY <1>2, <3>3, <3>4, <3>5, Constants
    <2>2. CASE k # 1
      <3> DEFINE t == PassedAt(k - 1)
      <3>1. k \in 2 .. Len(avgstack') /\ k - 1 \in 1 .. Len(avgstack) /\ PassedAt(k)' = t
        BY <1>5, <1>7, <2>2
      <3>2. t \in 0 .. last /\ avgstack[k - 1].size = BytesIn(arrivals, {t}) % Word
        BY <1>8, <3>1
      <3>3. t > now - Window
        BY <1>2, <1>5, <1>6, <3>1, Constants DEF PassedAt
      <3> HIDE DEF t
      <3>4. BytesIn(arrivals', {t}) = BytesIn(arrivals, {t})
        <4>1. \A i \in 1 .. Len(arrivals) :
                arrivals'[i].moved \in {t} <=> arrivals[i].moved \in {t}
          <5>1. t # now /\ t # Never
            BY <1>2, <3>2, Constants DEF IInv, Clocks
          <5> QED  BY <1>4, <5>1
        <4> QED  BY <1>3, <1>4, <4>1, BytesSame
      <3>5. avgstack'[k].size = avgstack[k - 1].size
        BY <1>5, <3>1
      <3> QED  BY <1>2, <3>1, <3>2, <3>3, <3>4, <3>5
    <2> QED  BY <2>1, <2>2
  <1>11. Descending'
    <2> SUFFICES ASSUME NEW j \in 1 .. Len(avgstack'), NEW k \in 1 .. Len(avgstack'), j < k
                 PROVE  PassedAt(k)' < PassedAt(j)'
      BY DEF Descending
    <2>1. k \in 2 .. Len(avgstack') /\ k - 1 \in 1 .. Len(avgstack)
      BY <1>5
    <2>4. PassedAt(k)' = PassedAt(k - 1) /\ PassedAt(k - 1) \in 0 .. last
      BY <1>7, <1>8a, <2>1
    <2>2. CASE j = 1
      BY <1>2, <1>7, <2>2, <2>4
    <2>3. CASE j # 1
      <3>1. /\ j \in 2 .. Len(avgstack') /\ j - 1 \in 1 .. Len(avgstack) /\ j - 1 < k - 1
            /\ PassedAt(j)' = PassedAt(j - 1)
        BY <1>5, <1>7, <2>3
      <3> QED  BY <1>1, <2>1, <2>4, <3>1 DEF IInv, Descending
    <2> QED  BY <2>2, <2>3
  <1>12. Listed'
    <2> SUFFICES ASSUME NEW i \in 1 .. Len(arrivals),
                        arrivals'[i].moved # Never, arrivals'[i].moved > now - Window
                 PROVE  \E k \in 1 .. Len(avgstack') : PassedAt(k)' = arrivals'[i].moved
      BY <1>1, <1>3 DEF Listed
    <2>1. 1 \in 1 .. Len(avgstack')
      BY <1>5
    <2>2. CASE arrivals[i].moved = Never
      BY <1>4, <1>7, <2>1, <2>2
    <2>3. CASE arrivals[i].moved # Never
      <3> DEFINE m == arrivals[i].moved
      <3>1. m \in Nat /\ arrivals'[i].moved = m /\ m <= last
        BY <1>3, <1>4, <2>3, Fields
      <3>2. m > last - Window
        BY <1>2, <3>1, Constants
      <3>3. PICK k \in 1 .. Len(avgstack) : PassedAt(k) = m
        BY <1>1, <2>3, <3>2 DEF IInv, Listed
      <3>4. k + 1 <= Len(avgstack')
        <4> SUFFICES ASSUME ~(k + 1 <= Len(avgstack'))  PROVE FALSE
          OBVIOUS
        <4> DEFINE l == Len(avgstack')
        <4>1. l \in 1 .. Len(avgstack) /\ l <= k
          BY <1>5, <1>6
        <4>2. avgstack[l].ts <= clock - Window /\ avgstack[l].ts \in Nat
          BY <1>5, <1>6, <4>1
        <4>3. PassedAt(l) <= now - Window
          BY <1>2, <4>2, Constants DEF PassedAt
        <4>4. PassedAt(k) <= PassedAt(l)
          <5>1. CASE l = k
            BY <1>8a, <4>1, <5>1
          <5>2. CASE l # k
            <6>1. PassedAt(k) < PassedAt(l)
              BY <1>1, <4>1, <5>2 DEF IInv, Descending
            <6> QED  BY <1>8a, <4>1, <6>1
          <5> QED  BY <5>1, <5>2
        <4>5. m > now - Window
          BY <3>1
        <4> HIDE DEF l, m
        <4>6. PassedAt(l) \in Int
          BY <1>8a, <4>1
        <4> QED  BY <1>2, <3>1, <3>3, <4>3, <4>4, <4>5, <4>6, Constants
      <3>5. k + 1 \in 2 .. Len(avgstack') /\ (k + 1) - 1 = k
        BY <1>5, <3>4
      <3>6. PassedAt(k + 1)' = PassedAt(k)
        BY <1>7, <3>5
      <3>7. k + 1 \in 1 .. Len(avgstack')
        BY <3>5
      <3> QED  BY <3>1, <3>3, <3>6, <3>7
    <2> QED  BY <2>2, <2>3
  <1> QED
    BY <1>9, <1>10, <1>11, <1>12

\* The last packet or setting of the clock.
LEMMA LastChangeIs ==
  ASSUME IInv
  PROVE  /\ arrivals[Len(arrivals)].at \in 0 .. now
         /\ LastChange \in 0 .. now
         /\ LastChange >= setAt /\ LastChange >= arrivals[Len(arrivals)].at
PROOF
  <1>1. Len(arrivals) \in 1 .. Len(arrivals)
    BY DEF IInv, Counters
  <1>2. arrivals[Len(arrivals)].at \in Nat /\ arrivals[Len(arrivals)].at <= now
    BY <1>1, Fields DEF IInv, Counters, Moved
  <1>3. setAt \in 0 .. now /\ now \in Nat
    BY DEF IInv, Clocks
  <1> QED
    BY <1>2, <1>3 DEF LastChange

LEMMA PassKeepsCalm ==
  ASSUME IInv, Pass
  PROVE  Calm'
PROOF
  <1>1. /\ last' = now /\ pending' = 0 /\ now >= wake
        /\ UNCHANGED <<now, clock, setAt>>
    BY PassTimes
  <1>2. /\ now \in Nat /\ last \in Nat /\ clock \in Int /\ wake \in Nat
        /\ wake <= last + MaxIntvl /\ now <= wake + Slack
    BY DEF IInv, Clocks
  <1>3. LastChange' = LastChange /\ LastChange \in Nat
    <2>1. Len(arrivals) \in 1 .. Len(arrivals) /\ Len(arrivals') = Len(arrivals)
      BY PassMoves DEF IInv, Counters
    <2>2. arrivals'[Len(arrivals')].at = arrivals[Len(arrivals)].at
      BY <2>1, PassMoves DEF IInv
    <2> QED  BY <1>1, <2>2, LastChangeIs DEF LastChange
  <1>4. /\ Len(avgstack') \in 1 .. Len(avgstack) + 1
        /\ avgstack'[1].ts = clock /\ avgstack'[1].size = pending
        /\ \A k \in 2 .. Len(avgstack') :
             /\ k - 1 \in 1 .. Len(avgstack) /\ avgstack'[k] = avgstack[k - 1]
             /\ avgstack[k - 1].ts > clock - Window
    BY PassStacks DEF IInv
  <1>5. Len(avgstack) \in Nat /\ \A k \in 1 .. Len(avgstack) : avgstack[k].ts \in Nat
    <2>1. \A k \in 1 .. Len(avgstack) : avgstack[k] \in Entries
      BY DEF IInv, Counters
    <2> QED  BY <2>1 DEF IInv, Counters, Entries
  <1>6. /\ \A k \in {1} : PassedAt(k)' = now
        /\ \A k \in 2 .. Len(avgstack') : PassedAt(k)' = PassedAt(k - 1)
    BY <1>1, <1>2, <1>4 DEF PassedAt
  <1> SUFFICES ASSUME now > LastChange,
                      NEW k \in 1 .. Len(avgstack')
               PROVE  /\ PassedAt(k)' > now - Window
                      /\ avgstack'[k].size # 0 =>
                           \E j \in 1 .. k : PassedAt(j)' <= LastChange + MaxIntvl + Slack
    BY <1>1, <1>3 DEF Calm
  \* The first pass after the change is this one.
  <1>7. ASSUME ~(last > LastChange)
        PROVE  \E j \in 1 .. k : PassedAt(j)' <= LastChange + MaxIntvl + Slack
    <2>1. PassedAt(1)' = now /\ 1 \in 1 .. k
      BY <1>4, <1>6
    <2>2. now <= LastChange + MaxIntvl + Slack
      BY <1>2, <1>3, <1>7, Constants
    <2> QED  BY <2>1, <2>2
  <1>8. CASE k = 1
    <2>1. PassedAt(k)' > now - Window
      BY <1>2, <1>6, <1>8, Constants DEF Window
    <2>2. avgstack'[k].size # 0 => ~(last > LastChange)
      BY <1>4, <1>8 DEF IInv, Calm
    <2> QED  BY <1>7, <2>1, <2>2
  <1>9. CASE k # 1
    <2>1. /\ k \in 2 .. Len(avgstack') /\ k - 1 \in 1 .. Len(avgstack)
          /\ avgstack'[k] = avgstack[k - 1] /\ avgstack[k - 1].ts > clock - Window
      BY <1>4, <1>9
    <2>2. PassedAt(k)' = PassedAt(k - 1)
      BY <1>6, <2>1
    <2>3. PassedAt(k - 1) > now - Window
      BY <1>2, <1>5, <2>1, Constants DEF PassedAt
    <2>4. ASSUME avgstack'[k].size # 0, last > LastChange
          PROVE  \E j \in 1 .. k : PassedAt(j)' <= LastChange + MaxIntvl + Slack
      <3>1. PICK j \in 1 .. k - 1 : PassedAt(j) <= LastChange + MaxIntvl + Slack
        BY <2>1, <2>4 DEF IInv, Calm
      <3>2. j + 1 \in 2 .. Len(avgstack') /\ j + 1 \in 1 .. k /\ (j + 1) - 1 = j
        BY <1>4, <2>1
      <3>3. PassedAt(j + 1)' = PassedAt(j)
        BY <1>6, <3>2
      <3> QED  BY <3>1, <3>2, <3>3
    <2> QED  BY <1>7, <2>2, <2>3, <2>4
  <1> QED
    BY <1>8, <1>9

\* A packet or a setting of the clock is the end of the calm.
LEMMA ChangeKeepsCalm ==
  ASSUME IInv, SetClock \/ \E n \in Sizes : Packet(n)
  PROVE  Calm'
PROOF
  <1>1. last \in Nat /\ now \in Nat /\ last <= now /\ setAt \in Nat /\ setAt <= now
    BY DEF IInv, Clocks
  <1>2. CASE SetClock
    <2>1. setAt' = now /\ UNCHANGED <<now, last, arrivals>>
      BY <1>2 DEF SetClock
    <2>2. LastChange' = now
      <3>1. arrivals[Len(arrivals)].at \in 0 .. now
        BY LastChangeIs
      <3> QED  BY ONLY <1>1, <2>1, <3>1 DEF LastChange
    <2> QED  BY <1>1, <2>1, <2>2 DEF Calm
  <1>3. ASSUME NEW n \in Sizes, Packet(n)  PROVE Calm'
    <2> DEFINE a == [at |-> now, size |-> n, moved |-> Never]
    <2>1. a \in Arrivals /\ a.at = now
      BY <1>1, Constants DEF Arrivals
    <2>2. arrivals' = Append(arrivals, a) /\ UNCHANGED <<now, last, setAt>>
      BY <1>3 DEF Packet
    <2> HIDE DEF a
    <2>3. arrivals'[Len(arrivals')] = a
      BY <2>1, <2>2 DEF IInv, Counters
    <2>4. LastChange' = now
      BY <1>1, <2>1, <2>2, <2>3 DEF LastChange
    <2> QED  BY <1>1, <2>2, <2>4 DEF Calm
  <1> QED
    BY <1>2, <1>3

LEMMA QuietStepsKeepCalm ==
  ASSUME IInv, Draw \/ PressPlusMinus \/ Tick \/ UNCHANGED vars
  PROVE  Calm'
PROOF
  <1>1. UNCHANGED <<last, pending, avgstack, arrivals, setAt>>
    BY DEF Draw, PressPlusMinus, Tick, vars, history
  <1>2. clock' - now' = clock - now
    <2>1. clock \in Int /\ now \in Int
      BY DEF IInv, Clocks
    <2> QED  BY <2>1 DEF Draw, PressPlusMinus, Tick, vars, history
  <1>3. LastChange' = LastChange /\ \A k : PassedAt(k)' = PassedAt(k)
    BY <1>1, <1>2 DEF LastChange, PassedAt
  <1> QED
    BY <1>1, <1>3 DEF IInv, Calm

LEMMA NextIInv == IInv /\ [Next]_vars => IInv'
PROOF
  <1> SUFFICES ASSUME IInv, [Next]_vars  PROVE IInv'
    OBVIOUS
  <1>1. CASE UNCHANGED vars
    <2>1. Clocks' /\ Ahead' /\ Counters' /\ Moved'
      BY <1>1 DEF vars, IInv, Clocks, Ahead, Counters, Moved
    <2> QED  BY <1>1, <2>1, QuietStepsKeepBytes, QuietStepsKeepCalm DEF IInv
  <1>2. CASE Next
    <2>1. Clocks' /\ Ahead' /\ Counters' /\ Moved'
      BY <1>2, ClocksKept, AheadKept, CountersKept DEF IInv
    <2>2. Totals' /\ Marked' /\ Descending' /\ Listed'
      BY <1>2, QuietStepsKeepBytes, PacketKeepsBytes, PassKeepsBytes DEF Next
    <2>3. Calm'
      BY <1>2, PassKeepsCalm, ChangeKeepsCalm, QuietStepsKeepCalm DEF Next
    <2> QED  BY <2>1, <2>2, <2>3 DEF IInv
  <1> QED
    BY <1>1, <1>2

LEMMA Inductive == Spec => []IInv
  BY InitIInv, NextIInv, PTL DEF Spec

-----------------------------------------------------------------------------
\* The counters keep their types, however often the clock is set back and
\* whatever the keys do (TCPConnection.cc:135-198).
THEOREM TypeCorrect == Spec => []TypeOK
PROOF
  <1>1. IInv => TypeOK
    <2> SUFFICES ASSUME IInv  PROVE TypeOK
      OBVIOUS
    <2>1. clock \in Nat
      BY ClockIsNatural DEF IInv
    <2>2. \A i \in 1 .. Len(avgstack) : avgstack[i] \in [ts : Nat, size : 0 .. Word - 1]
      <3>1. \A i \in 1 .. Len(avgstack) : avgstack[i] \in Entries
        BY DEF IInv, Counters
      <3> QED  BY <3>1 DEF Entries
    <2> QED  BY <2>1, <2>2 DEF IInv, Clocks, Counters, TypeOK
  <1> QED
    BY <1>1, Inductive, PTL

\* The sum of avgstack is what came in within the window.
LEMMA SumOfEntries ==
  ASSUME IInv, sets = 0
  PROVE  SumOfSizes(avgstack) % Word = BytesIn(arrivals, Kept) % Word
PROOF
  <1> DEFINE n == Len(avgstack)
             f == SizesOf(avgstack)
             P(k) == {PassedAt(j) : j \in 1 .. k}
             S == {k \in Nat : k <= n => SumTo(f, k) % Word = BytesIn(arrivals, P(k)) % Word}
  <1>1. /\ n \in Nat /\ \A k \in 1 .. n : f[k] \in Nat /\ f[k] = avgstack[k].size
        /\ arrivals \in Seq(Arrivals)
    <2>1. \A k \in 1 .. n : avgstack[k] \in Entries
      BY DEF IInv, Counters
    <2> QED  BY <2>1 DEF IInv, Counters, Entries, SizesOf
  <1>2. \A k \in 1 .. n : f[k] = BytesIn(arrivals, {PassedAt(k)}) % Word
    BY <1>1 DEF IInv, Marked
  <1>3. \A k \in 1 .. n : PassedAt(k) \in 0 .. last /\ PassedAt(k) > last - Window
    BY DEF IInv, Marked
  <1>4. \A j, k \in 1 .. n : j < k => PassedAt(k) < PassedAt(j)
    BY DEF IInv, Descending
  <1>5. 0 \in S
    <2>1. P(0) = {}
      OBVIOUS
    <2>2. SumTo(f, 0) = 0 /\ BytesIn(arrivals, {}) = 0
      BY <1>1, SumZero, BytesNone
    <2> QED  BY <2>1, <2>2
  <1>6. \A k \in Nat : k \in S => k + 1 \in S
    <2> SUFFICES ASSUME NEW k \in Nat, k \in S, k + 1 <= n
                 PROVE  SumTo(f, k + 1) % Word = BytesIn(arrivals, P(k + 1)) % Word
      OBVIOUS
    <2> DEFINE t == PassedAt(k + 1)
               a == SumTo(f, k)
               b == BytesIn(arrivals, {t})
               c == BytesIn(arrivals, P(k))
    <2>1. k + 1 \in 1 .. n /\ \A j \in 1 .. k : j \in 1 .. n /\ j < k + 1
      BY <1>1
    <2>2. P(k + 1) = P(k) \cup {t} /\ P(k) \cap {t} = {}
      <3>1. \A j \in 1 .. k : t < PassedAt(j) /\ PassedAt(j) \in Int /\ t \in Int
        BY <1>3, <1>4, <2>1
      <3>2. \A j : j \in 1 .. k + 1 <=> j \in 1 .. k \/ j = k + 1
        OBVIOUS
      <3>3. P(k) \cap {t} = {}
        BY <3>1
      <3>4. P(k + 1) = P(k) \cup {t}
        BY <3>2
      <3> QED  BY <3>3, <3>4
    <2>3. BytesIn(arrivals, P(k + 1)) = c + b /\ b \in Nat /\ c \in Nat
      BY <1>1, <2>2, BytesUnion, BytesType
    <2>4. SumTo(f, k + 1) = a + (b % Word) /\ a \in Nat
      <3>1. \A i \in 1 .. k + 1 : f[i] \in Nat
        BY <1>1, <2>1
      <3>2. f[k + 1] = b % Word
        BY <1>2, <2>1
      <3> HIDE DEF f, b
      <3> QED  BY <3>1, <3>2, SumStep
    <2>5. a % Word = c % Word
      BY <2>1, <1>1
    <2> HIDE DEF a, b, c
    <2>6. (a + (b % Word)) % Word = (c + b) % Word
      <3>1. Word \in Nat \ {0}
        BY Constants
      <3>2. a \in Nat /\ b \in Nat /\ c \in Nat
        BY <2>3, <2>4
      <3>3. b % Word \in Nat
        BY <3>1, <3>2, Division
      <3>4. ((b % Word) + a) % Word = (b + a) % Word
        BY <3>1, <3>2, ModAdd
      <3>5. ((a % Word) + b) % Word = (a + b) % Word
        BY <3>1, <3>2, ModAdd
      <3>6. ((c % Word) + b) % Word = (c + b) % Word
        BY <3>1, <3>2, ModAdd
      <3>7. (b % Word) + a = a + (b % Word) /\ b + a = a + b
        BY <3>2, <3>3
      <3> QED  BY <2>5, <3>4, <3>5, <3>6, <3>7
    <2> QED  BY <2>3, <2>4, <2>6
  <1>7. SumTo(f, n) % Word = BytesIn(arrivals, P(n)) % Word
    <2>1. Nat \subseteq S
      <3> HIDE DEF S
      <3> QED  BY <1>5, <1>6, Induct
    <2> QED  BY <1>1, <2>1
  <1>8. BytesIn(arrivals, P(n)) = BytesIn(arrivals, Kept)
    <2>1. ASSUME NEW i \in 1 .. Len(arrivals)
          PROVE  arrivals[i].moved \in P(n) <=> arrivals[i].moved \in Kept
      <3> DEFINE m == arrivals[i].moved
      <3>1. m \in Nat /\ (m = Never \/ m <= last)
        BY <1>1, Fields DEF IInv, Moved
      <3>2. last \in Nat /\ last <= MaxTime
        BY Constants DEF IInv, Clocks
      <3>3. ASSUME m \in P(n)  PROVE m \in Kept
        <4>1. PICK j \in 1 .. n : m = PassedAt(j)
          BY <3>3
        <4>2. m \in 0 .. last /\ m > last - Window
          BY <1>3, <4>1
        <4> HIDE DEF m
        <4> QED  BY <3>2, <4>2, Constants DEF Kept
      <3>4. ASSUME m \in Kept  PROVE m \in P(n)
        <4>1. m # Never /\ m > last - Window
          BY <3>4, Constants DEF Kept
        <4> QED  BY <4>1 DEF IInv, Listed
      <3> QED  BY <3>3, <3>4
    <2> HIDE DEF P
    <2> QED  BY <1>1, <2>1, BytesSame
  <1>9. SumOfSizes(avgstack) = SumTo(f, n)
    BY DEF SumOfSizes, SizesOf
  <1> QED
    BY <1>7, <1>8, <1>9

\* No byte is lost on its way from a packet to the counters and none counted
\* twice, for packets of any sizes and passes that are late by any time, while
\* nobody sets the clock (TCPConnection.cc:135-171, 222-228).
THEOREM BytesCountedOnce == Spec => []EveryByteOnce
PROOF
  <1>1. IInv => EveryByteOnce
    <2> SUFFICES ASSUME IInv, sets = 0
                 PROVE  /\ total = SumOfSizes(arrivals)
                        /\ pending = BytesWhere(Waiting) % Word
                        /\ SumOfSizes(avgstack) % Word = BytesWhere(Kept) % Word
      BY DEF EveryByteOnce
    <2>1. \A T : BytesWhere(T) = BytesIn(arrivals, T)
      BY DEF BytesWhere, BytesOf, BytesIn
    <2>2. total = SumOfSizes(arrivals) /\ pending = BytesIn(arrivals, {Never}) % Word
      BY DEF IInv, Totals
    <2> QED  BY <2>1, <2>2, SumOfEntries DEF Waiting
  <1> QED
    BY <1>1, Inductive, PTL

\* The speed of a silent connection is zero after that time, whatever the keys
\* do and wherever the clock is set back to (TCPConnection.cc:146-153, 174-198).
THEOREM SilentHasNoSpeed == Spec => RateFades
PROOF
  <1>1. IInv /\ [Next]_vars => [Draw /\ now - LastChange > Silence => rate' = 0]_vars
    <2> SUFFICES ASSUME IInv, Draw, now - LastChange > Silence  PROVE rate' = 0
      OBVIOUS
    <2>1. /\ now \in Nat /\ last \in Nat /\ wake \in Nat /\ LastChange \in Nat
          /\ now <= last + MaxIntvl + Slack
      BY LastChangeIs, Constants DEF IInv, Clocks
    <2>2. last - Window > LastChange + MaxIntvl + Slack /\ last > LastChange
      BY <2>1, Constants DEF Silence
    <2>3. \A k \in 1 .. Len(avgstack) : avgstack[k].size = 0
      <3> SUFFICES ASSUME NEW k \in 1 .. Len(avgstack), avgstack[k].size # 0
                   PROVE  FALSE
        OBVIOUS
      <3>1. PICK j \in 1 .. k : PassedAt(j) <= LastChange + MaxIntvl + Slack
        BY <2>2 DEF IInv, Calm
      <3>2. j \in 1 .. Len(avgstack)
        BY DEF IInv, Counters
      <3>3. PassedAt(j) > last - Window
        BY <2>2, <3>2 DEF IInv, Calm
      <3>4. PassedAt(j) \in Int
        <4>1. avgstack[j] \in Entries
          BY <3>2 DEF IInv, Counters
        <4>2. avgstack[j].ts \in Nat /\ clock \in Int
          BY <4>1 DEF Entries, IInv, Clocks
        <4> QED  BY <2>1, <4>2 DEF PassedAt
      <3> QED  BY <2>1, <2>2, <3>1, <3>3, <3>4, Constants
    <2>4. SumOfSizes(avgstack) = 0
      <3> DEFINE f == SizesOf(avgstack)
      <3>1. Len(avgstack) \in Nat /\ \A k \in 1 .. Len(avgstack) : f[k] = 0
        BY <2>3 DEF IInv, Counters, SizesOf
      <3> HIDE DEF f
      <3>2. SumTo(f, Len(avgstack)) = 0
        BY <3>1, SumOfNothing
      <3> QED  BY <3>2 DEF f, SizesOf, SumOfSizes
    <2> DEFINE d == (intvl + IF avgstack = <<>> THEN 0
                             ELSE avgstack[1].ts - avgstack[Len(avgstack)].ts) % LongWord
    <2>5. rate' = IF d > 0 THEN ((0 % Word) * Second) \div d ELSE 0
      BY <2>4 DEF Draw, AvgBps
    <2>6. (0 % Word) * Second = 0
      BY Constants
    <2>7. d > 0 => 0 \div d = 0
      <3>1. d \in Int
        <4>1. ASSUME avgstack # <<>>
              PROVE  avgstack[1].ts \in Int /\ avgstack[Len(avgstack)].ts \in Int
          <5>1. avgstack[1] \in Entries /\ avgstack[Len(avgstack)] \in Entries
            BY <4>1 DEF IInv, Counters
          <5> QED  BY <5>1 DEF Entries
        <4>2. intvl \in Nat
          BY Constants DEF IInv, Clocks
        <4> QED  BY <4>1, <4>2, Constants
      <3> HIDE DEF d
      <3> QED  BY <3>1
    <2> HIDE DEF d
    <2> QED  BY <2>5, <2>6, <2>7
  <1> QED
    BY <1>1, Inductive, PTL DEF Spec, RateFades

-----------------------------------------------------------------------------
(* The speed while the passes are in time. *)

\* So far back lies the pass before the last k intervals.
Behind(k) == k * intvl

\* While nobody has set the clock, the entries that the last passes in time made
\* lie one interval behind the other, those within the window are all there, and
\* no packet was moved in between.
Spaced == \A k \in 1 .. Len(avgstack) : k <= inTime + 1 => PassedAt(k) = last - Behind(k - 1)
Complete == \A j \in 0 .. inTime - 1 : Behind(j) < Window => Len(avgstack) > j
Regular ==
  \A i \in 1 .. Len(arrivals) : arrivals[i].moved # Never =>
    \/ arrivals[i].moved <= last - Behind(inTime)
    \/ \E j \in 0 .. inTime : arrivals[i].moved = last - Behind(j)

Paced == inTime \in Nat /\ (sets = 0 => Spaced /\ Complete /\ Regular)

LEMMA BehindRules ==
  ASSUME intvl \in Nat
  PROVE  /\ Behind(0) = 0
         /\ \A k \in Nat : Behind(k) \in Nat /\ Behind(k + 1) = Behind(k) + intvl
         /\ \A j, k \in Nat : j <= k => Behind(j) <= Behind(k)
PROOF
  <1>1. Behind(0) = 0
    BY DEF Behind
  <1>2. ASSUME NEW k \in Nat
        PROVE  Behind(k) \in Nat /\ Behind(k + 1) = Behind(k) + intvl
    BY DEF Behind
  <1>3. ASSUME NEW j \in Nat, NEW k \in Nat, j <= k  PROVE Behind(j) <= Behind(k)
    <2>1. intvl * j <= intvl * k
      BY <1>3, Grows
    <2>2. j * intvl = intvl * j /\ k * intvl = intvl * k
      OBVIOUS
    <2> QED  BY <2>1, <2>2 DEF Behind
  <1> QED
    BY <1>1, <1>2, <1>3

LEMMA InitPaced == Init => Paced
PROOF
  <1> SUFFICES ASSUME Init  PROVE Paced
    OBVIOUS
  <1>1. inTime = 0 /\ avgstack = <<>>
    BY DEF Init
  <1>2. PICK n \in Sizes : arrivals = <<[at |-> 0, size |-> n, moved |-> Never]>>
    BY DEF Init
  <1>3. Len(arrivals) = 1 /\ arrivals[1].moved = Never
    BY <1>2
  <1> QED
    BY <1>1, <1>3 DEF Paced, Spaced, Complete, Regular

\* Steps that are no passes.
LEMMA OthersKeepPaced ==
  ASSUME IInv, Paced,
         Draw \/ PressPlusMinus \/ Tick \/ SetClock \/ UNCHANGED vars
           \/ \E n \in Sizes : Packet(n)
  PROVE  Paced'
PROOF
  <1>1. CASE SetClock
    <2>1. sets' # 0 /\ inTime' = 0
      BY <1>1 DEF SetClock, IInv, Clocks
    <2> QED  BY <2>1 DEF Paced
  <1>2. CASE PressPlusMinus
    <2>1. inTime' = 0 /\ UNCHANGED <<now, clock, sets, last, avgstack, arrivals>>
      BY <1>2 DEF PressPlusMinus
    <2>2. \A k : PassedAt(k)' = PassedAt(k)
      BY <2>1 DEF PassedAt
    <2>3. Behind(0)' = 0 /\ Behind(0) = 0
      <3>1. Clocks /\ intvl \in MinIntvl .. MaxIntvl
        BY DEF IInv, Clocks
      <3>2. intvl' \in MinIntvl .. MaxIntvl
        BY <1>2, <3>1, KeysKeepLimits, Zenon
      <3>3. intvl \in Nat
        BY <3>1, Constants
      <3>4. PICK n \in Nat : intvl' = n
        BY <3>2, Constants
      <3>5. Behind(0)' = 0 * n /\ Behind(0) = 0 * intvl
        BY <3>4 DEF Behind
      <3> QED  BY <3>3, <3>4, <3>5
    <2>4. sets = 0 => Spaced'
      <3> SUFFICES ASSUME sets = 0, NEW k \in 1 .. Len(avgstack), k <= 1
                   PROVE  PassedAt(k) = last - Behind(k - 1)'
        BY <2>1, <2>2 DEF Spaced
      <3>1. k = 1 /\ k - 1 = 0 /\ k <= inTime + 1
        BY DEF Paced
      <3>2. PassedAt(k) = last - Behind(k - 1)
        BY <3>1 DEF Paced, Spaced
      <3> QED  BY <2>3, <3>1, <3>2
    <2>5. Complete'
      BY <2>1 DEF Complete
    <2>6. Regular'
      <3> SUFFICES ASSUME NEW i \in 1 .. Len(arrivals), arrivals[i].moved # Never
                   PROVE  arrivals[i].moved <= last - Behind(0)'
        BY <2>1 DEF Regular
      <3>1. last \in Nat
        BY DEF IInv, Clocks
      <3> QED  BY <2>3, <3>1 DEF IInv, Moved
    <2> QED  BY <2>1, <2>4, <2>5, <2>6 DEF Paced
  <1>3. CASE Draw \/ Tick \/ UNCHANGED vars
    <2>1. /\ UNCHANGED <<inTime, intvl, sets, last, avgstack, arrivals>>
          /\ clock' - now' = clock - now
      <3>1. clock \in Int /\ now \in Int
        BY DEF IInv, Clocks
      <3> QED  BY <1>3, <3>1 DEF Draw, Tick, vars, history
    <2>2. \A k : PassedAt(k)' = PassedAt(k) /\ Behind(k)' = Behind(k)
      BY <2>1 DEF PassedAt, Behind
    <2> QED  BY <2>1, <2>2 DEF Paced, Spaced, Complete, Regular
  <1>4. ASSUME NEW n \in Sizes, Packet(n)  PROVE Paced'
    <2> DEFINE a == [at |-> now, size |-> n, moved |-> Never]
    <2>1. a.moved = Never
      OBVIOUS
    <2>2. /\ UNCHANGED <<now, clock, inTime, intvl, sets, last, avgstack>>
          /\ arrivals' = Append(arrivals, a)
      BY <1>4 DEF Packet
    <2> HIDE DEF a
    <2>3. \A k : PassedAt(k)' = PassedAt(k) /\ Behind(k)' = Behind(k)
      BY <2>2 DEF PassedAt, Behind
    <2>4. Spaced => Spaced'
      BY <2>2, <2>3 DEF Spaced
    <2>5. Complete => Complete'
      BY <2>2, <2>3 DEF Complete
    <2>6. Regular => Regular'
      <3> SUFFICES ASSUME Regular, NEW i \in 1 .. Len(arrivals'), arrivals'[i].moved # Never
                   PROVE  \/ arrivals'[i].moved <= last - Behind(inTime)
                          \/ \E j \in 0 .. inTime : arrivals'[i].moved = last - Behind(j)
        BY <2>2, <2>3 DEF Regular
      <3>1. i \in 1 .. Len(arrivals) /\ arrivals'[i] = arrivals[i]
        BY <2>1, <2>2 DEF IInv, Counters
      <3> QED  BY <3>1 DEF Regular
    <2> QED  BY <2>2, <2>4, <2>5, <2>6 DEF Paced
  <1> QED
    BY <1>1, <1>2, <1>3, <1>4

\* A pass that is not in time begins the count anew; one in time lies one
\* interval after the last.
LEMMA PassKeepsPaced ==
  ASSUME IInv, Paced, Pass
  PROVE  Paced'
PROOF
  <1>1. /\ last' = now /\ UNCHANGED <<now, clock, intvl, sets>>
    BY PassTimes
  <1>2. inTime' = IF now - last # intvl THEN 0
                  ELSE IF inTime * intvl < Span THEN inTime + 1 ELSE inTime
    BY Zenon DEF Pass
  <1>4. /\ now - last # intvl => inTime' = 0
        /\ now - last = intvl => inTime' = inTime + 1 \/ inTime' = inTime
    BY <1>2, Zenon
  <1>3. inTime \in Nat /\ inTime' \in Nat
    <2>1. inTime \in Nat /\ inTime + 1 \in Nat /\ 0 \in Nat
      BY DEF Paced
    <2> QED  BY <1>4, <2>1, Zenon
  <1>17. PICK n \in Nat : inTime' = n
    BY <1>3
  <1>18. n # 0 => now - last = intvl /\ inTime <= n /\ n <= inTime + 1
    <2>1. /\ now - last # intvl => n = 0
          /\ now - last = intvl => n = inTime + 1 \/ n = inTime
      BY <1>4, <1>17, Zenon
    <2> QED  BY <1>3, <2>1
  <1>19. inTime \in Nat
    BY <1>3
  <1>5. now > last /\ now \in Nat /\ last \in Nat /\ clock \in Int /\ intvl \in Nat
    BY PassMoves, Constants DEF IInv, Clocks
  <1>6. /\ Behind(0) = 0
        /\ \A k \in Nat : Behind(k) \in Nat /\ Behind(k + 1) = Behind(k) + intvl
        /\ \A j, k \in Nat : j <= k => Behind(j) <= Behind(k)
    BY <1>5, BehindRules
  <1>7. \A k : Behind(k)' = Behind(k)
    BY <1>1 DEF Behind
  <1>8. /\ Len(avgstack') \in 1 .. Len(avgstack) + 1
        /\ avgstack'[1].ts = clock
        /\ \A k \in 2 .. Len(avgstack') :
             k - 1 \in 1 .. Len(avgstack) /\ avgstack'[k] = avgstack[k - 1]
        /\ Len(avgstack') <= Len(avgstack) =>
             avgstack[Len(avgstack')].ts <= clock - Window
    BY PassStacks DEF IInv
  <1>9. Len(avgstack) \in Nat /\ \A k \in 1 .. Len(avgstack) : avgstack[k].ts \in Nat
    <2>1. \A k \in 1 .. Len(avgstack) : avgstack[k] \in Entries
      BY DEF IInv, Counters
    <2> QED  BY <2>1 DEF IInv, Counters, Entries
  <1>10. /\ \A k \in {1} : PassedAt(k)' = now
         /\ \A k \in 2 .. Len(avgstack') : PassedAt(k)' = PassedAt(k - 1)
    BY <1>1, <1>5, <1>8 DEF PassedAt
  <1> SUFFICES ASSUME sets = 0  PROVE Spaced' /\ Complete' /\ Regular'
    BY <1>1, <1>17 DEF Paced
  <1>11. Spaced /\ Complete /\ Regular
    BY DEF Paced
  <1>12. Spaced'
    <2> SUFFICES ASSUME NEW k \in 1 .. Len(avgstack'), k <= n + 1
                 PROVE  PassedAt(k)' = now - Behind(k - 1)
      BY <1>1, <1>7, <1>17 DEF Spaced
    <2>1. CASE k = 1
      BY <1>5, <1>6, <1>10, <2>1
    <2>2. CASE k # 1
      <3>1. /\ k \in 2 .. Len(avgstack') /\ k - 1 \in 1 .. Len(avgstack)
            /\ k - 2 \in Nat /\ (k - 1) - 1 = k - 2 /\ (k - 2) + 1 = k - 1
        BY <1>8, <2>2
      <3>6. n # 0
        <4>1. k >= 2
          BY <3>1
        <4> QED  BY <1>19, <4>1
      <3>7. k - 1 <= inTime + 1
        BY <1>19, <1>18, <3>1, <3>6
      <3>2. n # 0 /\ now - last = intvl /\ k - 1 <= inTime + 1
        BY <1>18, <3>6, <3>7
      <3>3. PassedAt(k - 1) = last - Behind(k - 2)
        BY <1>11, <3>1, <3>2 DEF Spaced
      <3>4. Behind(k - 1) = Behind(k - 2) + intvl /\ Behind(k - 2) \in Nat
        BY <1>6, <3>1
      <3>5. PassedAt(k)' = PassedAt(k - 1)
        BY <1>10, <3>1
      <3> QED  BY <1>5, <3>2, <3>3, <3>4, <3>5
    <2> QED  BY <2>1, <2>2
  <1>13. Complete'
    <2> SUFFICES ASSUME NEW j \in 0 .. n - 1, Behind(j) < Window
                 PROVE  Len(avgstack') > j
      BY <1>7, <1>17 DEF Complete
    <2>1. CASE j = 0
      BY <1>8, <2>1
    <2>2. CASE j # 0
      <3>1. /\ j - 1 \in 0 .. inTime - 1 /\ (j - 1) + 1 = j /\ now - last = intvl
            /\ j \in Nat /\ j - 1 \in Nat
        <4>1. j \in Nat /\ j > 0 /\ j <= n - 1
          BY <1>19, <2>2
        <4>2. n # 0
          BY <1>19, <4>1
        <4>3. j - 1 \in 0 .. inTime - 1
          BY <1>19, <1>18, <4>1, <4>2
        <4> QED  BY <1>18, <4>1, <4>2, <4>3
      <3>2. Behind(j) = Behind(j - 1) + intvl /\ Behind(j - 1) \in Nat /\ Behind(j) \in Nat
        BY <1>6, <3>1
      <3>3. Len(avgstack) > j - 1
        BY <1>5, <1>11, <3>1, <3>2, Constants DEF Complete
      <3>4. j \in 1 .. Len(avgstack) /\ j <= inTime + 1
        BY <1>19, <1>9, <3>1, <3>3
      <3>5. PassedAt(j) = last - Behind(j - 1)
        BY <1>11, <3>4 DEF Spaced
      <3>6. PassedAt(j) > now - Window
        BY <1>5, <3>1, <3>2, <3>5, Constants
      <3> SUFFICES ASSUME ~(Len(avgstack') > j)  PROVE FALSE
        OBVIOUS
      <3> DEFINE l == Len(avgstack')
      <3>7. l \in 1 .. Len(avgstack) /\ l <= j
        BY <1>8, <3>4
      <3>8. avgstack[l].ts <= clock - Window /\ avgstack[l].ts \in Nat
        BY <1>8, <1>9, <3>7
      <3>9. PassedAt(l) <= now - Window /\ PassedAt(l) \in Int
        BY <1>5, <3>8, Constants DEF PassedAt
      <3>10. PassedAt(j) <= PassedAt(l)
        <4>1. CASE l = j
          BY <3>9, <4>1
        <4>2. CASE l # j
          <5>1. PassedAt(j) < PassedAt(l)
            BY <3>4, <3>7, <4>2 DEF IInv, Descending
          <5>2. PassedAt(j) \in Int
            BY <1>5, <3>2, <3>5
          <5> QED  BY <3>9, <5>1, <5>2
        <4> QED  BY <4>1, <4>2
      <3>11. PassedAt(j) \in Int
        BY <1>5, <3>2, <3>5
      <3> QED  BY <1>5, <3>6, <3>9, <3>10, <3>11, Constants
    <2> QED  BY <2>1, <2>2
  <1>14. Regular'
    <2>1. Len(arrivals') = Len(arrivals)
      BY PassMoves DEF IInv
    <2> SUFFICES ASSUME NEW i \in 1 .. Len(arrivals), arrivals'[i].moved # Never
                 PROVE  \/ arrivals'[i].moved <= now - Behind(n)
                        \/ \E j \in 0 .. n : arrivals'[i].moved = now - Behind(j)
      <3>1. Behind(inTime)' = Behind(n)
        BY <1>1, <1>17 DEF Behind
      <3> QED  BY <1>1, <1>7, <1>17, <2>1, <3>1 DEF Regular
    <2>2. /\ arrivals[i].moved = Never => arrivals'[i].moved = now
          /\ arrivals[i].moved # Never => /\ arrivals'[i].moved = arrivals[i].moved
                                          /\ arrivals[i].moved <= last
      BY PassMoves DEF IInv
    <2>3. arrivals[i].moved \in Nat
      BY Fields DEF IInv, Counters
    <2>4. CASE arrivals[i].moved = Never
      <3>1. 0 \in 0 .. n /\ now = now - Behind(0)
        BY <1>19, <1>5, <1>6
      <3> QED  BY <2>2, <2>4, <3>1
    <2>5. CASE arrivals[i].moved # Never
      <3>1. PICK m \in Nat : arrivals[i].moved = m
        BY <2>3
      <3>2. arrivals'[i].moved = m /\ m <= last
        BY <2>2, <2>5, <3>1
      <3> SUFFICES \/ m <= now - Behind(n)
                   \/ \E h \in 0 .. n : m = now - Behind(h)
        BY <3>2, Zenon
      <3>3. CASE n = 0
        <4>1. Behind(n) = 0
          BY <1>6, <3>3, Zenon
        <4> HIDE DEF Behind
        <4> QED  BY <1>5, <3>2, <4>1
      <3>4. CASE n # 0 /\ m <= last - Behind(inTime)
        <4>1. Behind(inTime + 1) = Behind(inTime) + intvl /\ Behind(inTime) \in Nat
          BY <1>6, <1>19, Zenon
        <4>2. inTime + 1 \in Nat /\ n <= inTime + 1
          BY <1>18, <1>19, <3>4
        <4>3. Behind(n) <= Behind(inTime + 1) /\ Behind(n) \in Nat
          BY <1>6, <4>2, Zenon
        <4> HIDE DEF Behind
        <4> QED  BY <1>5, <1>18, <3>4, <4>1, <4>3
      <3>5. ASSUME n # 0, NEW j \in 0 .. inTime, m = last - Behind(j)
            PROVE  \/ m <= now - Behind(n)
                   \/ \E h \in 0 .. n : m = now - Behind(h)
        <4>1. j \in Nat /\ j + 1 \in Nat
          BY <1>19
        <4>2. Behind(j + 1) = Behind(j) + intvl /\ Behind(j) \in Nat /\ Behind(n) \in Nat
          BY <1>6, <4>1, Zenon
        <4>3. m = now - Behind(j + 1)
          BY <1>5, <1>18, <3>5, <4>2
        <4>4. CASE j + 1 <= n
          <5>1. j + 1 \in 0 .. n
            BY <4>1, <4>4
          <5> QED  BY <4>3, <5>1
        <4>5. CASE ~(j + 1 <= n)
          <5>1. n <= j + 1
            BY <4>1, <4>5
          <5>2. Behind(n) <= Behind(j + 1)
            BY <1>6, <4>1, <5>1, Zenon
          <5>3. Behind(j + 1) \in Nat
            BY <1>6, <4>1, Zenon
          <5> QED  BY <1>5, <4>2, <4>3, <5>2, <5>3
        <4> QED  BY <4>4, <4>5
      <3>6. \/ m <= last - Behind(inTime)
            \/ \E j \in 0 .. inTime : m = last - Behind(j)
        BY <1>11, <2>5, <3>1 DEF Regular
      <3> QED  BY <3>3, <3>4, <3>5, <3>6
    <2> QED  BY <2>4, <2>5
  <1> QED
    BY <1>12, <1>13, <1>14

LEMMA PacedInductive == Spec => []Paced
PROOF
  <1>1. IInv /\ Paced /\ [Next]_vars => Paced'
    BY OthersKeepPaced, PassKeepsPaced DEF Next
  <1> QED
    BY <1>1, InitPaced, Inductive, PTL DEF Spec

\* What a number is, rounded down to a multiple of i.
LEMMA Rounded ==
  ASSUME NEW w \in Nat, NEW i \in Nat \ {0}
  PROVE  /\ w \div i \in Nat /\ (w \div i) * i \in Nat
         /\ (w \div i) * i <= w /\ w < (w \div i) * i + i
PROOF
  <1>1. PICK q \in Int : q = w \div i
    OBVIOUS
  <1>2. w \div i \in Nat
    OBVIOUS
  <1>3. q \in Nat
    BY <1>1, <1>2, Zenon
  <1>4. PICK r \in 0 .. i - 1 : w = i * q + r
    <2>1. w = i * (w \div i) + (w % i) /\ w % i \in 0 .. i - 1
      OBVIOUS
    <2> QED  BY <1>1, <2>1, Zenon
  <1>5. q * i = i * q /\ i * q \in Nat
    BY <1>3
  <1>6. q * i \in Nat /\ q * i <= w /\ w < q * i + i
    <2> DEFINE p == i * q
    <2>1. w = p + r /\ p \in Nat
      BY <1>4, <1>5, Zenon
    <2> HIDE DEF p
    <2>2. p <= w /\ w < p + i
      BY <2>1
    <2>3. q * i = p
      BY <1>5 DEF p
    <2> QED  BY <2>1, <2>2, <2>3, Zenon
  <1> QED
    BY <1>1, <1>2, <1>6, Zenon

\* The window in whole intervals.
LEMMA SpanIs ==
  ASSUME Clocks
  PROVE  \E n \in Nat : /\ n > 0 /\ Span = Behind(n)
                        /\ Behind(n - 1) < Window /\ Window <= Behind(n)
                        /\ Span \in Nat /\ Span > 0 /\ Span < LongWord
PROOF
  <1>1. intvl \in Nat \ {0} /\ intvl <= MaxIntvl /\ Window \in Nat /\ Window > 0
        /\ Window = 3 * Second /\ LongWord \in Nat /\ Window + MaxIntvl <= LongWord
        /\ MaxIntvl \in Nat
    BY IntervalIsPositive, Constants DEF Window
  <1> DEFINE w == Window + intvl - 1
             n == w \div intvl
  <1>2. w \in Nat /\ Span = n * intvl
    BY <1>1 DEF Span
  <1>3. n \in Nat /\ n * intvl \in Nat /\ n * intvl <= w /\ w < n * intvl + intvl
    <2> HIDE DEF w
    <2> QED  BY <1>1, <1>2, Rounded, Zenon
  <1> HIDE DEF n
  <1>4. n * intvl \in Nat
    BY <1>1, <1>3
  <1>5. Window <= Behind(n) /\ Span = Behind(n) /\ Behind(n) <= Window + intvl - 1
    BY <1>1, <1>2, <1>3, <1>4 DEF Behind
  <1>6. n # 0
    BY <1>1, <1>5, BehindRules
  <1>7. Behind(n) = Behind(n - 1) + intvl /\ Behind(n - 1) \in Nat
    <2>1. n - 1 \in Nat /\ (n - 1) + 1 = n
      BY <1>3, <1>6
    <2> QED  BY <1>1, <2>1, BehindRules
  <1>8. Span \in Nat /\ Span > 0 /\ Span < LongWord /\ Behind(n - 1) < Window
    BY <1>1, <1>5, <1>7
  <1> QED
    BY <1>3, <1>5, <1>6, <1>8

\* When enough passes have been in time, avgstack has one entry for every interval
\* of the span, and the entries hold what came in during it.
LEMMA WholeSpan ==
  ASSUME IInv, Paced, sets = 0, inTime * intvl >= Span
  PROVE  /\ avgstack # <<>>
         /\ intvl + (avgstack[1].ts - avgstack[Len(avgstack)].ts) = Span
         /\ BytesIn(arrivals, Kept) = BytesIn(arrivals, During)
PROOF
  <1>1. /\ intvl \in Nat /\ Window \in Nat /\ last \in Nat /\ now \in Int /\ clock \in Int
        /\ MaxTime \in Nat /\ Never = MaxTime + 1
    BY IntervalIsPositive, Constants DEF IInv, Clocks
  <1>2. /\ Behind(0) = 0
        /\ \A k \in Nat : Behind(k) \in Nat /\ Behind(k + 1) = Behind(k) + intvl
        /\ \A j, k \in Nat : j <= k => Behind(j) <= Behind(k)
    BY <1>1, BehindRules
  <1>3. PICK n \in Nat : /\ n > 0 /\ Span = Behind(n)
                         /\ Behind(n - 1) < Window /\ Window <= Behind(n)
                         /\ Span \in Nat /\ Span > 0 /\ Span < LongWord
    BY SpanIs DEF IInv
  <1>4. inTime \in Nat /\ Spaced /\ Complete /\ Regular
    BY DEF Paced
  <1>5. Behind(inTime) >= Behind(n)
    BY <1>3 DEF Behind
  <1>6. n - 1 \in Nat /\ (n - 1) + 1 = n
    BY <1>3
  <1>7. /\ Behind(n - 1) \in Nat /\ Behind(n) \in Nat /\ Behind(inTime) \in Nat
        /\ Behind(n) = Behind(n - 1) + intvl
    BY <1>2, <1>3, <1>4, <1>6, Zenon
  <1> HIDE DEF Behind
  <1>8. n <= inTime
    <2> SUFFICES ASSUME inTime <= n - 1  PROVE FALSE
      BY <1>4, <1>6
    <2>1. Behind(inTime) <= Behind(n - 1)
      BY <1>2, <1>4, <1>6, Zenon
    <2> QED  BY <1>1, <1>3, <1>5, <1>7, <2>1
  <1>9. Len(avgstack) \in Nat /\ \A k \in 1 .. Len(avgstack) : avgstack[k].ts \in Nat
    <2>1. \A k \in 1 .. Len(avgstack) : avgstack[k] \in Entries
      BY DEF IInv, Counters
    <2> QED  BY <2>1 DEF IInv, Counters, Entries
  <1>10. Len(avgstack) = n
    <2>1. Len(avgstack) > n - 1
      <3>1. n - 1 \in 0 .. inTime - 1
        BY <1>4, <1>6, <1>8
      <3> QED  BY <1>3, <1>4, <3>1 DEF Complete
    <2>2. ASSUME Len(avgstack) > n  PROVE FALSE
      <3>1. n + 1 \in 1 .. Len(avgstack) /\ n + 1 <= inTime + 1 /\ (n + 1) - 1 = n
        BY <1>4, <1>8, <1>9, <2>2
      <3>2. PassedAt(n + 1) = last - Behind(n)
        BY <1>4, <3>1 DEF Spaced
      <3>3. PassedAt(n + 1) > last - Window
        BY <3>1 DEF IInv, Marked
      <3> QED  BY <1>1, <1>3, <1>7, <3>2, <3>3
    <2> QED  BY <1>6, <1>9, <2>1, <2>2
  <1>11. avgstack # <<>> /\ intvl + (avgstack[1].ts - avgstack[n].ts) = Span
    <2>1. 1 \in 1 .. Len(avgstack) /\ n \in 1 .. Len(avgstack) /\ 1 <= inTime + 1 /\ n <= inTime + 1
      BY <1>3, <1>4, <1>8, <1>10
    <2>2. PassedAt(1) = last - Behind(0) /\ PassedAt(n) = last - Behind(n - 1)
      BY <1>4, <2>1 DEF Spaced
    <2>3. avgstack[1].ts \in Nat /\ avgstack[n].ts \in Nat
      BY <1>9, <2>1
    <2>4. avgstack[1].ts - avgstack[n].ts = Behind(n - 1)
      <3>1. PICK a \in Nat, b \in Nat, p \in Nat :
              avgstack[1].ts = a /\ avgstack[n].ts = b /\ Behind(n - 1) = p
        BY <1>7, <2>3
      <3>2. a - (clock - now) = last - 0 /\ b - (clock - now) = last - p
        BY <1>2, <2>2, <3>1 DEF PassedAt
      <3>3. a - b = p
        BY <1>1, <3>2
      <3> QED  BY <3>1, <3>3
    <2>5. avgstack # <<>>
      BY <2>1
    <2> QED  BY <1>1, <1>3, <1>7, <2>4, <2>5
  <1>14. /\ last \in Nat /\ Window \in Nat /\ Span = Behind(n)
         /\ Behind(n) \in Nat /\ Behind(n - 1) \in Nat /\ Behind(n - 1) < Window
    BY <1>1, <1>3, <1>7
  <1>12. ASSUME NEW i \in 1 .. Len(arrivals)
         PROVE  arrivals[i].moved \in Kept <=> arrivals[i].moved \in During
    <2>1. PICK m \in Nat : arrivals[i].moved = m
      BY <1>12, Fields DEF IInv, Counters
    <2> SUFFICES ASSUME m \in 0 .. MaxTime
                 PROVE  m > last - Window <=> m > last - Span
      BY <2>1 DEF Kept, During
    <2>2. m > last - Window => m > last - Span
      BY <1>1, <1>3, <1>7
    <2>3. ASSUME m > last - Span  PROVE m > last - Window
      <3>1. \/ m <= last - Behind(inTime)
            \/ \E j \in 0 .. inTime : m = last - Behind(j)
        <4>1. m # Never
          BY <1>1
        <4> QED  BY <1>4, <2>1, <4>1 DEF Regular
      <3>2. ~(m <= last - Behind(inTime))
        BY <1>1, <1>3, <1>5, <1>7, <2>3
      <3>3. PICK j \in 0 .. inTime : m = last - Behind(j)
        BY <3>1, <3>2
      <3>4. j \in Nat /\ Behind(j) \in Nat
        <4>1. j \in Nat
          BY <1>4
        <4> QED  BY <1>2, <4>1, Zenon
      <3>5. j <= n - 1
        <4> SUFFICES ASSUME n <= j  PROVE FALSE
          BY <1>3, <3>4
        <4>1. Behind(n) <= Behind(j)
          BY <1>2, <3>4, Zenon
        <4>2. m <= last - Behind(n)
          BY <1>14, <3>3, <3>4, <4>1
        <4> QED  BY <1>14, <2>3, <4>2
      <3>6. Behind(j) <= Behind(n - 1)
        BY <1>2, <1>6, <3>4, <3>5, Zenon
      <3>7. Behind(j) < Window
        BY <1>14, <3>4, <3>6
      <3> QED  BY <1>14, <3>3, <3>4, <3>7
    <2> QED  BY <2>2, <2>3
  <1>13. BytesIn(arrivals, Kept) = BytesIn(arrivals, During)
    <2>1. arrivals \in Seq(Arrivals)
      BY DEF IInv, Counters
    <2> QED  BY <1>12, <2>1, BytesSame
  <1> QED
    BY <1>10, <1>11, <1>13

\* The speed drawn is the average the display promises, for every refresh
\* interval, traffic and lateness before (TCPConnection.cc:174-198).
THEOREM SpeedIsTheAverage == Spec => RateIsAverage
PROOF
  <1>1. ASSUME IInv, Paced, Draw, sets = 0, inTime * intvl >= Span, BytesWhere(During) < Word
        PROVE  rate' = (BytesWhere(During) * Second) \div Span
    <2> DEFINE b == BytesWhere(During)
               s == SumOfSizes(avgstack) % Word
               d == intvl + (avgstack[1].ts - avgstack[Len(avgstack)].ts)
    <2>1. avgstack # <<>> /\ d = Span /\ BytesIn(arrivals, Kept) = BytesIn(arrivals, During)
      BY <1>1, WholeSpan
    <2>2. b = BytesIn(arrivals, During)
      BY DEF BytesWhere, BytesOf, BytesIn
    <2>3. b \in Nat /\ s = b % Word
      BY <1>1, <2>1, <2>2, SumOfEntries, BytesType DEF IInv, Counters
    <2>4. s = b
      <3> HIDE DEF b, s
      <3>1. b < Word
        BY <1>1 DEF b
      <3>2. Word \in Nat \ {0}
        BY Constants
      <3> QED  BY <2>3, <3>1, <3>2
    <2>5. Span \in Nat /\ Span > 0 /\ Span % LongWord = Span
      <3>1. Clocks
        BY <1>1 DEF IInv
      <3>2. Span \in Nat /\ Span > 0 /\ Span < LongWord
        BY <3>1, SpanIs
      <3>3. LongWord \in Nat \ {0}
        BY Constants
      <3> HIDE DEF Span
      <3> QED  BY <3>2, <3>3
    <2>6. rate' = IF d % LongWord > 0 THEN (s * Second) \div (d % LongWord) ELSE 0
      BY <1>1, <2>1, Zenon DEF Draw, AvgBps
    <2> QED  BY <2>1, <2>4, <2>5, <2>6, Zenon
  <1>2. IInv /\ Paced /\ [Next]_vars =>
          [Draw /\ sets = 0 /\ inTime * intvl >= Span /\ BytesWhere(During) < Word =>
             rate' = (BytesWhere(During) * Second) \div Span]_vars
    BY <1>1
  <1> QED
    BY <1>2, Inductive, PacedInductive, PTL DEF Spec, RateIsAverage

=============================================================================
