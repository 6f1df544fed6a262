----------------------------- MODULE Viewer_proofs -----------------------------
(***************************************************************************)
(* What the viewer's sinks keep of a session, for every length of          *)
(* recording, rate of screenshots and size of sheet.                       *)
(***************************************************************************)
EXTENDS Viewer, TLAPS, SequenceTheorems, FiniteSetTheorems, WellFoundedInduction

-----------------------------------------------------------------------------
(* Induction over numbers, for the functions that are defined by recursion *)

LEMMA LeastNat ==
    ASSUME NEW T, T \subseteq Nat, T # {}
    PROVE  \E x \in T : \A y \in T : x <= y
<1> DEFINE R == OpToRel(<, Nat)
<1>1. IsWellFoundedOn(R, Nat)
  BY NatLessThanWellFounded
<1>2. R = {ss \in Nat \X Nat : ss[1] < ss[2]}
  BY DEF OpToRel
<1> HIDE DEF R
<1>3. PICK x \in T : \A y \in T : ~ (<<y, x>> \in R)
  BY <1>1, WFMin
<1>4. ASSUME NEW y \in T PROVE x <= y
  <2>1. ~ (<<y, x>> \in R) /\ x \in Nat /\ y \in Nat
    BY <1>3
  <2>2. ~ (y < x)
    BY <1>2, <2>1
  <2> QED
    BY <2>1, <2>2
<1> QED
  BY <1>4

LEMMA Induct ==
    ASSUME NEW T, 0 \in T, \A n \in Nat : n \in T => n + 1 \in T
    PROVE  \A n \in Nat : n \in T
<1> SUFFICES ASSUME NEW n \in Nat, n \notin T PROVE FALSE
  OBVIOUS
<1>1. PICK x \in Nat \ T : \A y \in Nat \ T : x <= y
  <2>1. Nat \ T \subseteq Nat /\ Nat \ T # {}
    OBVIOUS
  <2> QED
    BY <2>1, LeastNat
<1>2. x # 0 /\ x - 1 \in Nat /\ x - 1 \in T /\ x = (x - 1) + 1
  BY <1>1
<1> QED
  BY <1>1, <1>2

-----------------------------------------------------------------------------
(* Byte positions in a file *)

IsTell(f, g, n) == g = [i \in 0..n |-> IF i = 0 THEN 0 ELSE g[i - 1] + Bytes(f[i])]

LEMMA TellExists ==
    ASSUME NEW f
    PROVE  \A n \in Nat : \E g : IsTell(f, g, n)
<1> DEFINE T == {n \in Nat : \E g : IsTell(f, g, n)}
<1>1. 0 \in T
  <2>1. IsTell(f, [i \in 0..0 |-> 0], 0)
    BY DEF IsTell
  <2> QED
    BY <2>1
<1>2. ASSUME NEW n \in Nat, n \in T PROVE n + 1 \in T
  <2>1. PICK g : IsTell(f, g, n)
    BY <1>2
  <2> DEFINE h == [i \in 0..n + 1 |-> IF i = n + 1 THEN g[n] + Bytes(f[i]) ELSE g[i]]
  <2>2. \A i \in 0..n : g[i] = IF i = 0 THEN 0 ELSE g[i - 1] + Bytes(f[i])
    BY <2>1 DEF IsTell
  <2>3. \A i \in 0..n + 1 : h[i] = IF i = 0 THEN 0 ELSE h[i - 1] + Bytes(f[i])
    BY <2>2
  <2>4. DOMAIN h = 0..n + 1 /\ h = [i \in 0..n + 1 |-> h[i]]
    OBVIOUS
  <2> HIDE DEF h
  <2>5. h = [i \in 0..n + 1 |-> IF i = 0 THEN 0 ELSE h[i - 1] + Bytes(f[i])]
    BY <2>3, <2>4
  <2> QED
    BY <2>5 DEF IsTell
<1> QED
  <2> HIDE DEF T
  <2>1. \A n \in Nat : n \in T
    BY <1>1, <1>2, Induct
  <2> QED
    BY <2>1 DEF T

LEMMA TellUnique ==
    ASSUME NEW f, NEW g, NEW h, NEW m \in Nat, NEW n \in Nat, m <= n,
           IsTell(f, g, m), IsTell(f, h, n)
    PROVE  \A i \in 0..m : g[i] = h[i]
<1> DEFINE T == {i \in Nat : i <= m => g[i] = h[i]}
<1>1. /\ \A i \in 0..m : g[i] = IF i = 0 THEN 0 ELSE g[i - 1] + Bytes(f[i])
      /\ \A i \in 0..n : h[i] = IF i = 0 THEN 0 ELSE h[i - 1] + Bytes(f[i])
  BY DEF IsTell
<1>2. 0 \in T
  BY <1>1
<1>3. ASSUME NEW i \in Nat, i \in T PROVE i + 1 \in T
  BY <1>1, <1>3
<1> HIDE DEF T
<1>4. \A i \in Nat : i \in T
  BY <1>2, <1>3, Induct
<1> QED
  BY <1>4 DEF T

\* Tell adds up the bytes of the pieces.
LEMMA TellStep ==
    ASSUME NEW f
    PROVE  /\ Tell(f, 0) = 0
           /\ \A n \in Nat : Tell(f, n + 1) = Tell(f, n) + Bytes(f[n + 1])
<1> DEFINE G(n) == CHOOSE g : IsTell(f, g, n)
<1>1. \A n : Tell(f, n) = G(n)[n]
  BY DEF Tell, IsTell
<1>2. \A n \in Nat : IsTell(f, G(n), n)
  BY TellExists
<1> HIDE DEF G
<1>3. Tell(f, 0) = 0
  BY <1>1, <1>2 DEF IsTell
<1>4. ASSUME NEW n \in Nat PROVE Tell(f, n + 1) = Tell(f, n) + Bytes(f[n + 1])
  <2>1. IsTell(f, G(n), n) /\ IsTell(f, G(n + 1), n + 1) /\ n <= n + 1 /\ n + 1 \in Nat
    BY <1>2
  <2>2. G(n)[n] = G(n + 1)[n]
    BY <2>1, TellUnique
  <2>3. G(n + 1)[n + 1] = G(n + 1)[n] + Bytes(f[n + 1])
    BY <2>1 DEF IsTell
  <2> QED
    BY <1>1, <2>2, <2>3
<1> QED
  BY <1>3, <1>4

-----------------------------------------------------------------------------
(* One in k *)

\* The quotient and the rest are the only ones there are.
LEMMA Quotient ==
    ASSUME NEW a \in Nat, NEW k \in Nat \ {0}
    PROVE  /\ a \div k \in Nat /\ a % k \in 0..k - 1
           /\ a = k * (a \div k) + (a % k)
  OBVIOUS

LEMMA QuotientOnly ==
    ASSUME NEW k \in Nat \ {0}, NEW q \in Nat, NEW p \in Nat, NEW r \in 0..k - 1, NEW s \in 0..k - 1,
           k * q + r = k * p + s
    PROVE  q = p
<1>1. k * (q - p) = s - r
  OBVIOUS
<1>2. k * (q - p) < k /\ k * (q - p) > -k
  BY <1>1
<1>3. ASSUME q > p PROVE FALSE
  <2>1. q - p >= 1 /\ q - p \in Nat
    BY <1>3
  <2>2. k * (q - p) >= k
    BY <2>1
  <2> QED
    BY <1>2, <2>2
<1>4. ASSUME p > q PROVE FALSE
  <2>1. p - q >= 1 /\ p - q \in Nat
    BY <1>4
  <2>2. k * (p - q) >= k /\ k * (q - p) = -(k * (p - q))
    BY <2>1
  <2> QED
    BY <1>2, <2>2
<1> QED
  BY <1>3, <1>4

LEMMA RoundUp ==
    ASSUME NEW n \in Nat, NEW k \in Nat \ {0}
    PROVE  /\ n % k = 0 => (n + k - 1) \div k = n \div k /\ n = (n \div k) * k
           /\ n % k # 0 => (n + k - 1) \div k = n \div k + 1
           /\ (n + k) \div k = n \div k + 1
<1> DEFINE q == n \div k
           r == n % k
           p == (n + (k - 1)) \div k
           s == (n + (k - 1)) % k
           o == (n + k) \div k
           t == (n + k) % k
<1>1. q \in Nat /\ r \in 0..k - 1 /\ n = k * q + r
  BY Quotient
<1>2. p \in Nat /\ s \in 0..k - 1 /\ n + (k - 1) = k * p + s
  <2>1. n + (k - 1) \in Nat
    OBVIOUS
  <2> QED
    BY <2>1, Quotient
<1>3. o \in Nat /\ t \in 0..k - 1 /\ n + k = k * o + t
  <2>1. n + k \in Nat
    OBVIOUS
  <2> QED
    BY <2>1, Quotient
<1>4. n + k - 1 = n + (k - 1)
  OBVIOUS
<1> HIDE DEF q, r, p, s, o, t
<1>5. r = 0 => p = q /\ n = q * k
  <2> SUFFICES ASSUME r = 0 PROVE p = q /\ n = q * k
    OBVIOUS
  <2>1. n = q * k /\ k * p + s = k * q + (k - 1) /\ k - 1 \in 0..k - 1
    BY <1>1, <1>2
  <2> QED
    BY <1>1, <1>2, <2>1, QuotientOnly
<1>6. r # 0 => p = q + 1
  <2> SUFFICES ASSUME r # 0 PROVE p = q + 1
    OBVIOUS
  <2>1. k * (q + 1) = k * q + k
    BY <1>1
  <2>2. k * p + s = k * (q + 1) + (r - 1) /\ r - 1 \in 0..k - 1 /\ q + 1 \in Nat
    BY <1>1, <1>2, <2>1
  <2> QED
    BY <1>1, <1>2, <2>2, QuotientOnly
<1>7. o = q + 1
  <2>1. k * (q + 1) = k * q + k
    BY <1>1
  <2>2. k * o + t = k * (q + 1) + r /\ q + 1 \in Nat
    BY <1>1, <1>3, <2>1
  <2> QED
    BY <1>1, <1>3, <2>2, QuotientOnly
<1> QED
  BY <1>4, <1>5, <1>6, <1>7 DEF q, r, p, s, o, t

\* A place that is picked is one of the sequence.
LEMMA KthPlace ==
    ASSUME NEW n \in Nat, NEW k \in Nat \ {0}, NEW i \in 1..(n + k - 1) \div k
    PROVE  (i - 1) * k + 1 \in 1..n
<1> DEFINE q == n \div k
           r == n % k
<1>1. q \in Nat /\ r \in 0..k - 1 /\ n = k * q + r
  BY Quotient
<1>2. (n + k - 1) \div k = IF r = 0 THEN q ELSE q + 1
  BY RoundUp
<1> HIDE DEF q, r
<1>3. i \in Nat \ {0} /\ i - 1 \in Nat /\ (i - 1) * k \in Nat
  BY <1>1, <1>2
<1>4. ASSUME NEW p \in Nat, i - 1 <= p PROVE (i - 1) * k <= k * p
  <2>1. PICK e \in Nat : p = (i - 1) + e
    BY <1>3, <1>4
  <2>2. k * p = (i - 1) * k + k * e /\ k * e \in Nat
    BY <1>3, <2>1
  <2> QED
    BY <1>3, <2>2
<1>5. CASE r = 0
  <2>1. q - 1 \in Nat /\ i - 1 <= q - 1
    BY <1>1, <1>2, <1>3, <1>5
  <2>2. (i - 1) * k <= k * (q - 1)
    BY <1>4, <2>1
  <2>3. k * (q - 1) = k * q - k
    BY <1>1
  <2>4. k * q = n /\ k * q \in Nat
    BY <1>1, <1>5
  <2> QED
    BY <1>3, <2>2, <2>3, <2>4
<1>6. CASE r # 0
  <2>1. i - 1 <= q
    BY <1>1, <1>2, <1>3, <1>6
  <2>2. (i - 1) * k <= k * q /\ k * q \in Nat
    BY <1>1, <1>4, <2>1
  <2> QED
    BY <1>1, <1>3, <1>6, <2>2
<1> QED
  BY <1>5, <1>6

\* One element more is one pick more on every k-th.
LEMMA EveryKthAppend ==
    ASSUME NEW s \in Seq(Nat), NEW f \in Nat, NEW k \in Nat \ {0}
    PROVE  /\ EveryKth(s, k) \in Seq(Nat) /\ Len(EveryKth(s, k)) = (Len(s) + k - 1) \div k
           /\ EveryKth(Append(s, f), k) = IF Len(s) % k = 0 THEN Append(EveryKth(s, k), f)
                                          ELSE EveryKth(s, k)
           /\ (Len(s) + 1 + k - 1) \div k
                = IF Len(s) % k = 0 THEN (Len(s) + k - 1) \div k + 1 ELSE (Len(s) + k - 1) \div k
<1> DEFINE n == Len(s)
           m == (n + k - 1) \div k
           m1 == (n + 1 + k - 1) \div k
           more == Append(s, f)
<1>1. n \in Nat
  OBVIOUS
<1>2. /\ Len(more) = n + 1 /\ more[n + 1] = f /\ \A i \in 1..n : more[i] = s[i]
  BY AppendProperties
<1>3. /\ m1 = IF n % k = 0 THEN m + 1 ELSE m
      /\ m \in Nat
      /\ n % k = 0 => n = m * k
  <2>1. n + 1 + k - 1 = n + k
    BY <1>1
  <2>2. m1 = n \div k + 1
    BY <1>1, <2>1, RoundUp
  <2>3. n % k = 0 => m = n \div k /\ n = m * k
    BY <1>1, RoundUp
  <2>4. n % k # 0 => m = n \div k + 1
    BY <1>1, RoundUp
  <2>5. n \div k \in Nat
    BY <1>1, Quotient
  <2> HIDE DEF m, m1
  <2> QED
    BY <2>2, <2>3, <2>4, <2>5
<1> HIDE DEF m, m1, more
<1>4. \A i \in 1..m : (i - 1) * k + 1 \in 1..n
  BY <1>1, KthPlace DEF m
<1>5. EveryKth(s, k) = [i \in 1..m |-> s[(i - 1) * k + 1]]
  BY DEF EveryKth, m, n
<1>6. EveryKth(more, k) = [i \in 1..m1 |-> more[(i - 1) * k + 1]]
  BY <1>2 DEF EveryKth, m1
<1>7. /\ EveryKth(s, k) \in Seq(Nat) /\ Len(EveryKth(s, k)) = m
      /\ \A i \in 1..m : EveryKth(s, k)[i] = s[(i - 1) * k + 1]
  <2>1. \A i \in 1..m : s[(i - 1) * k + 1] \in Nat
    BY <1>4
  <2>2. [i \in 1..m |-> s[(i - 1) * k + 1]] \in [1..m -> Nat]
    BY <2>1
  <2>3. [1..m -> Nat] \subseteq Seq(Nat)
    BY <1>3, SeqDef
  <2>4. EveryKth(s, k) \in Seq(Nat) /\ DOMAIN EveryKth(s, k) = 1..m
    BY <1>5, <2>2, <2>3
  <2>5. Len(EveryKth(s, k)) = m
    BY <1>3, <2>4, LenProperties
  <2> QED
    BY <1>5, <2>4, <2>5
<1>8. CASE n % k = 0
  <2>1. m1 = m + 1 /\ ((m + 1) - 1) * k + 1 = n + 1
    BY <1>1, <1>3, <1>8
  <2> DEFINE t == Append(EveryKth(s, k), f)
  <2>2. /\ t \in Seq(Nat) /\ Len(t) = m + 1 /\ t[m + 1] = f
        /\ \A i \in 1..m : t[i] = EveryKth(s, k)[i]
    BY <1>7, AppendProperties
  <2>3. DOMAIN t = 1..m + 1 /\ t = [i \in 1..m + 1 |-> t[i]]
    <3> HIDE DEF t
    <3>1. t \in [1..Len(t) -> Nat]
      BY <2>2, LenProperties
    <3> QED
      BY <2>2, <3>1
  <2> HIDE DEF t
  <2>4. ASSUME NEW i \in 1..m + 1 PROVE t[i] = more[(i - 1) * k + 1]
    <3>1. CASE i \in 1..m
      BY <1>2, <1>4, <1>7, <2>2, <3>1
    <3>2. CASE i = m + 1
      BY <1>2, <2>1, <2>2, <3>2
    <3> QED
      BY <1>3, <3>1, <3>2
  <2>5. t = EveryKth(more, k)
    BY <1>6, <2>1, <2>3, <2>4
  <2> QED
    BY <1>3, <1>7, <1>8, <2>5 DEF t, more, m, m1
<1>9. CASE n % k # 0
  <2>1. m1 = m
    BY <1>3, <1>9
  <2>2. \A i \in 1..m : more[(i - 1) * k + 1] = s[(i - 1) * k + 1]
    BY <1>2, <1>4
  <2>3. EveryKth(more, k) = EveryKth(s, k)
    BY <1>5, <1>6, <2>1, <2>2
  <2> QED
    BY <1>3, <1>7, <1>9, <2>3 DEF more, m, m1
<1> QED
  BY <1>8, <1>9

\* Quotients of numbers that are k apart differ.
LEMMA QuotientGrows ==
    ASSUME NEW a \in Nat, NEW b \in Nat, NEW k \in Nat \ {0}, a + k <= b
    PROVE  a \div k < b \div k
<1> DEFINE q == a \div k
           p == b \div k
<1>1. PICK r \in 0..k - 1 : q \in Nat /\ a = k * q + r
  BY Quotient
<1>2. PICK s \in 0..k - 1 : p \in Nat /\ b = k * p + s
  BY Quotient
<1> HIDE DEF q, p
<1>3. SUFFICES ASSUME p <= q PROVE FALSE
  BY <1>1, <1>2 DEF q, p
<1>4. PICK e \in Nat : q = p + e
  BY <1>1, <1>2, <1>3
<1>5. k * q = k * p + k * e /\ k * e \in Nat /\ k * p \in Nat
  BY <1>2, <1>4
<1> QED
  BY <1>1, <1>2, <1>5

LEMMA QuotientBelow ==
    ASSUME NEW a \in Nat, NEW n \in Nat, NEW k \in Nat \ {0}, a < k * n
    PROVE  a \div k < n
<1> DEFINE q == a \div k
<1>1. PICK r \in 0..k - 1 : q \in Nat /\ a = k * q + r
  BY Quotient
<1> HIDE DEF q
<1>2. SUFFICES ASSUME n <= q PROVE FALSE
  BY <1>1 DEF q
<1>3. PICK e \in Nat : q = n + e
  BY <1>1, <1>2
<1>4. k * q = k * n + k * e /\ k * e \in Nat /\ k * n \in Nat
  BY <1>3
<1> QED
  BY <1>1, <1>4

-----------------------------------------------------------------------------
(* Thinning *)

Rising(s) == \A i, j \in 1..Len(s) : i < j => s[i] < s[j]

\* t is a choice of the elements of s, the first one among them.
Chosen(t, s) == /\ t \in Seq(Nat) /\ Rising(t)
                /\ \A i \in 1..Len(t) : \E j \in 1..Len(s) : t[i] = s[j]
                /\ t = <<>> <=> s = <<>>
                /\ s # <<>> => t[1] = s[1]

\* p are the places in s of the elements of t: from the first to the last, and
\* never denser early than late.
Covers(p, t, s) ==
    /\ p \in Seq(Nat) /\ t \in Seq(Nat) /\ Len(p) = Len(t) /\ Rising(p)
    /\ \A i \in 1..Len(p) : p[i] \in 1..Len(s) /\ t[i] = s[p[i]]
    /\ s # <<>> => Len(p) > 0 /\ p[1] = 1 /\ p[Len(p)] = Len(s)
    /\ \A i \in 1..Len(p) - 2 : p[i + 1] - p[i] >= p[i + 2] - p[i + 1]

LEMMA FunctionIsSeq ==
    ASSUME NEW m \in Nat, NEW t, t = [i \in 1..m |-> t[i]], \A i \in 1..m : t[i] \in Nat
    PROVE  t \in Seq(Nat) /\ Len(t) = m
<1>1. t \in [1..m -> Nat]
  OBVIOUS
<1>2. [1..m -> Nat] \subseteq Seq(Nat)
  BY SeqDef
<1>3. DOMAIN t = 1..m
  BY <1>1
<1> QED
  BY <1>1, <1>2, <1>3, LenProperties

LEMMA RisingMore ==
    ASSUME NEW s \in Seq(Nat), NEW f \in Nat, Rising(s), \A i \in 1..Len(s) : s[i] < f
    PROVE  Rising(Append(s, f))
<1>1. /\ Len(Append(s, f)) = Len(s) + 1 /\ Append(s, f)[Len(s) + 1] = f /\ Len(s) \in Nat
      /\ \A i \in 1..Len(s) : Append(s, f)[i] = s[i]
  BY AppendProperties, LenProperties
<1> SUFFICES ASSUME NEW i \in 1..Len(s) + 1, NEW j \in 1..Len(s) + 1, i < j
             PROVE  Append(s, f)[i] < Append(s, f)[j]
  BY <1>1 DEF Rising
<1>2. CASE j = Len(s) + 1
  BY <1>1, <1>2
<1>3. CASE j \in 1..Len(s)
  BY <1>1, <1>3 DEF Rising
<1> QED
  BY <1>1, <1>2, <1>3

\* The newest frame is as close to the one before it as can be.
LEMMA CoversMore ==
    ASSUME NEW p, NEW s \in Seq(Nat), NEW t, NEW f \in Nat, Covers(p, t, s)
    PROVE  Covers(Append(p, Len(s) + 1), Append(t, f), Append(s, f))
<1> DEFINE n == Len(s) + 1
           m == Len(p)
           pp == Append(p, n)
           tt == Append(t, f)
           ss == Append(s, f)
<1>1. p \in Seq(Nat) /\ t \in Seq(Nat) /\ m = Len(t) /\ m \in Nat /\ n \in Nat \ {0}
  BY DEF Covers
<1>2. /\ pp \in Seq(Nat) /\ Len(pp) = m + 1 /\ pp[m + 1] = n
      /\ \A i \in 1..m : pp[i] = p[i]
  BY <1>1, AppendProperties
<1>3. /\ tt \in Seq(Nat) /\ Len(tt) = m + 1 /\ tt[m + 1] = f
      /\ \A i \in 1..m : tt[i] = t[i]
  BY <1>1, AppendProperties
<1>4. /\ Len(ss) = n /\ ss[n] = f /\ \A i \in 1..n - 1 : ss[i] = s[i]
  BY AppendProperties
<1>5. \A i \in 1..m : p[i] \in 1..n - 1 /\ t[i] = s[p[i]] /\ p[i] \in Nat
  BY <1>1 DEF Covers
<1>6. s = <<>> <=> n = 1
  BY EmptySeq
<1>7. /\ n > 1 => m > 0 /\ p[1] = 1 /\ p[m] = n - 1
      /\ Rising(p) /\ \A i \in 1..m - 2 : p[i + 1] - p[i] >= p[i + 2] - p[i + 1]
  BY <1>1, <1>6 DEF Covers
<1>8. n = 1 => m = 0
  <2> SUFFICES ASSUME n = 1, m # 0 PROVE FALSE
    OBVIOUS
  <2>1. 1 \in 1..m
    BY <1>1
  <2> QED
    BY <1>5, <2>1
<1>9. Rising(pp)
  <2>1. n \in Nat /\ p \in Seq(Nat) /\ Rising(p) /\ \A i \in 1..Len(p) : p[i] < n
    BY <1>1, <1>5, <1>7
  <2> HIDE DEF n
  <2> QED
    BY <2>1, RisingMore
<1> HIDE DEF n, m, pp, tt, ss
<1>10. \A i \in 1..m + 1 : pp[i] \in 1..n /\ tt[i] = ss[pp[i]]
  <2>1. ASSUME NEW i \in 1..m PROVE pp[i] \in 1..n /\ tt[i] = ss[pp[i]]
    <3>1. p[i] \in 1..n - 1 /\ p[i] \in 1..n /\ t[i] = s[p[i]]
      BY <1>1, <1>5
    <3>2. pp[i] = p[i] /\ tt[i] = t[i] /\ ss[p[i]] = s[p[i]]
      BY <1>2, <1>3, <1>4, <3>1
    <3> QED
      BY <3>1, <3>2
  <2>2. pp[m + 1] \in 1..n /\ tt[m + 1] = ss[pp[m + 1]]
    BY <1>1, <1>2, <1>3, <1>4
  <2>3. \A i \in 1..m + 1 : i \in 1..m \/ i = m + 1
    BY <1>1
  <2> QED
    BY <2>1, <2>2, <2>3
<1>11. m + 1 > 0 /\ pp[1] = 1 /\ pp[m + 1] = n
  <2>1. CASE n = 1
    BY <1>1, <1>2, <1>8, <2>1
  <2>2. CASE n > 1
    <3>1. 1 \in 1..m
      BY <1>1, <1>7, <2>2
    <3> QED
      BY <1>1, <1>2, <1>7, <2>2, <3>1
  <2> QED
    BY <1>1, <2>1, <2>2
<1>12. ASSUME NEW i \in 1..m - 1 PROVE pp[i + 1] - pp[i] >= pp[i + 2] - pp[i + 1]
  <2>1. CASE i = m - 1
    <3>1. m \in 1..m /\ m - 1 \in 1..m /\ n > 1 /\ i + 1 = m /\ i + 2 = m + 1
      BY <1>1, <1>8, <2>1
    <3>2. p[m - 1] < p[m]
      BY <3>1, <1>7 DEF Rising, m
    <3>3. pp[m + 1] = n /\ pp[m] = n - 1 /\ pp[m - 1] < n - 1 /\ pp[m - 1] \in Nat
      BY <1>2, <1>5, <1>7, <3>1, <3>2
    <3> QED
      BY <1>1, <2>1, <3>1, <3>3
  <2>2. CASE i \in 1..m - 2
    <3>1. i \in 1..m /\ i + 1 \in 1..m /\ i + 2 \in 1..m
      BY <1>1, <2>2
    <3> QED
      BY <1>2, <1>7, <2>2, <3>1
  <2> QED
    BY <1>1, <2>1, <2>2
<1>13. (m + 1) - 2 = m - 1
  BY <1>1
<1>14. Covers(pp, tt, ss)
  BY <1>2, <1>3, <1>4, <1>9, <1>10, <1>11, <1>12, <1>13 DEF Covers
<1> QED
  BY <1>14 DEF pp, tt, ss, n

\* Every other one of an odd number is the first, the last, and as even.
LEMMA CoversThinned ==
    ASSUME NEW p, NEW s, NEW t, NEW c \in Nat, Covers(p, t, s), Len(t) = 2 * c + 1
    PROVE  Covers(EveryOther(p), EveryOther(t), s) /\ Len(EveryOther(t)) = c + 1
<1> DEFINE m == c + 1
           pp == EveryOther(p)
           tt == EveryOther(t)
<1>1. p \in Seq(Nat) /\ t \in Seq(Nat) /\ Len(p) = 2 * c + 1
  BY DEF Covers
<1>2. (2 * c + 1 + 1) \div 2 = c + 1
  OBVIOUS
<1>3. pp = [i \in 1..m |-> p[2 * i - 1]] /\ tt = [i \in 1..m |-> t[2 * i - 1]]
  BY <1>1, <1>2 DEF EveryOther
<1>4. \A i \in 1..m : 2 * i - 1 \in 1..2 * c + 1
  OBVIOUS
<1>5. \A i \in 1..2 * c + 1 : p[i] \in Nat /\ t[i] \in Nat
  BY <1>1
<1> HIDE DEF pp, tt
<1>6. \A i \in 1..m : pp[i] = p[2 * i - 1] /\ tt[i] = t[2 * i - 1] /\ pp[i] \in Nat /\ tt[i] \in Nat
  BY <1>3, <1>4, <1>5
<1>7. pp \in Seq(Nat) /\ Len(pp) = m
  <2>1. pp = [i \in 1..m |-> pp[i]] /\ m \in Nat
    BY <1>3
  <2> QED
    BY <1>6, <2>1, FunctionIsSeq
<1>8. tt \in Seq(Nat) /\ Len(tt) = m
  <2>1. tt = [i \in 1..m |-> tt[i]] /\ m \in Nat
    BY <1>3
  <2> QED
    BY <1>6, <2>1, FunctionIsSeq
<1>9. /\ \A i, j \in 1..2 * c + 1 : i < j => p[i] < p[j]
      /\ \A i \in 1..2 * c + 1 : p[i] \in 1..Len(s) /\ t[i] = s[p[i]]
      /\ s # <<>> => p[1] = 1 /\ p[2 * c + 1] = Len(s)
      /\ \A i \in 1..(2 * c + 1) - 2 : p[i + 1] - p[i] >= p[i + 2] - p[i + 1]
  BY <1>1 DEF Covers, Rising
<1>10. Rising(pp)
  <2> SUFFICES ASSUME NEW i \in 1..m, NEW j \in 1..m, i < j PROVE pp[i] < pp[j]
    BY <1>7 DEF Rising
  <2>1. 2 * i - 1 \in 1..2 * c + 1 /\ 2 * j - 1 \in 1..2 * c + 1 /\ 2 * i - 1 < 2 * j - 1
    BY <1>4
  <2> QED
    BY <1>6, <1>9, <2>1
<1>11. \A i \in 1..m : pp[i] \in 1..Len(s) /\ tt[i] = s[pp[i]]
  BY <1>4, <1>6, <1>9
<1>12. s # <<>> => m > 0 /\ pp[1] = 1 /\ pp[m] = Len(s)
  <2>1. 1 \in 1..m /\ m \in 1..m /\ 2 * 1 - 1 = 1 /\ 2 * m - 1 = 2 * c + 1 /\ m > 0
    OBVIOUS
  <2> QED
    BY <1>6, <1>9, <2>1
<1>13. ASSUME NEW i \in 1..m - 2 PROVE pp[i + 1] - pp[i] >= pp[i + 2] - pp[i + 1]
  <2>1. i \in Nat /\ i + 1 \in 1..m /\ i + 2 \in 1..m /\ i \in 1..m
    OBVIOUS
  <2>2. PICK k \in Nat : k = 2 * i - 1 /\ k \in 1..2 * c + 1 - 4
    BY <2>1
  <2>3. 2 * (i + 1) - 1 = k + 2 /\ 2 * (i + 2) - 1 = k + 4
    BY <2>1, <2>2
  <2>4. pp[i] = p[k] /\ pp[i + 1] = p[k + 2] /\ pp[i + 2] = p[k + 4]
    BY <1>6, <2>1, <2>2, <2>3
  <2>5. k \in 1..(2 * c + 1) - 2 /\ k + 1 \in 1..(2 * c + 1) - 2 /\ k + 2 \in 1..(2 * c + 1) - 2
    BY <2>2
  <2>6. /\ p[k + 1] - p[k] >= p[k + 2] - p[k + 1]
        /\ p[k + 2] - p[k + 1] >= p[k + 3] - p[k + 2]
        /\ p[k + 3] - p[k + 2] >= p[k + 4] - p[k + 3]
    <3>1. k + 1 + 1 = k + 2 /\ k + 1 + 2 = k + 3 /\ k + 2 + 1 = k + 3 /\ k + 2 + 2 = k + 4
      BY <2>2
    <3> QED
      BY <1>9, <2>5, <3>1
  <2>7. p[k] \in Nat /\ p[k + 1] \in Nat /\ p[k + 2] \in Nat /\ p[k + 3] \in Nat /\ p[k + 4] \in Nat
    <3>1. k + 3 \in 1..2 * c + 1 /\ k + 4 \in 1..2 * c + 1 /\ k \in 1..2 * c + 1
          /\ k + 1 \in 1..2 * c + 1 /\ k + 2 \in 1..2 * c + 1
      BY <2>2
    <3> QED
      BY <1>5, <3>1
  <2>8. PICK a0 \in Nat, a1 \in Nat, a2 \in Nat, a3 \in Nat, a4 \in Nat :
           a0 = p[k] /\ a1 = p[k + 1] /\ a2 = p[k + 2] /\ a3 = p[k + 3] /\ a4 = p[k + 4]
    BY <2>7
  <2>9. p[k + 2] - p[k] >= p[k + 4] - p[k + 2]
    <3>1. a1 - a0 >= a2 - a1 /\ a2 - a1 >= a3 - a2 /\ a3 - a2 >= a4 - a3
      BY <2>6, <2>8
    <3>2. a2 - a0 >= a4 - a2
      BY <3>1
    <3> QED
      BY <2>8, <3>2
  <2> QED
    BY <2>4, <2>9
<1>14. Covers(pp, tt, s)
  BY <1>7, <1>8, <1>10, <1>11, <1>12, <1>13 DEF Covers
<1> QED
  BY <1>8, <1>14 DEF pp, tt

\* Thinning leaves room for another frame before the next.
LEMMA ThinCovers ==
    ASSUME NEW p, NEW s, NEW t, Covers(p, t, s), Len(t) <= 2 * ContactMax + 1
    PROVE  \E q : Covers(q, Thin(t), s) /\ Len(Thin(t)) <= 2 * ContactMax
<1>1. Len(t) \in Nat /\ ContactMax \in Nat \ {0}
  BY CaptureAssumption DEF Covers
<1>2. CASE Len(t) > 2 * ContactMax
  <2>1. Len(t) = 2 * ContactMax + 1 /\ Thin(t) = EveryOther(t) /\ ContactMax \in Nat
    BY <1>1, <1>2 DEF Thin
  <2>2. Covers(EveryOther(p), EveryOther(t), s) /\ Len(EveryOther(t)) = ContactMax + 1
    BY <2>1, CoversThinned
  <2>3. ContactMax + 1 <= 2 * ContactMax
    BY <1>1
  <2> QED
    BY <2>1, <2>2, <2>3
<1>3. CASE ~(Len(t) > 2 * ContactMax)
  BY <1>1, <1>3 DEF Thin
<1> QED
  BY <1>2, <1>3

\* What is kept rises with what it is kept of.
LEMMA CoversRises ==
    ASSUME NEW p, NEW s \in Seq(Nat), NEW t, Covers(p, t, s), Rising(s)
    PROVE  Rising(t)
  BY DEF Covers, Rising

LEMMA ChosenSelf ==
    ASSUME NEW s \in Seq(Nat), Rising(s)
    PROVE  Chosen(s, s)
  BY DEF Chosen

LEMMA TilesChoose ==
    ASSUME NEW s \in Seq(Nat), Rising(s)
    PROVE  /\ Chosen(Tiles(s), s)
           /\ Len(Tiles(s)) = IF Len(s) <= ContactMax THEN Len(s) ELSE ContactMax
<1> DEFINE n == Len(s)
           c == ContactMax
           at == [i \in 1..c |-> ((i - 1) * n) \div c + 1]
           t == Tiles(s)
<1>1. n \in Nat /\ c \in Nat \ {0}
  BY CaptureAssumption
<1>2. CASE n > c
  <2>1. t = [i \in 1..c |-> s[((i - 1) * n) \div c + 1]]
    BY <1>2 DEF Tiles
  <2>2. \A i \in 1..c : (i - 1) * n \in Nat /\ at[i] = ((i - 1) * n) \div c + 1
    BY <1>1
  <2> HIDE DEF t, at, n, c
  <2>3. ASSUME NEW i \in 1..c PROVE at[i] \in 1..n
    <3>1. (i - 1) * n < c * n
      <4>1. PICK e \in Nat : c = (i - 1) + e + 1
        BY <1>1
      <4>2. c * n = (i - 1) * n + e * n + n /\ e * n \in Nat
        BY <1>1, <4>1
      <4> QED
        BY <1>1, <1>2, <2>2, <4>2
    <3>2. ((i - 1) * n) \div c < n /\ ((i - 1) * n) \div c \in Nat
      BY <1>1, <2>2, <3>1, QuotientBelow, Quotient
    <3> QED
      BY <1>1, <2>2, <3>2
  <2>4. ASSUME NEW i \in 1..c, NEW j \in 1..c, i < j PROVE at[i] < at[j]
    <3>1. PICK e \in Nat : j = i + 1 + e
      BY <1>1, <2>4
    <3>2. (j - 1) * n = (i - 1) * n + n + e * n /\ e * n \in Nat
      BY <1>1, <3>1
    <3>3. (i - 1) * n + c <= (j - 1) * n
      BY <1>1, <1>2, <2>2, <3>2
    <3>4. ((i - 1) * n) \div c < ((j - 1) * n) \div c
      BY <1>1, <2>2, <3>3, QuotientGrows
    <3>5. ((i - 1) * n) \div c \in Nat /\ ((j - 1) * n) \div c \in Nat
      BY <1>1, <2>2, Quotient
    <3> QED
      BY <2>2, <3>4, <3>5
  <2>5. at[1] = 1
    <3>1. 1 \in 1..c /\ (1 - 1) * n = 0 /\ 0 \div c = 0
      BY <1>1
    <3> QED
      BY <2>2, <3>1
  <2>6. \A i \in 1..c : t[i] = s[at[i]]
    BY <2>1, <2>2
  <2>7. t \in Seq(Nat) /\ Len(t) = c
    <3>1. t = [i \in 1..c |-> t[i]]
      BY <2>1
    <3>2. \A i \in 1..c : t[i] \in Nat
      BY <2>3, <2>6 DEF n
    <3> QED
      BY <1>1, <3>1, <3>2, FunctionIsSeq
  <2>8. Rising(t)
    BY <2>3, <2>4, <2>6, <2>7 DEF Rising, n
  <2>9. t # <<>> /\ s # <<>> /\ t[1] = s[1]
    <3>1. 1 \in 1..c
      BY <1>1
    <3>2. Len(<<>>) = 0
      OBVIOUS
    <3> QED
      BY <1>1, <1>2, <2>5, <2>6, <2>7, <3>1, <3>2 DEF n
  <2>10. \A i \in 1..Len(t) : \E j \in 1..Len(s) : t[i] = s[j]
    BY <2>3, <2>6, <2>7 DEF n
  <2> QED
    BY <1>1, <1>2, <2>7, <2>8, <2>9, <2>10 DEF Chosen, t, c, n
<1>3. CASE ~(n > c)
  BY <1>1, <1>3, ChosenSelf DEF Tiles
<1> QED
  BY <1>2, <1>3

-----------------------------------------------------------------------------
(* The order of the frames *)

Types ==
    /\ saved \in Seq(Nat) /\ parsed \in Seq(Nat) /\ queue \in Seq(Nat) /\ tape \in Seq(Nat)
    /\ number \in Nat \ {0} /\ pos \in Nat \ {0}
    /\ pending \in BOOLEAN /\ recording \in BOOLEAN
    /\ pending => (kind = "synth" /\ number > 1) \/ kind = "file"
    /\ recording => kind # "file"
    /\ tape_open => recording

Looping == pc \in {"pass", "drain", "draw"}

\* The least frame number that a live source has not completed yet.
due == IF pending THEN number - 1 ELSE number

\* Frame f comes before all that read() may still return.
Before(f) == IF kind = "file" THEN \A c \in pos..Len(tape) : f < tape[c] ELSE f < due

TapeInv ==
    /\ Rising(tape) /\ \A c \in 1..Len(tape) : tape[c] > 0
    /\ recording /\ Looping => \A c \in 1..Len(tape) : tape[c] < due

QueueInv ==
    /\ Rising(queue)
    /\ \A i \in 1..Len(queue) : Before(queue[i])
    /\ \A i \in 1..Len(saved) : Before(saved[i])
    /\ \A i \in 1..Len(saved), j \in 1..Len(queue) : saved[i] < queue[j]

OrderInv == Types /\ TapeInv /\ QueueInv

LEMMA InitOrderInv == Init => OrderInv
<1> SUFFICES ASSUME Init PROVE OrderInv
  OBVIOUS
<1>1. <<>> \in Seq(Nat) /\ Len(<<>>) = 0
  OBVIOUS
<1>3. /\ tape = <<>> /\ queue = <<>> /\ saved = <<>> /\ parsed = <<>> /\ tape_open = FALSE
      /\ pos = 1 /\ number = 1 /\ pending = FALSE /\ recording \in BOOLEAN /\ kind # "file"
  BY DEF Init, ShotInit
<1>2. Types
  <2>1. saved \in Seq(Nat) /\ parsed \in Seq(Nat) /\ queue \in Seq(Nat) /\ tape \in Seq(Nat)
    BY <1>1, <1>3
  <2>3. number \in Nat \ {0} /\ pos \in Nat \ {0}
    BY <1>3
  <2>4. pending \in BOOLEAN /\ recording \in BOOLEAN /\ ~pending /\ kind # "file" /\ ~tape_open
    BY <1>3
  <2> QED
    BY <2>1, <2>3, <2>4 DEF Types
<1>4. TapeInv
  BY <1>1, <1>3 DEF TapeInv, Rising
<1>5. QueueInv
  BY <1>1, <1>3 DEF QueueInv, Rising
<1> QED
  BY <1>2, <1>4, <1>5 DEF OrderInv

\* The chunk of the recording that ends in front of place p.
Cut(d, p) == /\ p = pos + Len(d)
             /\ \A i \in 1..Len(d) : pos + i - 1 \in 1..Len(tape) /\ d[i] = tape[pos + i - 1]

\* What read() returns is in order, and behind it comes only what is later.
LEMMA LiveFacts ==
    ASSUME Types, NEW d, CardRead(d) \/ SynthRead(d)
    PROVE  /\ kind # "file" /\ d \in Seq(Nat) /\ number' \in Nat \ {0} /\ pos' = pos
           /\ pending' \in BOOLEAN /\ (pending' => kind = "synth" /\ number' > 1)
           /\ due <= due' /\ due \in Nat \ {0} /\ due' \in Nat
           /\ d # NoData => Rising(d) /\ \A i \in 1..Len(d) : due <= d[i] /\ d[i] < due'
<1>1. number \in Nat \ {0} /\ NoData \in Seq(Nat)
  BY DEF Types, NoData
<1>2. CASE CardRead(d)
  <2>1. /\ pending = FALSE /\ pending' = FALSE /\ kind = "card" /\ pos' = pos
        /\ due = number /\ due' = number'
    BY <1>2 DEF CardRead, Types, due
  <2>0. pending' \in BOOLEAN /\ ~pending' /\ kind # "file"
    BY <2>1
  <2>2. CASE d = NoData /\ UNCHANGED number
    <3>1. /\ d \in Seq(Nat) /\ number' \in Nat \ {0}
          /\ due <= due' /\ due \in Nat \ {0} /\ due' \in Nat
      BY <1>1, <2>1, <2>2
    <3> QED
      BY <2>0, <2>1, <2>2, <3>1
  <2>3. CASE \E n \in 0..2 : d = [i \in 1..n |-> number + i - 1] /\ number' = number + n
    <3>1. PICK n \in 0..2 : d = [i \in 1..n |-> number + i - 1] /\ number' = number + n
      BY <2>3
    <3>2. \A i \in 1..n : d[i] = number + i - 1 /\ d[i] \in Nat
      BY <1>1, <3>1
    <3>3. d \in Seq(Nat) /\ Len(d) = n
      <4>1. d = [i \in 1..n |-> d[i]] /\ n \in Nat
        BY <3>1
      <4> QED
        BY <3>2, <4>1, FunctionIsSeq
    <3>5. Rising(d) /\ \A i \in 1..Len(d) : number <= d[i] /\ d[i] < number + n
      BY <1>1, <3>2, <3>3 DEF Rising
    <3>6. /\ number' \in Nat \ {0} /\ due <= due' /\ due \in Nat \ {0} /\ due' \in Nat
          /\ \A i \in 1..Len(d) : due <= d[i] /\ d[i] < due'
      BY <1>1, <2>1, <3>1, <3>5
    <3> QED
      BY <2>0, <2>1, <3>3, <3>5, <3>6
  <2> QED
    BY <1>2, <2>2, <2>3 DEF CardRead
<1>3. CASE SynthRead(d)
  <2>1. kind = "synth" /\ pos' = pos
    BY <1>3 DEF SynthRead
  <2>2. \A m \in Nat : <<m>> \in Seq(Nat) /\ Len(<<m>>) = 1 /\ <<m>>[1] = m
    OBVIOUS
  <2>3. <<>> \in Seq(Nat) /\ Rising(<<>>) /\ Len(<<>>) = 0 /\ \A m \in Nat : Rising(<<m>>)
    BY DEF Rising
  <2>4. CASE pending /\ d = <<number - 1>> /\ pending' = FALSE /\ UNCHANGED number
    <3>1. number - 1 \in Nat \ {0} /\ due = number - 1 /\ due' = number
      BY <1>1, <2>1, <2>4 DEF due, Types
    <3>2. d \in Seq(Nat) /\ Len(d) = 1 /\ d[1] = number - 1 /\ Rising(d)
      BY <2>2, <2>3, <2>4, <3>1
    <3>3. \A i \in 1..Len(d) : due <= d[i] /\ d[i] < due'
      BY <1>1, <3>1, <3>2
    <3>4. pending' \in BOOLEAN /\ ~pending'
      BY <2>4
    <3>5. due <= due' /\ due' \in Nat /\ number' \in Nat \ {0}
      BY <1>1, <2>4, <3>1
    <3> QED
      BY <2>1, <3>1, <3>2, <3>3, <3>4, <3>5
  <2>5. CASE ~pending /\ number' = number + 1 /\ pending' \in BOOLEAN
             /\ d = IF pending' THEN <<>> ELSE NoData
    <3>1. due = number /\ due' = IF pending' THEN number ELSE number + 1
      BY <1>1, <2>5 DEF due
    <3> QED
      BY <1>1, <2>1, <2>3, <2>5, <3>1
  <2>6. CASE ~pending /\ d = NoData /\ UNCHANGED <<number, pending>>
    <3>1. due = number /\ due' = number
      BY <2>6 DEF due
    <3>2. pending' \in BOOLEAN /\ ~pending'
      BY <2>6 DEF Types
    <3> QED
      BY <1>1, <2>1, <2>6, <3>1, <3>2
  <2> QED
    BY <1>3, <2>4, <2>5, <2>6 DEF SynthRead
<1> QED
  BY <1>2, <1>3

LEMMA FileFacts ==
    ASSUME Types, TapeInv, NEW d, FileRead(d)
    PROVE  /\ kind = "file" /\ d \in Seq(Nat) /\ number' = number
           /\ pos' \in Nat \ {0} /\ pos <= pos' /\ pending' \in BOOLEAN
           /\ d = NoData => pos > Len(tape) /\ pos' = pos /\ eof'
           /\ d # NoData => Cut(d, pos') /\ eof' = eof
<1>1. /\ kind = "file" /\ number' = number /\ pos \in Nat \ {0} /\ tape \in Seq(Nat) /\ Len(tape) \in Nat
      /\ pending \in BOOLEAN
  BY DEF FileRead, Types
<1>2. Len(<<>>) = 0 /\ <<>> \in Seq(Nat) /\ NoData \in Seq(Nat) /\ NoData[1] = 0 /\ Len(NoData) = 1
  BY DEF NoData
<1>3. CASE d = <<>> /\ pending' = TRUE /\ UNCHANGED <<pos, eof>>
  <2>1. d \in Seq(Nat) /\ pos' = pos /\ pos' = pos + 0 /\ Len(d) = 0 /\ pos <= pos'
    BY <1>1, <1>2, <1>3
  <2>2. Cut(d, pos')
    BY <2>1 DEF Cut
  <2>3. d # NoData
    <3>1. Len(d) = 0 /\ Len(NoData) = 1 /\ 0 # 1
      BY <1>2, <2>1
    <3> QED
      BY <3>1, Zenon
  <2>4. eof' = eof /\ pending' \in BOOLEAN
    BY <1>3
  <2> QED
    BY <1>1, <2>1, <2>2, <2>3, <2>4
<1>4. CASE \E q \in pos..Len(tape) : d = SubSeq(tape, pos, q) /\ pos' = q + 1
                                   /\ pending' = FALSE /\ UNCHANGED eof
  <2>1. PICK q \in pos..Len(tape) : d = SubSeq(tape, pos, q) /\ pos' = q + 1
                                  /\ pending' = FALSE /\ UNCHANGED eof
    BY <1>4
  <2>2. /\ d \in Seq(Nat) /\ Len(d) = q - pos + 1
        /\ \A i \in 1..Len(d) : d[i] = tape[pos + i - 1]
    BY <1>1, <2>1
  <2>3. \A i \in 1..Len(d) : pos + i - 1 \in 1..Len(tape)
    BY <1>1, <2>1, <2>2
  <2>4. Cut(d, pos')
    BY <1>1, <2>1, <2>2, <2>3 DEF Cut
  <2>5. d # NoData
    <3>1. 1 \in 1..Len(d) /\ d[1] > 0
      <4>1. 1 \in 1..Len(d) /\ pos + 1 - 1 = pos /\ pos \in 1..Len(tape)
        BY <1>1, <2>1, <2>2
      <4>2. d[1] = tape[pos] /\ tape[pos] > 0
        BY <2>2, <4>1 DEF TapeInv
      <4> QED
        BY <4>1, <4>2
    <3> QED
      BY <1>2, <3>1
  <2>6. pos' \in Nat \ {0} /\ pos <= pos'
    BY <1>1, <2>1
  <2>7. eof' = eof /\ pending' \in BOOLEAN
    BY <2>1
  <2> QED
    BY <1>1, <2>2, <2>4, <2>5, <2>6, <2>7
<1>5. CASE pos > Len(tape) /\ d = NoData /\ eof' = TRUE /\ UNCHANGED <<pos, pending>>
  BY <1>1, <1>2, <1>5
<1> QED
  BY <1>3, <1>4, <1>5 DEF FileRead

LEMMA JoinFacts ==
    ASSUME NEW s \in Seq(Nat), NEW t \in Seq(Nat)
    PROVE  /\ s \o t \in Seq(Nat) /\ Len(s \o t) = Len(s) + Len(t) /\ Len(s) \in Nat /\ Len(t) \in Nat
           /\ \A i \in 1..Len(s) : (s \o t)[i] = s[i]
           /\ \A i \in Len(s) + 1..Len(s) + Len(t) : i - Len(s) \in 1..Len(t) /\ (s \o t)[i] = t[i - Len(s)]
  OBVIOUS

\* A live read: what it returns goes to the queue and to the tape.
LEMMA LiveReadKeepsOrder ==
    ASSUME OrderInv, Read, kind # "file"
    PROVE  OrderInv'
<1>0. Types /\ TapeInv /\ QueueInv
  BY DEF OrderInv
<1>1. PICK d \in Offered :
        /\ CardRead(d) \/ SynthRead(d)
        /\ Record(d)
        /\ IF d = NoData THEN pc' = "draw" /\ UNCHANGED queue
                         ELSE queue' = d /\ UNCHANGED pc
  BY DEF Read, FileRead
<1>2. /\ d \in Seq(Nat) /\ number' \in Nat \ {0} /\ pos' = pos
      /\ pending' \in BOOLEAN /\ (pending' => kind = "synth" /\ number' > 1)
      /\ due <= due' /\ due \in Nat \ {0} /\ due' \in Nat
      /\ d # NoData => Rising(d) /\ \A i \in 1..Len(d) : due <= d[i] /\ d[i] < due'
  BY <1>0, <1>1, LiveFacts
<1>3. /\ UNCHANGED <<kind, recording, saved, parsed, tape_open>>
      /\ pc = "drain" /\ queue = <<>> /\ Looping
  BY <1>1 DEF Read, options, sinks, shot, Record, disk, Looping
<1>4. IF recording /\ d # NoData THEN tape' = tape \o d ELSE tape' = tape
  BY <1>1 DEF Record, disk
<1>5. /\ saved \in Seq(Nat) /\ tape \in Seq(Nat) /\ <<>> \in Seq(Nat) /\ Len(<<>>) = 0
      /\ \A i \in 1..Len(saved) : saved[i] \in Nat /\ saved[i] < due
  <2>1. saved \in Seq(Nat) /\ tape \in Seq(Nat)
    BY <1>0 DEF Types
  <2>2. \A i \in 1..Len(saved) : saved[i] < due
    BY <1>0 DEF QueueInv, Before
  <2> QED
    BY <2>1, <2>2
<1>6. queue' = (IF d = NoData THEN <<>> ELSE d) /\ queue' \in Seq(Nat)
  BY <1>1, <1>2, <1>3, <1>5
<1>7. Types'
  <2>1. tape \o d \in Seq(Nat) /\ tape \in Seq(Nat)
    BY <1>2, <1>5, JoinFacts
  <2>2. tape' \in Seq(Nat)
    BY <1>4, <2>1
  <2> QED
    BY <1>0, <1>2, <1>3, <1>6, <2>2 DEF Types
<1>8. TapeInv'
  <2>1. CASE recording /\ d # NoData
    <3>1. tape' = tape \o d /\ Rising(tape) /\ \A c \in 1..Len(tape) : tape[c] > 0 /\ tape[c] < due /\ tape[c] \in Nat
      BY <1>0, <1>3, <1>4, <1>5, <2>1 DEF TapeInv
    <3>2. Rising(d) /\ \A i \in 1..Len(d) : due <= d[i] /\ d[i] < due' /\ d[i] \in Nat
      BY <1>2, <2>1
    <3>3. /\ Len(tape') = Len(tape) + Len(d) /\ Len(tape) \in Nat /\ Len(d) \in Nat
          /\ \A i \in 1..Len(tape) : tape'[i] = tape[i]
          /\ \A i \in Len(tape) + 1..Len(tape) + Len(d) : i - Len(tape) \in 1..Len(d) /\ tape'[i] = d[i - Len(tape)]
      BY <1>2, <1>5, <3>1, JoinFacts
    <3>4. \A i \in 1..Len(tape') : i \in 1..Len(tape) \/ i \in Len(tape) + 1..Len(tape) + Len(d)
      BY <3>3
    <3>5. \A i \in 1..Len(tape') : tape'[i] > 0 /\ tape'[i] < due'
      BY <1>2, <3>1, <3>2, <3>3, <3>4
    <3>6. ASSUME NEW i \in 1..Len(tape'), NEW j \in 1..Len(tape'), i < j PROVE tape'[i] < tape'[j]
      <4>1. CASE i \in 1..Len(tape) /\ j \in 1..Len(tape)
        BY <3>1, <3>3, <3>6, <4>1 DEF Rising
      <4>2. CASE i \in 1..Len(tape) /\ j \in Len(tape) + 1..Len(tape) + Len(d)
        <5>1. tape'[i] = tape[i] /\ tape[i] < due /\ tape[i] \in Nat
          BY <3>1, <3>3, <4>2
        <5>2. j - Len(tape) \in 1..Len(d) /\ tape'[j] = d[j - Len(tape)]
          BY <3>3, <4>2
        <5>3. due <= tape'[j] /\ tape'[j] \in Nat
          BY <3>2, <5>2
        <5> QED
          BY <1>2, <5>1, <5>3
      <4>3. CASE i \in Len(tape) + 1..Len(tape) + Len(d) /\ j \in Len(tape) + 1..Len(tape) + Len(d)
        <5>1. /\ i - Len(tape) \in 1..Len(d) /\ j - Len(tape) \in 1..Len(d) /\ i - Len(tape) < j - Len(tape)
              /\ tape'[i] = d[i - Len(tape)] /\ tape'[j] = d[j - Len(tape)]
          BY <3>3, <3>6, <4>3
        <5> QED
          BY <3>2, <5>1 DEF Rising
      <4> QED
        BY <3>3, <3>4, <3>6, <4>1, <4>2, <4>3
    <3> QED
      BY <3>5, <3>6 DEF TapeInv, Rising
  <2>2. CASE ~(recording /\ d # NoData)
    <3>1. tape' = tape
      BY <1>4, <2>2
    <3>2. ASSUME recording', NEW c \in 1..Len(tape) PROVE tape[c] < due'
      <4>1. tape[c] < due /\ tape[c] \in Nat
        BY <1>0, <1>3, <1>5, <3>2 DEF TapeInv
      <4> QED
        BY <1>2, <4>1
    <3> QED
      BY <1>0, <3>1, <3>2 DEF TapeInv, Rising
  <2> QED
    BY <2>1, <2>2
<1>9. QueueInv'
  <2>1. \A i \in 1..Len(saved) : saved[i] < due'
    BY <1>2, <1>5
  <2>2. CASE d = NoData
    <3>1. queue' = <<>> /\ Len(queue') = 0
      BY <1>5, <1>6, <2>2
    <3> QED
      BY <1>3, <2>1, <3>1 DEF QueueInv, Rising, Before
  <2>3. CASE d # NoData
    <3>1. queue' = d /\ \A i \in 1..Len(d) : d[i] \in Nat
      BY <1>2, <1>6, <2>3
    <3>2. \A i \in 1..Len(saved), j \in 1..Len(d) : saved[i] < d[j]
      BY <1>2, <1>5, <2>3, <3>1
    <3>3. Rising(queue)'
      BY <1>2, <2>3, <3>1 DEF Rising
    <3> QED
      BY <1>2, <1>3, <2>1, <2>3, <3>1, <3>2, <3>3 DEF QueueInv, Before
  <2> QED
    BY <2>2, <2>3
<1> QED
  BY <1>7, <1>8, <1>9 DEF OrderInv

\* A read of the recording: what comes later in it is later.
LEMMA FileReadKeepsOrder ==
    ASSUME OrderInv, Read, kind = "file"
    PROVE  OrderInv'
<1>0. Types /\ TapeInv /\ QueueInv
  BY DEF OrderInv
<1>1. PICK d \in Offered :
        /\ FileRead(d) /\ Record(d)
        /\ IF d = NoData THEN pc' = "draw" /\ UNCHANGED queue
                         ELSE queue' = d /\ UNCHANGED pc
  BY DEF Read, CardRead, SynthRead
<1>2. /\ d \in Seq(Nat) /\ number' = number
      /\ pos' \in Nat \ {0} /\ pos <= pos' /\ pending' \in BOOLEAN
      /\ d # NoData => Cut(d, pos')
  BY <1>0, <1>1, FileFacts
<1>3. /\ UNCHANGED <<kind, recording, saved, parsed, tape_open, tape>>
      /\ queue = <<>> /\ ~recording
  BY <1>0, <1>1 DEF Read, options, sinks, shot, Record, disk, Types
<1>4. /\ saved \in Seq(Nat) /\ tape \in Seq(Nat) /\ <<>> \in Seq(Nat) /\ Len(<<>>) = 0
      /\ pos \in Nat \ {0} /\ Len(tape) \in Nat
  BY <1>0 DEF Types
<1>5. queue' = (IF d = NoData THEN <<>> ELSE d) /\ queue' \in Seq(Nat)
  BY <1>1, <1>2, <1>3, <1>4
<1>6. Types'
  BY <1>0, <1>2, <1>3, <1>5 DEF Types
<1>7. TapeInv'
  BY <1>0, <1>3 DEF TapeInv, Rising
<1>8. \A c \in pos'..Len(tape) : c \in pos..Len(tape)
  BY <1>2, <1>4
<1>9. \A i \in 1..Len(saved) : \A c \in pos..Len(tape) : saved[i] < tape[c]
  BY <1>0 DEF QueueInv, Before
<1>10. QueueInv'
  <2>1. CASE d = NoData
    <3>1. queue' = <<>> /\ Len(queue') = 0
      BY <1>4, <1>5, <2>1
    <3> QED
      BY <1>3, <1>8, <1>9, <3>1 DEF QueueInv, Rising, Before
  <2>2. CASE d # NoData
    <3>1. queue' = d /\ Len(d) \in Nat /\ pos' = pos + Len(d)
          /\ \A i \in 1..Len(d) : pos + i - 1 \in 1..Len(tape) /\ d[i] = tape[pos + i - 1]
      BY <1>2, <1>5, <2>2 DEF Cut
    <3>2. \A i, j \in 1..Len(tape) : i < j => tape[i] < tape[j]
      BY <1>0 DEF TapeInv, Rising
    <3>3. ASSUME NEW i \in 1..Len(d), NEW j \in 1..Len(d), i < j PROVE d[i] < d[j]
      <4>1. /\ pos + i - 1 \in 1..Len(tape) /\ pos + j - 1 \in 1..Len(tape) /\ pos + i - 1 < pos + j - 1
            /\ d[i] = tape[pos + i - 1] /\ d[j] = tape[pos + j - 1]
        BY <1>4, <3>1, <3>3
      <4> QED
        BY <3>2, <4>1
    <3>4. ASSUME NEW i \in 1..Len(d), NEW c \in pos'..Len(tape) PROVE d[i] < tape[c]
      <4>1. pos + i - 1 \in 1..Len(tape) /\ d[i] = tape[pos + i - 1]
        BY <3>1
      <4>2. PICK m \in Nat : m = Len(d) /\ i \in 1..m /\ pos' = pos + m
        BY <1>2, <1>4, <3>1
      <4>3. c \in 1..Len(tape) /\ pos + i - 1 < c
        BY <1>2, <1>4, <4>2
      <4> QED
        BY <3>2, <4>1, <4>3
    <3>5. ASSUME NEW i \in 1..Len(saved), NEW j \in 1..Len(d) PROVE saved[i] < d[j]
      <4>1. pos + j - 1 \in pos..Len(tape) /\ d[j] = tape[pos + j - 1]
        BY <1>4, <3>1
      <4> QED
        BY <1>9, <4>1
    <3>6. Rising(queue)'
      BY <3>1, <3>3 DEF Rising
    <3> QED
      BY <1>3, <1>8, <1>9, <3>1, <3>4, <3>5, <3>6 DEF QueueInv, Before
  <2> QED
    BY <2>1, <2>2
<1> QED
  BY <1>6, <1>7, <1>10 DEF OrderInv

\* What the order is about is left alone, but for the end of the loop.
LEMMA IdleKeepsOrder ==
    ASSUME OrderInv, Looping' => Looping, tape_open' => tape_open,
           UNCHANGED <<kind, recording, saved, parsed, queue, number, pos, pending, tape>>
    PROVE  OrderInv'
<1>1. Types'
  BY DEF OrderInv, Types
<1>2. TapeInv'
  BY DEF OrderInv, TapeInv, due, Rising
<1>3. QueueInv'
  BY DEF OrderInv, QueueInv, Before, due, Rising
<1> QED
  BY <1>1, <1>2, <1>3 DEF OrderInv

\* A frame goes from the queue to the parsed ones, and perhaps to the sink.
LEMMA FrameKeepsOrder ==
    ASSUME OrderInv, Frame \/ FrameFails
    PROVE  OrderInv'
<1> DEFINE f == Head(queue)
<1>1. /\ queue # <<>> /\ queue' = Tail(queue) /\ parsed' = Append(parsed, f)
      /\ UNCHANGED <<kind, recording, number, pos, pending, tape, tape_open>>
      /\ saved' = saved \/ saved' = Append(saved, f)
      /\ pc = "drain"
  BY DEF Frame, FrameFails, Deliver, options, transport, disk, shot, ShotAdd
<1>2. queue \in Seq(Nat) /\ saved \in Seq(Nat) /\ parsed \in Seq(Nat) /\ Len(queue) \in Nat \ {0}
  <2>1. queue \in Seq(Nat) /\ saved \in Seq(Nat) /\ parsed \in Seq(Nat)
    BY DEF OrderInv, Types
  <2> QED
    BY <1>1, <2>1
<1>3. /\ f = queue[1] /\ f \in Nat
      /\ Tail(queue) \in Seq(Nat) /\ Len(Tail(queue)) = Len(queue) - 1
      /\ \A i \in 1..Len(queue) - 1 : Tail(queue)[i] = queue[i + 1]
  BY <1>1, <1>2, HeadTailProperties
<1>4. /\ parsed' \in Seq(Nat) /\ saved' \in Seq(Nat)
      /\ \A i \in 1..Len(saved') : (i \in 1..Len(saved) /\ saved'[i] = saved[i]) \/ saved'[i] = f
  <2>1. parsed' \in Seq(Nat)
    BY <1>1, <1>2, <1>3
  <2>2. CASE saved' = saved
    BY <1>2, <2>1, <2>2
  <2>3. CASE saved' = Append(saved, f)
    <3>1. /\ Append(saved, f) \in Seq(Nat) /\ Len(Append(saved, f)) = Len(saved) + 1
          /\ Append(saved, f)[Len(saved) + 1] = f /\ Len(saved) \in Nat
          /\ \A i \in 1..Len(saved) : Append(saved, f)[i] = saved[i]
      BY <1>2, <1>3, AppendProperties, LenProperties
    <3>2. \A i \in 1..Len(saved) + 1 : i \in 1..Len(saved) \/ i = Len(saved) + 1
      BY <3>1
    <3> QED
      BY <2>1, <2>3, <3>1, <3>2
  <2> QED
    BY <1>1, <2>2, <2>3
<1>5. Types'
  <2>1. queue' \in Seq(Nat)
    BY <1>1, <1>3
  <2> QED
    BY <1>1, <1>4, <2>1 DEF OrderInv, Types
<1>6. TapeInv'
  <2>1. Looping' => Looping
    BY <1>1 DEF Looping
  <2> QED
    BY <1>1, <2>1 DEF OrderInv, TapeInv, due, Rising
<1>7. \A x : Before(x) <=> (IF kind' = "file" THEN \A c \in pos'..Len(tape') : x < tape'[c]
                            ELSE x < due')
  BY <1>1 DEF Before, due
<1>8. QueueInv'
  <2>1. /\ Rising(queue)
        /\ \A i \in 1..Len(queue) : Before(queue[i])
        /\ \A i \in 1..Len(saved) : Before(saved[i])
        /\ \A i \in 1..Len(saved), j \in 1..Len(queue) : saved[i] < queue[j]
    BY DEF OrderInv, QueueInv
  <2>2. \A i \in 1..Len(queue') : i \in 1..Len(queue) - 1 /\ i + 1 \in 1..Len(queue) /\ queue'[i] = queue[i + 1]
    BY <1>1, <1>2, <1>3
  <2>3. Rising(queue')
    <3> SUFFICES ASSUME NEW i \in 1..Len(queue'), NEW j \in 1..Len(queue'), i < j
                 PROVE  queue'[i] < queue'[j]
      BY DEF Rising
    <3>1. /\ i + 1 \in 1..Len(queue) /\ queue'[i] = queue[i + 1]
          /\ j + 1 \in 1..Len(queue) /\ queue'[j] = queue[j + 1] /\ i + 1 < j + 1
      BY <2>2
    <3> QED
      BY <2>1, <3>1 DEF Rising
  <2>4. \A i \in 1..Len(queue') : Before(queue'[i])
    BY <2>1, <2>2
  <2>5. 1 \in 1..Len(queue) /\ Before(f)
    BY <1>2, <1>3, <2>1
  <2>6. \A i \in 1..Len(saved') : Before(saved'[i])
    BY <1>4, <2>1, <2>5
  <2>7. ASSUME NEW i \in 1..Len(saved'), NEW j \in 1..Len(queue') PROVE saved'[i] < queue'[j]
    <3>1. j + 1 \in 1..Len(queue) /\ queue'[j] = queue[j + 1] /\ 1 < j + 1
      BY <2>2
    <3>2. CASE i \in 1..Len(saved) /\ saved'[i] = saved[i]
      BY <2>1, <3>1, <3>2
    <3>3. CASE saved'[i] = f
      BY <1>3, <2>1, <2>5, <3>1, <3>3 DEF Rising
    <3> QED
      BY <1>4, <3>2, <3>3
  <2>8. Rising(queue)'
    BY <2>3 DEF Rising
  <2> QED
    BY <1>7, <2>4, <2>6, <2>7, <2>8 DEF QueueInv, Before
<1> QED
  BY <1>5, <1>6, <1>8 DEF OrderInv

LEMMA OpenKeepsOrder ==
    ASSUME OrderInv, Open
    PROVE  OrderInv'
<1>1. /\ UNCHANGED <<kind, recording, saved, parsed, queue, number, pos, pending>>
      /\ IF recording THEN tape' = <<>> ELSE UNCHANGED <<tape, tape_open>>
  BY DEF Open, options, parser, sinks, shot, disk
<1>2. CASE recording
  <2>1. tape' = <<>> /\ kind # "file"
    BY <1>1, <1>2 DEF OrderInv, Types
  <2>2. <<>> \in Seq(Nat) /\ Len(<<>>) = 0 /\ 1..0 = {}
    OBVIOUS
  <2>3. Types'
    BY <1>1, <1>2, <2>1, <2>2 DEF OrderInv, Types
  <2>4. TapeInv'
    BY <2>1, <2>2 DEF TapeInv, Rising
  <2>5. QueueInv'
    BY <1>1, <2>1 DEF OrderInv, QueueInv, Before, due, Rising
  <2> QED
    BY <2>3, <2>4, <2>5 DEF OrderInv
<1>3. CASE ~recording
  <2>1. UNCHANGED <<kind, recording, saved, parsed, queue, number, pos, pending, tape, tape_open>>
    BY <1>1, <1>3
  <2>2. Types'
    BY <2>1 DEF OrderInv, Types
  <2>3. TapeInv'
    BY <1>3, <2>1 DEF OrderInv, TapeInv, due, Rising
  <2>4. QueueInv'
    BY <2>1 DEF OrderInv, QueueInv, Before, due, Rising
  <2> QED
    BY <2>2, <2>3, <2>4 DEF OrderInv
<1> QED
  BY <1>2, <1>3

\* A recording that is cut off is still in order.
LEMMA CloseFailsKeepsOrder ==
    ASSUME OrderInv, CloseFails
    PROVE  OrderInv'
<1>1. /\ UNCHANGED <<kind, recording, saved, parsed, queue, number, pos, pending>>
      /\ ~Looping'
  BY DEF CloseFails, Fail, options, parser, sinks, shot, Looping
<1>2. CASE tape' = tape /\ tape_open' = FALSE
  BY <1>1, <1>2, IdleKeepsOrder
<1>3. CASE tape_open /\ tape' \in {SubSeq(tape, 1, n) : n \in 0..Len(tape)} /\ tape_open' = tape_open
  <2>1. PICK n \in 0..Len(tape) : tape' = SubSeq(tape, 1, n)
    BY <1>3
  <2>2. tape \in Seq(Nat) /\ kind # "file" /\ recording
    BY <1>3 DEF OrderInv, Types
  <2>3. tape' \in Seq(Nat) /\ Len(tape') = n /\ \A i \in 1..n : i \in 1..Len(tape) /\ tape'[i] = tape[i]
    BY <2>1, <2>2
  <2>4. Types'
    BY <1>1, <1>3, <2>2, <2>3 DEF OrderInv, Types
  <2>5. TapeInv'
    BY <1>1, <2>3 DEF OrderInv, TapeInv, Rising
  <2>6. QueueInv'
    BY <1>1, <2>2 DEF OrderInv, QueueInv, Before, due, Rising
  <2> QED
    BY <2>4, <2>5, <2>6 DEF OrderInv
<1> QED
  BY <1>2, <1>3 DEF CloseFails

LEMMA NextSessionKeepsOrder ==
    ASSUME OrderInv, NextSession
    PROVE  OrderInv'
<1>0. recording' = (kind' = "synth")
  BY DEF NextSession
<1>1. /\ kind' \in {"synth", "file"} /\ pc' = "open" /\ parsed' = <<>> /\ queue' = <<>>
      /\ saved' = <<>> /\ number' = 1 /\ pending' = FALSE /\ pos' = 1 /\ tape' = tape /\ tape_open' = FALSE
  BY DEF NextSession
<1>2. <<>> \in Seq(Nat) /\ Len(<<>>) = 0 /\ 1..0 = {}
  OBVIOUS
<1>3. Types'
  <2>1. tape' \in Seq(Nat) /\ ~tape_open'
    BY <1>1 DEF OrderInv, Types
  <2>2. parsed' \in Seq(Nat) /\ queue' \in Seq(Nat) /\ saved' \in Seq(Nat)
    BY <1>1, <1>2
  <2>3. number' \in Nat \ {0} /\ pos' \in Nat \ {0}
    BY <1>1
  <2>5. pending' \in BOOLEAN /\ ~pending'
    BY <1>1, Zenon
  <2>4. recording' \in BOOLEAN /\ (recording' => kind' # "file")
    <3>1. "synth" # "file"
      OBVIOUS
    <3>2. (kind' = "synth") \in BOOLEAN
      OBVIOUS
    <3>3. recording' \in BOOLEAN
      BY <1>0, <3>2, Zenon
    <3>4. recording' => kind' = "synth"
      BY <1>0, Zenon
    <3> QED
      BY <3>1, <3>3, <3>4
  <2> QED
    BY <2>1, <2>2, <2>3, <2>4, <2>5 DEF Types
<1>4. TapeInv'
  BY <1>1 DEF OrderInv, TapeInv, Looping, Rising
<1>5. QueueInv'
  BY <1>1, <1>2 DEF QueueInv, Rising
<1> QED
  BY <1>3, <1>4, <1>5 DEF OrderInv

\* The steps that are not one of those above.
Others == OpenRefused \/ OpenFails \/ Events \/ ReadsDone \/ ReadFails \/ EndPass \/ DrawFails
          \/ Screenshot \/ CloseSheet \/ CloseAvi \/ CloseTransport \/ CleanupFails

LEMMA Steps ==
    [Next]_vars => \/ Open \/ NextSession \/ Read \/ Frame \/ FrameFails \/ CloseFails
                   \/ Others \/ UNCHANGED vars
  BY DEF Next, Run, Cleanup, Others

LEMMA OthersFacts ==
    ASSUME Others \/ UNCHANGED vars
    PROVE  /\ UNCHANGED <<kind, recording, parsed, queue, number, pos, pending, eof, saved, keep,
                          count, tape, index>>
           /\ Looping' => Looping
           /\ tape_open' => tape_open
<1>1. ASSUME UNCHANGED vars
      PROVE  /\ UNCHANGED <<kind, recording, parsed, queue, number, pos, pending, eof, saved, keep,
                            count, tape, index>>
             /\ Looping' => Looping
             /\ tape_open' => tape_open
  BY <1>1 DEF vars, options, parser, transport, disk, sinks, shot, avi, Looping
<1>2. ASSUME OpenRefused \/ OpenFails \/ Events \/ ReadsDone \/ ReadFails \/ EndPass \/ DrawFails
      PROVE  /\ UNCHANGED <<kind, recording, parsed, queue, number, pos, pending, eof, saved, keep,
                            count, tape, index>>
             /\ Looping' => Looping
             /\ tape_open' => tape_open
  <2>0. CASE OpenFails
    BY <2>0 DEF OpenFails, Fail, options, parser, disk, sinks, shot, avi, Looping
  <2>1. CASE OpenRefused \/ Events \/ ReadsDone
    BY <2>1 DEF OpenRefused, Events, ReadsDone, Fail,
                options, parser, transport, disk, sinks, shot, avi, Looping
  <2>2. CASE ReadFails \/ EndPass \/ DrawFails
    BY <2>2 DEF ReadFails, EndPass, DrawFails, Fail,
                options, parser, transport, disk, sinks, shot, avi, Looping
  <2> QED
    BY <1>2, <2>0, <2>1, <2>2
<1>3. ASSUME Screenshot \/ CloseSheet \/ CloseAvi \/ CloseTransport \/ CleanupFails
      PROVE  /\ UNCHANGED <<kind, recording, parsed, queue, number, pos, pending, eof, saved, keep,
                            count, tape, index>>
             /\ Looping' => Looping
             /\ tape_open' => tape_open
  BY <1>3 DEF Screenshot, CloseSheet, CloseAvi, CloseTransport, CleanupFails, Fail, ShotClose, AviClose,
              options, parser, transport, disk, sinks, shot, avi, Looping
<1> QED
  BY <1>1, <1>2, <1>3 DEF Others

LEMMA InductiveOrderInv == Spec => []OrderInv
<1>1. OrderInv /\ [Next]_vars => OrderInv'
  <2> SUFFICES ASSUME OrderInv, [Next]_vars PROVE OrderInv'
    OBVIOUS
  <2>1. ASSUME Others \/ UNCHANGED vars PROVE OrderInv'
    BY <2>1, OthersFacts, IdleKeepsOrder
  <2>2. ASSUME Read PROVE OrderInv'
    BY <2>2, LiveReadKeepsOrder, FileReadKeepsOrder
  <2> QED
    BY <2>1, <2>2, Steps, FrameKeepsOrder, OpenKeepsOrder, CloseFailsKeepsOrder, NextSessionKeepsOrder
<1> QED
  BY InitOrderInv, <1>1, PTL DEF Spec

-----------------------------------------------------------------------------
(* The contact sheet *)

Cleaned == pc \in {"avi", "transport", "done"}

KeepInv ==
    /\ saved \in Seq(Nat) /\ Rising(saved)
    /\ Len(keep) <= 2 * ContactMax
    /\ \E p : Covers(p, keep, saved)
    /\ sheet # <<>> => /\ Cleaned /\ Chosen(sheet, keep)
                       /\ Len(sheet) = IF Len(keep) <= ContactMax THEN Len(keep) ELSE ContactMax

LEMMA NothingKept ==
    ASSUME saved = <<>>, keep = <<>>, sheet = <<>>
    PROVE  KeepInv
<1>1. <<>> \in Seq(Nat) /\ Len(<<>>) = 0
  OBVIOUS
<1>2. 0 <= 2 * ContactMax
  BY CaptureAssumption
<1>3. Covers(<<>>, <<>>, <<>>)
  BY <1>1 DEF Covers, Rising
<1> QED
  BY <1>1, <1>2, <1>3 DEF KeepInv, Rising

LEMMA FrameKeepsKeep ==
    ASSUME OrderInv, KeepInv, Frame \/ FrameFails
    PROVE  KeepInv'
<1> DEFINE f == Head(queue)
<1>1. /\ queue # <<>> /\ pc = "drain" /\ sheet' = sheet
      /\ UNCHANGED shot \/ (saved' = Append(saved, f) /\ keep' = Thin(Append(keep, f)))
  BY DEF Frame, FrameFails, ShotAdd, shot
<1>2. sheet = <<>>
  BY <1>1 DEF KeepInv, Cleaned
<1>3. CASE UNCHANGED shot
  BY <1>1, <1>2, <1>3 DEF KeepInv, shot, Rising
<1>4. CASE saved' = Append(saved, f) /\ keep' = Thin(Append(keep, f))
  <2>1. queue \in Seq(Nat) /\ saved \in Seq(Nat) /\ Rising(saved)
    BY DEF OrderInv, Types, KeepInv
  <2>2. 1 \in 1..Len(queue) /\ f = queue[1] /\ f \in Nat
    BY <1>1, <2>1
  <2>3. \A i \in 1..Len(saved) : saved[i] < f
    BY <2>2 DEF OrderInv, QueueInv
  <2>4. PICK p : Covers(p, keep, saved)
    BY DEF KeepInv
  <2>5. Covers(Append(p, Len(saved) + 1), Append(keep, f), Append(saved, f))
    BY <2>1, <2>2, <2>4, CoversMore
  <2>6. Len(Append(keep, f)) <= 2 * ContactMax + 1
    <3>1. keep \in Seq(Nat)
      BY <2>4 DEF Covers
    <3>2. Len(Append(keep, f)) = Len(keep) + 1 /\ Len(keep) \in Nat /\ ContactMax \in Nat
      BY <2>2, <3>1, CaptureAssumption
    <3> QED
      BY <3>2 DEF KeepInv
  <2>7. \E q : Covers(q, keep', saved') /\ Len(keep') <= 2 * ContactMax
    BY <1>4, <2>5, <2>6, ThinCovers
  <2>8. saved' \in Seq(Nat) /\ Rising(saved)'
    <3>1. Rising(Append(saved, f)) /\ Append(saved, f) \in Seq(Nat)
      BY <2>1, <2>2, <2>3, RisingMore
    <3> QED
      BY <1>4, <3>1 DEF Rising
  <2> QED
    BY <1>1, <1>2, <2>7, <2>8 DEF KeepInv
<1> QED
  BY <1>1, <1>3, <1>4

LEMMA NextKeepsKeep == OrderInv /\ KeepInv /\ [Next]_vars => KeepInv'
<1> SUFFICES ASSUME OrderInv, KeepInv, [Next]_vars PROVE KeepInv'
  OBVIOUS
<1>1. ASSUME UNCHANGED <<saved, keep, sheet>>, Cleaned => Cleaned'
      PROVE  KeepInv'
  BY <1>1 DEF KeepInv, Chosen, Rising
<1>2. CASE CloseSheet
  <2>1. sheet' = Tiles(keep) /\ UNCHANGED <<saved, keep>> /\ pc' = "avi"
    BY <1>2 DEF CloseSheet, ShotClose
  <2>2. keep \in Seq(Nat) /\ Rising(keep)
    BY CoversRises DEF KeepInv, Covers
  <2>3. /\ Chosen(Tiles(keep), keep)
        /\ Len(Tiles(keep)) = IF Len(keep) <= ContactMax THEN Len(keep) ELSE ContactMax
    BY <2>2, TilesChoose
  <2>4. Chosen(sheet, keep)'
    BY <2>1, <2>3 DEF Chosen, Rising
  <2> QED
    BY <2>1, <2>3, <2>4 DEF KeepInv, Cleaned, Rising
<1>3. CASE (Others /\ ~CloseSheet) \/ CloseFails
  <2>1. sheet' = sheet /\ (Cleaned => Cleaned')
    BY <1>3 DEF Others, OpenRefused, OpenFails, Events, ReadsDone, ReadFails, EndPass, DrawFails, Fail,
                Screenshot, CloseAvi, CloseTransport, CleanupFails, CloseFails, sinks, shot, Cleaned
  <2>2. UNCHANGED <<saved, keep>>
    BY <1>3, OthersFacts DEF CloseFails, sinks, shot
  <2> QED
    BY <1>1, <2>1, <2>2
<1>4. CASE Open \/ Read
  BY <1>1, <1>4 DEF Open, Read, sinks, shot, Cleaned
<1>5. CASE NextSession
  <2>1. saved' = <<>> /\ keep' = <<>> /\ sheet' = <<>>
    BY <1>5 DEF NextSession
  <2>2. (saved = <<>> /\ keep = <<>> /\ sheet = <<>> => KeepInv)'
    BY NothingKept, PTL
  <2> QED
    BY <2>1, <2>2
<1>6. CASE UNCHANGED vars
  BY <1>1, <1>6 DEF vars, sinks, shot, Cleaned
<1> QED
  BY <1>2, <1>3, <1>4, <1>5, <1>6, Steps, FrameKeepsKeep

\* Frames rise, so a kept one has one place.
LEMMA PlaceIs ==
    ASSUME NEW p, Covers(p, keep, saved), saved \in Seq(Nat), Rising(saved), NEW i \in 1..Len(keep)
    PROVE  Place(i) = p[i] /\ p[i] \in 1..Len(saved)
<1>1. p[i] \in 1..Len(saved) /\ saved[p[i]] = keep[i] /\ DOMAIN saved = 1..Len(saved)
  BY DEF Covers
<1>2. ASSUME NEW j \in 1..Len(saved), saved[j] = keep[i] PROVE j = p[i]
  <2>1. ~(j < p[i]) /\ ~(p[i] < j)
    BY <1>1, <1>2 DEF Rising
  <2> QED
    BY <1>1, <2>1
<1>3. \E j \in DOMAIN saved : saved[j] = keep[i]
  BY <1>1
<1>4. Place(i) \in DOMAIN saved /\ saved[Place(i)] = keep[i]
  BY <1>3 DEF Place
<1> QED
  BY <1>1, <1>2, <1>4

\* However often it is thinned, and whatever fails, what is kept for the contact
\* sheet is bounded, reaches from the first saved frame to the newest in order,
\* and is never denser early in the session than late; the sheet is taken from
\* it, as many as it may show, and starts with the first frame.
THEOREM SheetIsFair == Spec => []SheetCovers
<1>1. Init => KeepInv
  BY NothingKept DEF Init, ShotInit
<1>2. KeepInv => SheetCovers
  <2> SUFFICES ASSUME KeepInv PROVE SheetCovers
    OBVIOUS
  <2>1. PICK p : Covers(p, keep, saved)
    BY DEF KeepInv
  <2>2. PICK m \in Nat : m = Len(keep)
    BY <2>1 DEF Covers
  <2>3. \A i \in 1..m : Place(i) = p[i] /\ p[i] \in Nat
    BY <2>1, <2>2, PlaceIs DEF KeepInv
  <2>4. /\ \A i, j \in 1..m : i < j => p[i] < p[j]
        /\ saved # <<>> => m > 0 /\ p[1] = 1 /\ p[m] = Len(saved)
        /\ \A i \in 1..m - 2 : p[i + 1] - p[i] >= p[i + 2] - p[i + 1]
        /\ \A i \in 1..m : p[i] \in 1..Len(saved) /\ keep[i] = saved[p[i]]
        /\ keep \in Seq(Nat)
    BY <2>1, <2>2 DEF Covers, Rising
  <2>5. saved # <<>> => keep # <<>> /\ Place(1) = 1 /\ Place(Len(keep)) = Len(saved)
    <3> SUFFICES ASSUME saved # <<>>
                 PROVE  keep # <<>> /\ Place(1) = 1 /\ Place(m) = Len(saved)
      BY <2>2
    <3>1. 1 \in 1..m /\ m \in 1..m /\ m # 0
      BY <2>4
    <3> QED
      BY <2>2, <2>3, <2>4, <3>1
  <2>6. \A i \in 1..Len(keep) - 1 : Place(i) < Place(i + 1)
    <3> SUFFICES ASSUME NEW i \in 1..m - 1 PROVE Place(i) < Place(i + 1)
      BY <2>2
    <3>1. i \in 1..m /\ i + 1 \in 1..m /\ i < i + 1
      OBVIOUS
    <3> QED
      BY <2>3, <2>4, <3>1
  <2>7. \A i \in 1..Len(keep) - 2 : Place(i + 1) - Place(i) >= Place(i + 2) - Place(i + 1)
    <3> SUFFICES ASSUME NEW i \in 1..m - 2 PROVE Place(i + 1) - Place(i) >= Place(i + 2) - Place(i + 1)
      BY <2>2
    <3>1. i \in 1..m /\ i + 1 \in 1..m /\ i + 2 \in 1..m
      OBVIOUS
    <3> QED
      BY <2>3, <2>4, <3>1
  <2>8. ASSUME sheet # <<>>
        PROVE  /\ Len(sheet) = IF Len(keep) <= ContactMax THEN Len(keep) ELSE ContactMax
               /\ sheet[1] = saved[1]
               /\ \A i \in 1..Len(sheet) - 1 : sheet[i] < sheet[i + 1]
               /\ ToSet(sheet) \subseteq ToSet(keep)
    <3>1. Chosen(sheet, keep) /\ sheet \in Seq(Nat) /\ Len(sheet) \in Nat
      BY <2>8 DEF KeepInv, Chosen
    <3>2. \A i \in 1..Len(sheet) - 1 : sheet[i] < sheet[i + 1]
      BY <3>1 DEF Chosen, Rising
    <3>3. sheet[1] = saved[1]
      <4>1. keep # <<>> /\ sheet[1] = keep[1]
        BY <2>8, <3>1 DEF Chosen
      <4>2. 1 \in 1..m
        BY <2>2, <2>4, <4>1
      <4>3. saved # <<>>
        <5>1. p[1] \in 1..Len(saved)
          BY <2>4, <4>2
        <5>2. Len(<<>>) = 0 /\ 1..0 = {}
          OBVIOUS
        <5> QED
          BY <5>1, <5>2
      <4> QED
        BY <2>4, <4>1, <4>2, <4>3
    <3>4. ToSet(sheet) \subseteq ToSet(keep)
      <4> SUFFICES ASSUME NEW i \in DOMAIN sheet PROVE sheet[i] \in ToSet(keep)
        BY DEF ToSet
      <4>1. PICK j \in 1..Len(keep) : sheet[i] = keep[j]
        BY <3>1 DEF Chosen
      <4> QED
        BY <2>4, <4>1 DEF ToSet
    <3> QED
      BY <2>8, <3>2, <3>3, <3>4 DEF KeepInv
  <2> QED
    BY <2>5, <2>6, <2>7, <2>8 DEF KeepInv, SheetCovers
<1> QED
  BY InductiveOrderInv, NextKeepsKeep, <1>1, <1>2, PTL DEF Spec

-----------------------------------------------------------------------------
(* The transport *)

\* However run() is left, the transport and the recording are closed, unless
\* the cleanup itself failed.
THEOREM TransportIsReleased == Spec => []Released
<1>1. Init => Released
  BY DEF Init, Released
<1>2. Released /\ [Next]_vars => Released'
  <2> SUFFICES ASSUME Released, [Next]_vars, pc' = "done"
               PROVE  cleanup_failed' \/ (~is_open' /\ ~tape_open')
    BY DEF Released
  <2>1. CASE CloseTransport
    BY <2>1 DEF CloseTransport
  <2>2. CASE CleanupFails \/ CloseFails
    BY <2>2 DEF CleanupFails, CloseFails
  <2>3. CASE UNCHANGED vars
    BY <2>3 DEF vars, transport, disk, errors, Released
  <2>4. CASE Open \/ NextSession \/ Read \/ Frame \/ FrameFails
    BY <2>4 DEF Open, NextSession, Read, Frame, FrameFails, Fail
  <2>5. CASE OpenRefused \/ OpenFails \/ Events \/ ReadsDone \/ ReadFails \/ EndPass
             \/ DrawFails \/ Screenshot \/ CloseSheet \/ CloseAvi
    BY <2>5 DEF OpenRefused, OpenFails, Events, ReadsDone, ReadFails, EndPass, DrawFails, Fail,
                Screenshot, CloseSheet, CloseAvi
  <2> QED
    BY <2>1, <2>2, <2>3, <2>4, <2>5, Steps DEF Others
<1> QED
  BY <1>1, <1>2, PTL DEF Spec

-----------------------------------------------------------------------------
(* The pieces of a file *)

Tags == {"RIFF", "hdrl", "movi", "00dc", "idx1"}
Pieces == [tag : Tags, size : Int, frames : Nat]

LEMMA PieceFacts ==
    /\ \A tag \in Tags, size \in Int : /\ Piece(tag, size) \in Pieces
                                       /\ Piece(tag, size).tag = tag /\ Piece(tag, size).size = size
    /\ \A p \in Pieces : p.tag = "RIFF" => Bytes(p) = 12
    /\ \A p \in Pieces : p.tag = "hdrl" => Bytes(p) = HdrlBytes
    /\ \A p \in Pieces : p.tag = "movi" => Bytes(p) = 12
    /\ \A p \in Pieces : p.tag \in {"00dc", "idx1"} => Bytes(p) = 8 + p.size + (p.size % 2)
<1>1. \A tag \in Tags, size \in Int : /\ Piece(tag, size) \in Pieces
                                      /\ Piece(tag, size).tag = tag /\ Piece(tag, size).size = size
  BY DEF Piece, Pieces
<1>2. \A p \in Pieces : p.tag = "RIFF" => Bytes(p) = 12
  BY DEF Bytes
<1>3. \A p \in Pieces : p.tag = "hdrl" => Bytes(p) = HdrlBytes
  BY DEF Bytes
<1>4. \A p \in Pieces : p.tag = "movi" => Bytes(p) = 12
  BY DEF Bytes
<1>5. \A p \in Pieces : p.tag \in {"00dc", "idx1"} => Bytes(p) = 8 + p.size + (p.size % 2)
  BY DEF Bytes
<1> QED
  BY <1>1, <1>2, <1>3, <1>4, <1>5

\* The position behind the first n pieces is the sum of their sizes.
LEMMA TellSame ==
    ASSUME NEW f, NEW g, NEW n \in Nat, \A i \in 1..n : Bytes(f[i]) = Bytes(g[i])
    PROVE  \A i \in 0..n : Tell(f, i) = Tell(g, i)
<1> DEFINE T == {i \in Nat : i <= n => Tell(f, i) = Tell(g, i)}
<1>1. 0 \in T
  BY TellStep
<1>2. ASSUME NEW i \in Nat, i \in T PROVE i + 1 \in T
  <2>1. /\ Tell(f, i + 1) = Tell(f, i) + Bytes(f[i + 1])
        /\ Tell(g, i + 1) = Tell(g, i) + Bytes(g[i + 1])
    BY TellStep
  <2>2. i + 1 <= n => Bytes(f[i + 1]) = Bytes(g[i + 1]) /\ i <= n
    OBVIOUS
  <2> QED
    BY <1>2, <2>1, <2>2
<1> HIDE DEF T
<1>3. \A i \in Nat : i \in T
  BY <1>1, <1>2, Induct
<1> QED
  BY <1>3 DEF T

LEMMA TellNat ==
    ASSUME NEW f, NEW n \in Nat, \A i \in 1..n : Bytes(f[i]) \in Nat
    PROVE  \A i \in 0..n : Tell(f, i) \in Nat
<1> DEFINE T == {i \in Nat : i <= n => Tell(f, i) \in Nat}
<1>1. 0 \in T
  BY TellStep
<1>2. ASSUME NEW i \in Nat, i \in T PROVE i + 1 \in T
  <2>1. Tell(f, i + 1) = Tell(f, i) + Bytes(f[i + 1])
    BY TellStep
  <2>2. i + 1 <= n => Bytes(f[i + 1]) \in Nat /\ i <= n
    OBVIOUS
  <2> QED
    BY <1>2, <2>1, <2>2
<1> HIDE DEF T
<1>3. \A i \in Nat : i \in T
  BY <1>1, <1>2, Induct
<1> QED
  BY <1>3 DEF T

\* Behind m pieces come whole ones: positions grow, and by even numbers.
LEMMA TellGrows ==
    ASSUME NEW f, NEW m \in Nat, NEW n \in Nat, m <= n,
           \A i \in 1..n : Bytes(f[i]) \in Nat,
           \A i \in m + 1..n : Bytes(f[i]) % 2 = 0
    PROVE  \A i \in m..n : Tell(f, i) >= Tell(f, m) /\ (Tell(f, i) - Tell(f, m)) % 2 = 0
<1> DEFINE T == {e \in Nat : m + e <= n => \E d \in Nat : Tell(f, m + e) = Tell(f, m) + 2 * d}
<1>0. \A i \in 0..n : Tell(f, i) \in Nat
  BY TellNat
<1>1. 0 \in T
  <2>1. Tell(f, m) \in Nat /\ m + 0 = m
    BY <1>0
  <2>2. Tell(f, m + 0) = Tell(f, m) + 2 * 0
    BY <2>1
  <2> QED
    BY <2>2
<1>2. ASSUME NEW e \in Nat, e \in T PROVE e + 1 \in T
  <2> SUFFICES ASSUME m + (e + 1) <= n
               PROVE  \E d \in Nat : Tell(f, m + (e + 1)) = Tell(f, m) + 2 * d
    OBVIOUS
  <2>1. PICK d \in Nat : Tell(f, m + e) = Tell(f, m) + 2 * d
    BY <1>2
  <2>2. m + e \in Nat /\ m + (e + 1) = (m + e) + 1 /\ m + (e + 1) \in m + 1..n /\ m + (e + 1) \in 1..n
    OBVIOUS
  <2>3. Tell(f, (m + e) + 1) = Tell(f, m + e) + Bytes(f[(m + e) + 1])
    BY <2>2, TellStep
  <2>4. Bytes(f[m + (e + 1)]) \in Nat /\ Bytes(f[m + (e + 1)]) % 2 = 0
    BY <2>2
  <2>5. PICK b \in Nat : Bytes(f[m + (e + 1)]) = 2 * b
    BY <2>4
  <2>6. Tell(f, m) \in Nat
    BY <1>0
  <2>7. Tell(f, m + (e + 1)) = Tell(f, m) + 2 * (d + b) /\ d + b \in Nat
    BY <2>1, <2>2, <2>3, <2>5, <2>6
  <2> QED
    BY <2>7
<1> HIDE DEF T
<1>3. \A e \in Nat : e \in T
  BY <1>1, <1>2, Induct
<1>4. ASSUME NEW i \in m..n
      PROVE  Tell(f, i) >= Tell(f, m) /\ (Tell(f, i) - Tell(f, m)) % 2 = 0
  <2>1. PICK e \in Nat : i = m + e
    <3>1. i - m \in Nat /\ i = m + (i - m)
      OBVIOUS
    <3> QED
      BY <3>1
  <2>2. PICK d \in Nat : Tell(f, i) = Tell(f, m) + 2 * d
    <3>1. e \in T /\ m + e <= n
      BY <1>3, <2>1
    <3>2. \E d \in Nat : Tell(f, m + e) = Tell(f, m) + 2 * d
      BY <3>1 DEF T
    <3> QED
      BY <2>1, <3>2
  <2>3. Tell(f, m) \in Nat
    BY <1>0
  <2> QED
    BY <2>2, <2>3
<1> QED
  BY <1>4

-----------------------------------------------------------------------------
(* The AVI file *)

\* A file that has been opened: its header, and a piece for every frame, which
\* the index points at.
Started(f, ix) ==
    /\ f \in Seq(Pieces) /\ ix \in Seq(Int \X (Nat \ {0})) /\ Len(f) = 3 + Len(ix)
    /\ f[1].tag = "RIFF" /\ f[2].tag = "hdrl" /\ f[3].tag = "movi"
    /\ \A i \in 1..Len(ix) : /\ f[3 + i] = Piece("00dc", ix[i][2])
                             /\ MoviStart(f) + 8 + ix[i][1] = Tell(f, 2 + i)

\* What AviReadsBack says of a finished file.
Readable(f, ix) ==
    /\ WellFormed(f)
    /\ ReadBack(f) = [i \in DOMAIN ix |-> ix[i][2]]
    /\ \A i \in DOMAIN ix : MoviStart(f) + 8 + ix[i][1] = Tell(f, 2 + i)
    /\ f[2].frames = Len(ix)

LEMMA OpenedIsStarted == Started(Opened, <<>>)
<1>1. HdrlBytes - 8 \in Int
  BY CaptureAssumption
<1>2. /\ Piece("RIFF", 0) \in Pieces /\ Piece("hdrl", HdrlBytes - 8) \in Pieces /\ Piece("movi", 0) \in Pieces
      /\ Piece("RIFF", 0).tag = "RIFF" /\ Piece("hdrl", HdrlBytes - 8).tag = "hdrl"
      /\ Piece("movi", 0).tag = "movi"
  BY <1>1, PieceFacts DEF Tags
<1>3. Opened \in Seq(Pieces) /\ Len(Opened) = 3
  BY <1>2 DEF Opened
<1>4. Opened[1].tag = "RIFF" /\ Opened[2].tag = "hdrl" /\ Opened[3].tag = "movi"
  BY <1>2 DEF Opened
<1>5. <<>> \in Seq(Int \X (Nat \ {0})) /\ Len(<<>>) = 0
  OBVIOUS
<1> QED
  BY <1>3, <1>4, <1>5 DEF Started

\* The sizes of its pieces.
LEMMA StartedBytes ==
    ASSUME NEW f, NEW ix, Started(f, ix)
    PROVE  /\ Len(f) \in Nat /\ Len(ix) \in Nat /\ Len(f) >= 3
           /\ \A i \in 1..Len(f) : Bytes(f[i]) \in Nat
           /\ \A i \in 3..Len(f) : Bytes(f[i]) % 2 = 0 /\ Bytes(f[i]) >= 8
           /\ \A i \in 0..Len(f) : Tell(f, i) \in Nat
<1>1. Len(f) \in Nat /\ Len(ix) \in Nat /\ Len(f) >= 3
  BY DEF Started
<1>2. \A i \in 1..Len(f) : f[i] \in Pieces
  BY DEF Started
<1>3. HdrlBytes \in Nat
  BY CaptureAssumption
<1>4. Bytes(f[1]) = 12 /\ Bytes(f[2]) = HdrlBytes /\ Bytes(f[3]) = 12
  BY <1>1, <1>2, PieceFacts DEF Started
<1>5. ASSUME NEW i \in 4..Len(f)
      PROVE  Bytes(f[i]) \in Nat /\ Bytes(f[i]) % 2 = 0 /\ Bytes(f[i]) >= 8
  <2>1. PICK j \in 1..Len(ix) : i = 3 + j
    <3>1. i - 3 \in 1..Len(ix) /\ i = 3 + (i - 3)
      BY <1>1 DEF Started
    <3> QED
      BY <3>1
  <2>2. ix[j] \in Int \X (Nat \ {0})
    BY <1>1, <2>1 DEF Started
  <2>3. PICK s \in Nat : s = ix[j][2]
    BY <2>2
  <2>4. f[i] = Piece("00dc", s)
    BY <2>1, <2>3 DEF Started
  <2>5. "00dc" \in Tags /\ s \in Int
    BY DEF Tags
  <2>6. f[i] \in Pieces /\ f[i].tag = "00dc" /\ f[i].size = s
    BY <2>4, <2>5, PieceFacts
  <2>7. f[i].tag \in {"00dc", "idx1"}
    BY <2>6
  <2>8. Bytes(f[i]) = 8 + f[i].size + (f[i].size % 2)
    BY <2>6, <2>7, PieceFacts
  <2> QED
    BY <2>6, <2>8
<1>6. \A i \in 1..Len(f) : Bytes(f[i]) \in Nat
  BY <1>1, <1>3, <1>4, <1>5
<1>7. \A i \in 3..Len(f) : Bytes(f[i]) % 2 = 0 /\ Bytes(f[i]) >= 8
  BY <1>1, <1>4, <1>5
<1>8. \A i \in 0..Len(f) : Tell(f, i) \in Nat
  <2>1. PICK n \in Nat : n = Len(f)
    BY <1>1
  <2> QED
    BY <1>6, <2>1, TellNat
<1> QED
  BY <1>1, <1>6, <1>7, <1>8

\* Another frame at the end of the file.
LEMMA StartedMore ==
    ASSUME NEW f, NEW ix, NEW len, len \in Lengths, Started(f, ix)
    PROVE  Started(Append(f, Piece("00dc", len)),
                   Append(ix, <<Tell(f, Len(f)) - MoviStart(f) - 8, len>>))
<1> DEFINE g == Append(f, Piece("00dc", len))
           e == <<Tell(f, Len(f)) - MoviStart(f) - 8, len>>
           jx == Append(ix, e)
<1>0. len \in Nat \ {0}
  BY CaptureAssumption
<1>1. PICK n \in Nat : n = Len(f)
  BY StartedBytes
<1>2. PICK k \in Nat : k = Len(ix)
  BY StartedBytes
<1> HIDE DEF g, jx
<1>3. n = 3 + k /\ f \in Seq(Pieces) /\ ix \in Seq(Int \X (Nat \ {0}))
  <2>1. Len(f) = 3 + Len(ix) /\ f \in Seq(Pieces) /\ ix \in Seq(Int \X (Nat \ {0}))
    BY DEF Started
  <2> QED
    BY <1>1, <1>2, <2>1
<1>4. Piece("00dc", len) \in Pieces
  <2>1. "00dc" \in Tags /\ len \in Int
    BY <1>0 DEF Tags
  <2> QED
    BY <2>1, PieceFacts
<1>5. /\ g \in Seq(Pieces) /\ Len(g) = n + 1 /\ g[n + 1] = Piece("00dc", len)
      /\ \A i \in 1..n : g[i] = f[i]
  <2>1. /\ g \in Seq(Pieces) /\ Len(g) = Len(f) + 1 /\ g[Len(f) + 1] = Piece("00dc", len)
        /\ \A i \in 1..Len(f) : g[i] = f[i]
    BY <1>3, <1>4, AppendProperties DEF g
  <2> QED
    BY <1>1, <2>1
<1>6. Tell(f, n) \in Nat /\ MoviStart(f) \in Nat
  <2>1. 2 \in 0..n /\ n \in 0..n
    BY <1>3
  <2>2. \A i \in 0..n : Tell(f, i) \in Nat
    BY <1>1, StartedBytes
  <2> QED
    BY <2>1, <2>2 DEF MoviStart
<1>7. e \in Int \X (Nat \ {0}) /\ e[1] = Tell(f, n) - MoviStart(f) - 8 /\ e[2] = len
  BY <1>0, <1>1, <1>6
<1> HIDE DEF e
<1>8. /\ jx \in Seq(Int \X (Nat \ {0})) /\ Len(jx) = k + 1 /\ jx[k + 1] = e
      /\ \A i \in 1..k : jx[i] = ix[i]
  BY <1>2, <1>3, <1>7, AppendProperties DEF jx
<1>9. \A i \in 0..n : Tell(f, i) = Tell(g, i)
  BY <1>5, TellSame
<1>10. MoviStart(g) = MoviStart(f)
  BY <1>3, <1>9 DEF MoviStart
<1>11. g[1].tag = "RIFF" /\ g[2].tag = "hdrl" /\ g[3].tag = "movi"
  BY <1>3, <1>5 DEF Started
<1>12. ASSUME NEW i \in 1..k + 1
       PROVE  /\ g[3 + i] = Piece("00dc", jx[i][2])
              /\ MoviStart(g) + 8 + jx[i][1] = Tell(g, 2 + i)
  <2>1. CASE i \in 1..k
    <3>1. /\ f[3 + i] = Piece("00dc", ix[i][2])
          /\ MoviStart(f) + 8 + ix[i][1] = Tell(f, 2 + i)
      BY <1>2, <2>1 DEF Started
    <3>2. 3 + i \in 1..n /\ 2 + i \in 0..n
      BY <1>3, <2>1
    <3> QED
      BY <1>5, <1>8, <1>9, <1>10, <2>1, <3>1, <3>2
  <2>2. CASE i = k + 1
    <3>1. 3 + i = n + 1 /\ 2 + i = n
      BY <1>3, <2>2
    <3>2. MoviStart(f) + 8 + e[1] = Tell(f, n)
      BY <1>6, <1>7
    <3>3. Tell(f, n) = Tell(g, n)
      BY <1>9
    <3> QED
      BY <1>5, <1>7, <1>8, <1>10, <2>2, <3>1, <3>2, <3>3
  <2> QED
    BY <2>1, <2>2
<1>13. Started(g, jx)
  BY <1>3, <1>5, <1>8, <1>11, <1>12 DEF Started
<1> QED
  BY <1>13 DEF g, jx, e

\* The sizes that close fills in are those of another file of the same pieces.
Filled(f, a, b, c) == [f EXCEPT ![1].size = a, ![2].frames = b, ![3].size = c]

LEMMA FilledIn ==
    ASSUME NEW f \in Seq(Pieces), NEW a \in Int, NEW b \in Nat, NEW c \in Int, Len(f) >= 3,
           NEW g, g = Filled(f, a, b, c)
    PROVE  /\ g \in Seq(Pieces) /\ Len(g) = Len(f)
           /\ g[1].size = a /\ g[2].frames = b /\ g[3].size = c
           /\ g[1].tag = f[1].tag /\ g[2].tag = f[2].tag /\ g[3].tag = f[3].tag
           /\ \A i \in 4..Len(f) : g[i] = f[i]
<1> DEFINE f1 == [f EXCEPT ![1].size = a]
           f2 == [f1 EXCEPT ![2].frames = b]
           f3 == [f2 EXCEPT ![3].size = c]
<1>1. g = f3
  BY DEF Filled
<1>2. Len(f) \in Nat /\ \A i \in 1..Len(f) : f[i] \in Pieces
  OBVIOUS
<1>3. \A p \in Pieces, s \in Int : LET q == [p EXCEPT !.size = s]
                                   IN  q \in Pieces /\ q.size = s /\ q.tag = p.tag /\ q.frames = p.frames
  BY DEF Pieces
<1>4. \A p \in Pieces, s \in Nat : LET q == [p EXCEPT !.frames = s]
                                   IN  q \in Pieces /\ q.frames = s /\ q.tag = p.tag /\ q.size = p.size
  BY DEF Pieces
<1>5. /\ f1 \in Seq(Pieces) /\ Len(f1) = Len(f) /\ f1[1].size = a /\ f1[1].tag = f[1].tag
      /\ \A i \in 2..Len(f) : f1[i] = f[i]
  <2>1. f1 = [f EXCEPT ![1] = [f[1] EXCEPT !.size = a]]
    OBVIOUS
  <2> QED
    BY <1>2, <1>3, <2>1
<1> HIDE DEF f1
<1>6. /\ f2 \in Seq(Pieces) /\ Len(f2) = Len(f) /\ f2[2].frames = b /\ f2[2].tag = f1[2].tag
      /\ f2[1] = f1[1] /\ \A i \in 3..Len(f) : f2[i] = f1[i]
  <2>1. f2 = [f1 EXCEPT ![2] = [f1[2] EXCEPT !.frames = b]]
    OBVIOUS
  <2>2. \A i \in 1..Len(f) : f1[i] \in Pieces
    BY <1>2, <1>5
  <2> QED
    BY <1>2, <1>4, <1>5, <2>1, <2>2
<1> HIDE DEF f2
<1>7. /\ f3 \in Seq(Pieces) /\ Len(f3) = Len(f) /\ f3[3].size = c /\ f3[3].tag = f2[3].tag
      /\ f3[1] = f2[1] /\ f3[2] = f2[2] /\ \A i \in 4..Len(f) : f3[i] = f2[i]
  <2>1. f3 = [f2 EXCEPT ![3] = [f2[3] EXCEPT !.size = c]]
    OBVIOUS
  <2>2. \A i \in 1..Len(f) : f2[i] \in Pieces
    BY <1>2, <1>6
  <2> QED
    BY <1>2, <1>3, <1>6, <2>1, <2>2
<1> HIDE DEF f3
<1>8. ASSUME NEW i \in 4..Len(f) PROVE f3[i] = f[i]
  <2>1. i \in 3..Len(f) /\ i \in 2..Len(f)
    BY <1>2
  <2> QED
    BY <1>5, <1>6, <1>7, <2>1
<1>9. f3[1].size = a /\ f3[1].tag = f[1].tag
  BY <1>5, <1>6, <1>7
<1>10. f3[2].frames = b /\ f3[2].tag = f[2].tag
  <2>1. 2 \in 2..Len(f)
    BY <1>2
  <2> QED
    BY <1>5, <1>6, <1>7, <2>1
<1>11. f3[3].size = c /\ f3[3].tag = f[3].tag
  <2>1. 3 \in 2..Len(f) /\ 3 \in 3..Len(f)
    BY <1>2
  <2> QED
    BY <1>5, <1>6, <1>7, <2>1
<1> QED
  BY <1>1, <1>7, <1>8, <1>9, <1>10, <1>11

\* What close makes of a started file can be read back.
LEMMA FinishedIsReadable ==
    ASSUME Started(file, index)
    PROVE  Readable(Finished, index) /\ Finished # <<>>
<1> DEFINE all == Append(file, Piece("idx1", 16 * Len(index)))
           me == Tell(file, Len(file))
           a == Tell(all, Len(all)) - 8
           c == me - MoviStart(file) - 8
           F == Finished
<1>1. PICK n \in Nat : n = Len(file)
  BY StartedBytes
<1>2. PICK k \in Nat : k = Len(index)
  BY StartedBytes
<1>3. n = 3 + k /\ file \in Seq(Pieces) /\ index \in Seq(Int \X (Nat \ {0}))
  <2>1. Len(file) = 3 + Len(index) /\ file \in Seq(Pieces) /\ index \in Seq(Int \X (Nat \ {0}))
    BY DEF Started
  <2> QED
    BY <1>1, <1>2, <2>1
<1>4. F = Filled(all, a, k, c)
  BY <1>2 DEF Finished, Filled
<1>5. Piece("idx1", 16 * Len(index)) \in Pieces /\ Piece("idx1", 16 * Len(index)).tag = "idx1"
      /\ Piece("idx1", 16 * Len(index)).size = 16 * k
  <2>1. "idx1" \in Tags /\ 16 * Len(index) \in Int
    BY <1>2 DEF Tags
  <2> QED
    BY <1>2, <2>1, PieceFacts
<1> HIDE DEF F, c, a
<1>6. /\ all \in Seq(Pieces) /\ Len(all) = n + 1 /\ all[n + 1] = Piece("idx1", 16 * Len(index))
      /\ \A i \in 1..n : all[i] = file[i]
  <2>1. PICK p \in Pieces : p = Piece("idx1", 16 * Len(index))
    BY <1>5
  <2>2. all = Append(file, p)
    BY <2>1
  <2> HIDE DEF all
  <2>3. /\ all \in Seq(Pieces) /\ Len(all) = n + 1 /\ all[n + 1] = p
        /\ \A i \in 1..n : all[i] = file[i]
    <3>1. /\ all \in Seq(Pieces) /\ Len(all) = Len(file) + 1 /\ all[Len(file) + 1] = p
          /\ \A i \in 1..Len(file) : all[i] = file[i]
      BY <1>3, <2>2, AppendProperties
    <3> QED
      BY <1>1, <3>1
  <2> QED
    BY <2>1, <2>3
<1> HIDE DEF all
<1>7. /\ \A i \in 1..n : Bytes(file[i]) \in Nat
      /\ \A i \in 3..n : Bytes(file[i]) % 2 = 0 /\ Bytes(file[i]) >= 8
      /\ \A i \in 0..n : Tell(file, i) \in Nat
  BY <1>1, StartedBytes
<1>8. \A i \in 0..n : Tell(all, i) = Tell(file, i)
  BY <1>6, TellSame
<1>9. /\ all[1].tag = "RIFF" /\ all[2].tag = "hdrl" /\ all[3].tag = "movi"
      /\ all[1] \in Pieces /\ all[2] \in Pieces /\ all[3] \in Pieces /\ all[n + 1] \in Pieces
  BY <1>3, <1>6 DEF Started
<1>10. Tell(all, n + 1) \in Int
  <2>1. Tell(all, n + 1) = Tell(all, n) + Bytes(all[n + 1])
    BY TellStep
  <2>2. PICK p \in Pieces : p = all[n + 1]
    BY <1>9
  <2>3. p.tag = "idx1" /\ p.size = 16 * k
    BY <1>5, <1>6, <2>2
  <2>4. Bytes(p) = 8 + p.size + (p.size % 2)
    BY <2>3, PieceFacts
  <2>5. Bytes(all[n + 1]) \in Int
    BY <2>2, <2>3, <2>4
  <2>6. Tell(all, n) \in Int
    BY <1>7, <1>8
  <2> QED
    BY <2>1, <2>5, <2>6
<1>11. PICK s \in Nat, m \in Nat : s = MoviStart(file) /\ m = me
  <2>1. 2 \in 0..n /\ n \in 0..n
    BY <1>3
  <2> QED
    BY <1>1, <1>7, <2>1 DEF MoviStart
<1>12. a \in Int /\ c \in Int /\ a = Tell(all, n + 1) - 8 /\ c = (m - s) - 8
  BY <1>6, <1>10, <1>11 DEF a, c
<1>13. /\ F \in Seq(Pieces) /\ Len(F) = n + 1
       /\ F[1].size = a /\ F[2].frames = k /\ F[3].size = c
       /\ F[1].tag = "RIFF" /\ F[2].tag = "hdrl" /\ F[3].tag = "movi"
       /\ \A i \in 4..n + 1 : F[i] = all[i]
  <2>1. Len(all) >= 3
    BY <1>3, <1>6
  <2>2. /\ F \in Seq(Pieces) /\ Len(F) = Len(all)
        /\ F[1].size = a /\ F[2].frames = k /\ F[3].size = c
        /\ F[1].tag = all[1].tag /\ F[2].tag = all[2].tag /\ F[3].tag = all[3].tag
        /\ \A i \in 4..Len(all) : F[i] = all[i]
    BY <1>4, <1>6, <1>12, <2>1, FilledIn
  <2>3. Len(F) = n + 1 /\ \A i \in 4..n + 1 : F[i] = all[i]
    BY <1>6, <2>2
  <2> QED
    BY <1>9, <2>2, <2>3
\* The header pieces keep their sizes, so that no position moves.
<1>14. \A i \in 0..n + 1 : Tell(F, i) = Tell(all, i)
  <2>1. F[1] \in Pieces /\ F[2] \in Pieces /\ F[3] \in Pieces
    BY <1>3, <1>13
  <2>2. Bytes(F[1]) = Bytes(all[1]) /\ Bytes(F[2]) = Bytes(all[2]) /\ Bytes(F[3]) = Bytes(all[3])
    BY <1>9, <1>13, <2>1, PieceFacts
  <2>3. ASSUME NEW i \in 1..n + 1 PROVE Bytes(F[i]) = Bytes(all[i])
    <3>1. i \in {1, 2, 3} \/ i \in 4..n + 1
      OBVIOUS
    <3> QED
      BY <1>13, <2>2, <3>1
  <2>4. n + 1 \in Nat
    OBVIOUS
  <2> QED
    BY <2>3, <2>4, TellSame
<1>15. \A i \in 0..n : Tell(F, i) = Tell(file, i)
  BY <1>8, <1>14
<1>16. MoviStart(F) = s /\ Tell(F, n) = m
  <2>1. 2 \in 0..n /\ n \in 0..n
    BY <1>3
  <2>2. Tell(F, 2) = Tell(file, 2) /\ Tell(F, n) = Tell(file, n)
    BY <1>15, <2>1
  <2>3. Tell(file, n) = m
    BY <1>1, <1>11
  <2> QED
    BY <1>11, <2>2, <2>3 DEF MoviStart
<1>17. MoviEnd(F) = m
  BY <1>12, <1>13, <1>16 DEF MoviEnd
<1>18. c % 2 = 0
  <2>1. /\ 2 \in Nat /\ 2 <= n /\ \A i \in 2 + 1..n : Bytes(file[i]) % 2 = 0
    BY <1>3, <1>7
  <2>2. \A i \in 2..n : Tell(file, i) >= Tell(file, 2) /\ (Tell(file, i) - Tell(file, 2)) % 2 = 0
    BY <1>7, <2>1, TellGrows
  <2>3. (m - s) % 2 = 0
    BY <1>1, <1>11, <2>1, <2>2 DEF MoviStart
  <2> QED
    BY <1>12, <2>3
<1>19. WellFormed(F)
  <2>1. F[1].size = Tell(F, Len(F)) - 8
    BY <1>12, <1>13, <1>14
  <2>2. n + 1 \in 4..Len(F)
    BY <1>3, <1>13
  <2>3. F[n + 1].tag = "idx1"
    BY <1>3, <1>5, <1>6, <1>13
  <2>4. Tell(F, (n + 1) - 1) = MoviEnd(F) + (F[3].size % 2)
    BY <1>13, <1>16, <1>17, <1>18
  <2> QED
    BY <2>1, <2>2, <2>3, <2>4 DEF WellFormed
<1>20. InMovi(F) = 4..n
  <2>1. ASSUME NEW i \in 4..n PROVE Tell(F, i - 1) + 8 <= m
    <3>1. /\ i \in Nat /\ i <= n /\ \A j \in i + 1..n : Bytes(file[j]) % 2 = 0
          /\ n \in i..n /\ i - 1 \in 0..n /\ i \in 0..n /\ i \in 3..n
      BY <1>7
    <3>2. Tell(file, n) >= Tell(file, i)
      BY <1>7, <3>1, TellGrows
    <3>3. Tell(file, (i - 1) + 1) = Tell(file, i - 1) + Bytes(file[(i - 1) + 1])
      <4>1. i - 1 \in Nat
        BY <3>1
      <4> QED
        BY <4>1, TellStep
    <3>4. Tell(file, i) = Tell(file, i - 1) + Bytes(file[i])
      BY <3>3
    <3>5. Bytes(file[i]) \in Nat /\ Bytes(file[i]) >= 8 /\ Tell(file, i - 1) \in Nat
          /\ Tell(file, i) \in Nat /\ Tell(file, n) = m
      BY <1>1, <1>7, <1>11, <3>1
    <3> QED
      BY <1>15, <3>1, <3>2, <3>4, <3>5
  <2>2. ~(Tell(F, (n + 1) - 1) + 8 <= m)
    BY <1>16
  <2>3. InMovi(F) = {i \in 4..n + 1 : Tell(F, i - 1) + 8 <= m}
    BY <1>13, <1>17 DEF InMovi
  <2> QED
    BY <2>1, <2>2, <2>3
<1>21. Cardinality(InMovi(F)) = k
  <2>1. Cardinality(4..n) = IF 4 > n THEN 0 ELSE n - 4 + 1
    BY FS_Interval
  <2> QED
    BY <1>3, <1>20, <2>1
<1>22. \A i \in 1..k : F[3 + i] = Piece("00dc", index[i][2]) /\ index[i][2] \in Int
  <2>1. \A i \in 1..k : file[3 + i] = Piece("00dc", index[i][2])
    BY <1>2 DEF Started
  <2>2. \A i \in 1..k : index[i] \in Int \X (Nat \ {0})
    BY <1>2, <1>3
  <2>3. \A i \in 1..k : F[3 + i] = file[3 + i]
    BY <1>3, <1>6, <1>13
  <2> QED
    BY <2>1, <2>2, <2>3
<1>23. DOMAIN index = 1..k
  BY <1>2, <1>3
<1>24. ReadBack(F) = [i \in DOMAIN index |-> index[i][2]]
  <2>1. "00dc" \in Tags
    BY DEF Tags
  <2>2. \A i \in 1..k : F[3 + i].size = index[i][2]
    BY <1>22, <2>1, PieceFacts
  <2> QED
    BY <1>21, <1>23, <2>2 DEF ReadBack
<1>25. ASSUME NEW i \in DOMAIN index PROVE MoviStart(F) + 8 + index[i][1] = Tell(F, 2 + i)
  <2>1. MoviStart(file) + 8 + index[i][1] = Tell(file, 2 + i)
    BY <1>2, <1>23, <1>25 DEF Started
  <2>2. 2 + i \in 0..n
    BY <1>3, <1>23
  <2> QED
    BY <1>11, <1>15, <1>16, <2>1, <2>2
<1>26. F[2].frames = Len(index)
  BY <1>2, <1>13
<1>27. Readable(F, index)
  BY <1>19, <1>24, <1>25, <1>26 DEF Readable
<1>28. F # <<>>
  <2>1. Len(F) # 0
    BY <1>13
  <2> QED
    BY <2>1
<1> QED
  BY <1>27, <1>28 DEF F

AviInv ==
    /\ finished \in BOOLEAN /\ (finished => pc \in {"transport", "done"})
    /\ index \in Seq(Int \X (Nat \ {0})) /\ (file = <<>> => index = <<>>)
    /\ file # <<>> /\ ~finished => Started(file, index)
    /\ file # <<>> /\ finished => Readable(file, index)

LEMMA InitAviInv == Init => AviInv
<1> SUFFICES ASSUME Init PROVE AviInv
  OBVIOUS
<1>1. file = <<>> /\ index = <<>> /\ finished = FALSE
  BY DEF Init, AviInit
<1>2. <<>> \in Seq(Int \X (Nat \ {0}))
  OBVIOUS
<1> QED
  BY <1>1, <1>2 DEF AviInv

LEMMA AddKeepsAvi ==
    ASSUME AviInv, NEW f, NEW len \in Lengths, AviAdd(f, len), ~finished
    PROVE  /\ finished' = FALSE /\ index' \in Seq(Int \X (Nat \ {0})) /\ (file' = <<>> => index' = <<>>)
           /\ file' # <<>> => Started(file', index')
<1>1. CASE UNCHANGED avi
  BY <1>1 DEF AviInv, avi
<1> DEFINE was == IF file = <<>> THEN Opened ELSE file
           g == Append(was, Piece("00dc", len))
           jx == Append(index, <<Tell(was, Len(was)) - MoviStart(was) - 8, len>>)
<1>2. CASE file' = g /\ index' = jx /\ UNCHANGED finished
  <2>1. Started(was, index)
    BY OpenedIsStarted DEF AviInv
  <2> HIDE DEF was
  <2>2. Started(g, jx)
    BY <2>1, StartedMore
  <2> HIDE DEF g, jx
  <2>3. Started(file', index')
    BY <1>2, <2>2
  <2>4. jx \in Seq(Int \X (Nat \ {0})) /\ Len(g) # 0
    BY <2>2, StartedBytes DEF Started
  <2>5. index' \in Seq(Int \X (Nat \ {0})) /\ file' # <<>>
    BY <1>2, <2>4
  <2>6. finished' = FALSE
    BY <1>2 DEF AviInv
  <2> QED
    BY <2>3, <2>5, <2>6
<1> QED
  BY <1>1, <1>2 DEF AviAdd

LEMMA NextKeepsAvi == AviInv /\ [Next]_vars => AviInv'
<1> SUFFICES ASSUME AviInv, [Next]_vars PROVE AviInv'
  OBVIOUS
<1>1. ASSUME UNCHANGED avi, pc \in {"transport", "done"} => pc' \in {"transport", "done"}
      PROVE  AviInv'
  <2>1. file' = file /\ index' = index /\ finished' = finished
    BY <1>1 DEF avi
  <2>2. Started(file, index)' <=> Started(file, index)
    BY <2>1
  <2>3. Readable(file, index)' <=> Readable(file, index)
    BY <2>1
  <2> QED
    BY <1>1, <2>1, <2>2, <2>3 DEF AviInv
<1>2. CASE CloseAvi
  <2>1. /\ pc = "avi" /\ pc' = "transport" /\ finished' = TRUE /\ index' = index
        /\ file' = IF file = <<>> THEN file ELSE Finished
    BY <1>2 DEF CloseAvi, AviClose
  <2>2. finished = FALSE
    BY <2>1 DEF AviInv
  <2>3. file # <<>> => Readable(Finished, index) /\ Finished # <<>>
    BY <2>2, FinishedIsReadable DEF AviInv
  <2>4. file' # <<>> => Readable(file', index')
    BY <2>1, <2>3
  <2>5. file' = <<>> => file = <<>>
    BY <2>1, <2>3
  <2> QED
    BY <2>1, <2>4, <2>5 DEF AviInv
<1>3. CASE Frame
  <2>1. pc = "drain" /\ pc' = pc /\ \E len \in Lengths : AviAdd(Head(queue), len)
    BY <1>3 DEF Frame
  <2>2. ~finished
    BY <2>1 DEF AviInv
  <2>3. /\ finished' = FALSE /\ index' \in Seq(Int \X (Nat \ {0})) /\ (file' = <<>> => index' = <<>>)
        /\ file' # <<>> => Started(file', index')
    BY <2>1, <2>2, AddKeepsAvi
  <2> QED
    BY <2>3 DEF AviInv
<1>4. CASE FrameFails
  BY <1>1, <1>4 DEF FrameFails
<1>5. CASE NextSession
  <2>1. file' = <<>> /\ index' = <<>> /\ finished' = FALSE
    BY <1>5 DEF NextSession
  <2>2. <<>> \in Seq(Int \X (Nat \ {0}))
    OBVIOUS
  <2> QED
    BY <2>1, <2>2 DEF AviInv
<1>6. CASE Open \/ Read \/ CloseFails
  BY <1>1, <1>6 DEF Open, Read, CloseFails, Fail, sinks
<1>7. CASE UNCHANGED vars
  BY <1>1, <1>7 DEF vars, sinks
<1>8. CASE Others /\ ~CloseAvi
  <2>1. UNCHANGED avi /\ (pc \in {"transport", "done"} => pc' \in {"transport", "done"})
    BY <1>8 DEF Others, OpenRefused, OpenFails, Events, ReadsDone, ReadFails, EndPass, DrawFails, Fail,
                Screenshot, CloseSheet, CloseTransport, CleanupFails, sinks
  <2> QED
    BY <1>1, <2>1
<1> QED
  BY <1>2, <1>3, <1>4, <1>5, <1>6, <1>7, <1>8, Steps

LEMMA InductiveAviInv == Spec => []AviInv
  BY InitAviInv, NextKeepsAvi, PTL DEF Spec

\* Whatever was captured, in frames of whatever size, a file that was closed
\* reads back: its walk finds every frame, the index points at the chunks, the
\* header counts them.
THEOREM AviIsReadable == Spec => []AviReadsBack
<1>1. AviInv => AviReadsBack
  BY DEF AviInv, AviReadsBack, Readable
<1> QED
  BY InductiveAviInv, <1>1, PTL

-----------------------------------------------------------------------------
(* The replay of a recording *)

Cleaning == pc \in {"shot", "sheet", "avi", "transport", "done"}

\* What the sinks have of the frames that the parser delivered, unless one of
\* them failed.
SinksInv ==
    /\ count = Len(parsed)
    /\ ~raised => /\ saved = EveryKth(parsed, ShotEvery)
                  /\ Len(index) = (Len(parsed) + VideoEvery - 1) \div VideoEvery

\* What was delivered and is still queued is what has been read of the recording,
\* or put on it.
PlayInv ==
    /\ kind = "file" => /\ Len(parsed \o queue) = pos - 1 /\ pos - 1 <= Len(tape)
                        /\ \A i \in 1..pos - 1 : (parsed \o queue)[i] = tape[i]
    /\ recording /\ pc # "open" /\ ~raised => parsed \o queue = tape
    /\ eof => kind = "file" /\ pos = Len(tape) + 1
    /\ pc = "open" => parsed = <<>> /\ queue = <<>>
    /\ pc \in {"pass", "draw"} => queue = <<>>
    /\ Cleaning /\ ~raised => queue = <<>>
    /\ ended_by = "eof" => eof /\ queue = <<>> /\ Cleaning

LEMMA NoneOfNone == ASSUME NEW k \in Nat \ {0} PROVE EveryKth(<<>>, k) = <<>> /\ (0 + k - 1) \div k = 0
<1>1. (0 + k - 1) \div k = 0
  OBVIOUS
<1>2. Len(<<>>) = 0 /\ 1..0 = {}
  OBVIOUS
<1>3. EveryKth(<<>>, k) = [i \in {} |-> <<>>[(i - 1) * k + 1]]
  BY <1>1, <1>2 DEF EveryKth
<1> QED
  BY <1>1, <1>3

LEMMA MoveOver ==
    ASSUME NEW s \in Seq(Nat), NEW q \in Seq(Nat), q # <<>>
    PROVE  Append(s, Head(q)) \o Tail(q) = s \o q
  OBVIOUS

LEMMA FrameKeepsSinks ==
    ASSUME OrderInv, AviInv, SinksInv, Frame \/ FrameFails
    PROVE  SinksInv'
<1> DEFINE f == Head(queue)
<1>1. parsed \in Seq(Nat) /\ queue \in Seq(Nat) /\ saved \in Seq(Nat)
  BY DEF OrderInv, Types
<1>2. queue # <<>> /\ parsed' = Append(parsed, f) /\ count' = count + 1
  BY DEF Frame, FrameFails, Deliver
<1>3. f \in Nat
  BY <1>1, <1>2
<1>4. PICK n \in Nat : n = Len(parsed)
  BY <1>1
<1>5. Len(parsed') = n + 1 /\ count = n /\ count' = n + 1
  BY <1>1, <1>2, <1>3, <1>4 DEF SinksInv
<1> HIDE DEF f
<1>6. CASE FrameFails
  BY <1>4, <1>5, <1>6 DEF FrameFails, Fail, SinksInv
<1>7. CASE Frame
  <2>1. ShotAdd(f) /\ (\E len \in Lengths : AviAdd(f, len)) /\ raised' = raised
    BY <1>7 DEF Frame, f, errors
  <2> SUFFICES ASSUME ~raised
               PROVE  /\ saved' = EveryKth(parsed', ShotEvery)
                      /\ Len(index') = (Len(parsed') + VideoEvery - 1) \div VideoEvery
    BY <1>4, <1>5, <2>1 DEF SinksInv
  <2>2. /\ saved = EveryKth(parsed, ShotEvery)
        /\ Len(index) = (n + VideoEvery - 1) \div VideoEvery
    BY <1>4 DEF SinksInv
  <2>3. ShotEvery \in Nat \ {0} /\ VideoEvery \in Nat \ {0}
    BY CaptureAssumption
  <2>4. saved' = EveryKth(parsed', ShotEvery)
    <3>1. EveryKth(Append(parsed, f), ShotEvery) = IF Len(parsed) % ShotEvery = 0
                                                   THEN Append(EveryKth(parsed, ShotEvery), f)
                                                   ELSE EveryKth(parsed, ShotEvery)
      BY <1>1, <1>3, <2>3, EveryKthAppend
    <3>2. saved' = IF count % ShotEvery = 0 THEN Append(saved, f) ELSE saved
      BY <2>1 DEF ShotAdd, shot
    <3>3. parsed' = Append(parsed, f) /\ count = Len(parsed)
      BY <1>2, <1>4, <1>5 DEF f
    <3> QED
      BY <2>2, <3>1, <3>2, <3>3
  <2>5. Len(index') = IF n % VideoEvery = 0 THEN Len(index) + 1 ELSE Len(index)
    <3>1. PICK len \in Lengths : AviAdd(f, len)
      BY <2>1
    <3>2. CASE n % VideoEvery # 0
      BY <1>5, <3>1, <3>2 DEF AviAdd, avi
    <3>3. CASE n % VideoEvery = 0
      <4>1. \E e : index' = Append(index, e)
        BY <1>5, <3>1, <3>3 DEF AviAdd
      <4>2. PICK e : index' = Append(index, e)
        BY <4>1
      <4>3. PICK S : index \in Seq(S)
        BY DEF AviInv
      <4>4. Len(index') = Len(index) + 1
        BY <4>2, <4>3
      <4> QED
        BY <3>3, <4>4
    <3> QED
      BY <3>2, <3>3
  <2>6. (n + 1 + VideoEvery - 1) \div VideoEvery
           = IF n % VideoEvery = 0 THEN (n + VideoEvery - 1) \div VideoEvery + 1
             ELSE (n + VideoEvery - 1) \div VideoEvery
    <3>1. (Len(parsed) + 1 + VideoEvery - 1) \div VideoEvery
           = IF Len(parsed) % VideoEvery = 0 THEN (Len(parsed) + VideoEvery - 1) \div VideoEvery + 1
             ELSE (Len(parsed) + VideoEvery - 1) \div VideoEvery
      BY <1>1, <1>3, <2>3, EveryKthAppend
    <3> QED
      BY <1>4, <3>1
  <2>7. Len(index') = (Len(parsed') + VideoEvery - 1) \div VideoEvery
    BY <1>5, <2>2, <2>5, <2>6
  <2> QED
    BY <2>4, <2>7
<1> QED
  BY <1>6, <1>7

LEMMA FrameKeepsPlay ==
    ASSUME OrderInv, PlayInv, Frame \/ FrameFails
    PROVE  PlayInv'
<1>1. parsed \in Seq(Nat) /\ queue \in Seq(Nat)
  BY DEF OrderInv, Types
<1>2. /\ queue # <<>> /\ parsed' = Append(parsed, Head(queue)) /\ queue' = Tail(queue)
      /\ UNCHANGED <<kind, recording, pos, eof, tape, ended_by>>
      /\ pc = "drain" /\ pc' \in {"drain", "shot"} /\ (pc' = "shot" => raised') /\ (~raised' => ~raised)
  BY DEF Frame, FrameFails, Fail, Deliver, options, transport, disk, errors
<1>3. parsed' \o queue' = parsed \o queue
  BY <1>1, <1>2, MoveOver
<1>4. ended_by' # "eof"
  BY <1>2 DEF PlayInv, Cleaning
<1> QED
  BY <1>2, <1>3, <1>4 DEF PlayInv, Cleaning

LEMMA ReadKeepsPlay ==
    ASSUME OrderInv, PlayInv, Read
    PROVE  PlayInv'
<1>0. Types /\ TapeInv
  BY DEF OrderInv
<1>1. PICK d \in Offered :
        /\ CardRead(d) \/ SynthRead(d) \/ FileRead(d)
        /\ Record(d)
        /\ IF d = NoData THEN pc' = "draw" /\ UNCHANGED queue
                         ELSE queue' = d /\ UNCHANGED pc
  BY DEF Read
<1>2. /\ UNCHANGED <<kind, recording, parsed, ended_by, raised>>
      /\ pc = "drain" /\ queue = <<>> /\ pc' \in {"drain", "draw"}
      /\ queue' = IF d = NoData THEN <<>> ELSE d
  BY <1>1 DEF Read, options, errors
<1>3. ended_by' # "eof"
  BY <1>2 DEF PlayInv, Cleaning
<1>4. /\ parsed \in Seq(Nat) /\ tape \in Seq(Nat) /\ pos \in Nat \ {0} /\ parsed \o <<>> = parsed
      /\ <<>> \in Seq(Nat) /\ Len(<<>>) = 0
  BY <1>0 DEF Types
<1>5. pc' \in {"pass", "draw"} => queue' = <<>>
  BY <1>1, <1>2
<1>6. CASE kind # "file"
  <2>1. eof' = eof
    BY <1>1, <1>6 DEF CardRead, SynthRead, FileRead
  <2>2. tape' = IF recording /\ d # NoData THEN tape \o d ELSE tape
    BY <1>1 DEF Record, disk
  <2>3. recording /\ ~raised => parsed = tape
    BY <1>2, <1>4 DEF PlayInv
  <2>4. recording' /\ ~raised' => parsed' \o queue' = tape'
    BY <1>2, <1>4, <2>2, <2>3
  <2> QED
    BY <1>2, <1>3, <1>5, <1>6, <2>1, <2>4 DEF PlayInv, Cleaning
<1>7. CASE kind = "file"
  <2>1. FileRead(d) /\ ~recording
    BY <1>0, <1>1, <1>7 DEF CardRead, SynthRead, Types
  <2>2. tape' = tape
    BY <1>1, <2>1 DEF Record, disk
  <2>3. /\ d \in Seq(Nat) /\ pos' \in Nat \ {0}
        /\ d = NoData => pos > Len(tape) /\ pos' = pos /\ eof'
        /\ d # NoData => Cut(d, pos') /\ eof' = eof
    BY <1>0, <2>1, FileFacts
  <2>4. PICK n \in Nat, m \in Nat : n = Len(tape) /\ m = Len(d)
    BY <1>4, <2>3
  <2>5. /\ Len(parsed) = pos - 1 /\ pos - 1 <= n
        /\ \A i \in 1..pos - 1 : parsed[i] = tape[i]
    BY <1>2, <1>4, <1>7, <2>4 DEF PlayInv
  <2>6. eof => pos = n + 1
    BY <2>4 DEF PlayInv
  <2>7. CASE d = NoData
    <3>1. pos' = pos /\ pos = n + 1 /\ queue' = <<>>
      BY <1>2, <1>4, <2>3, <2>4, <2>5, <2>7
    <3> QED
      BY <1>2, <1>3, <1>4, <1>5, <1>7, <2>1, <2>2, <2>4, <2>5, <3>1 DEF PlayInv, Cleaning
  <2>8. CASE d # NoData
    <3>1. /\ queue' = d /\ pos' = pos + m /\ eof' = eof
          /\ \A i \in 1..m : pos + i - 1 \in 1..n /\ d[i] = tape[pos + i - 1]
      <4>1. queue' = d /\ eof' = eof
        BY <1>2, <2>3, <2>8
      <4>2. /\ pos' = pos + m
            /\ \A i \in 1..m : pos + i - 1 \in 1..n /\ d[i] = tape[pos + i - 1]
        BY <2>3, <2>4, <2>8 DEF Cut
      <4> QED
        BY <4>1, <4>2
    <3>2. pos' - 1 <= n
      <4>1. CASE m = 0
        BY <1>4, <2>5, <3>1, <4>1
      <4>2. CASE m # 0
        <5>1. m \in 1..m
          BY <4>2
        <5>2. pos + m - 1 \in 1..n
          BY <3>1, <5>1
        <5> QED
          BY <1>4, <2>4, <3>1, <5>2
      <4> QED
        BY <4>1, <4>2
    <3>3. /\ Len(parsed \o d) = pos' - 1
          /\ \A i \in 1..Len(parsed) : (parsed \o d)[i] = parsed[i]
          /\ \A i \in Len(parsed) + 1..Len(parsed) + Len(d) :
                i - Len(parsed) \in 1..Len(d) /\ (parsed \o d)[i] = d[i - Len(parsed)]
      <4>1. /\ Len(parsed \o d) = Len(parsed) + Len(d)
            /\ \A i \in 1..Len(parsed) : (parsed \o d)[i] = parsed[i]
            /\ \A i \in Len(parsed) + 1..Len(parsed) + Len(d) :
                  i - Len(parsed) \in 1..Len(d) /\ (parsed \o d)[i] = d[i - Len(parsed)]
        BY <1>4, <2>3, JoinFacts
      <4> QED
        BY <1>4, <2>4, <2>5, <3>1, <4>1
    <3>4. ASSUME NEW i \in 1..pos' - 1 PROVE (parsed \o d)[i] = tape[i]
      <4>1. CASE i \in 1..pos - 1
        BY <2>5, <3>3, <4>1
      <4>2. CASE i \in pos..pos' - 1
        <5>1. i \in Len(parsed) + 1..Len(parsed) + Len(d)
          BY <1>4, <2>4, <2>5, <3>1, <4>2
        <5>2. i - (pos - 1) \in 1..m /\ (parsed \o d)[i] = d[i - (pos - 1)]
          BY <2>4, <2>5, <3>3, <5>1
        <5>3. pos + (i - (pos - 1)) - 1 = i
          BY <1>4
        <5> QED
          BY <3>1, <5>2, <5>3
      <4>3. i \in 1..pos - 1 \/ i \in pos..pos' - 1
        <5>1. pos' = pos + m /\ pos \in Nat
          BY <1>4, <3>1
        <5>2. i \in 1..(pos + m) - 1
          BY <5>1
        <5>3. i \in 1..pos - 1 \/ i \in pos..(pos + m) - 1
          BY <5>1, <5>2
        <5> QED
          BY <5>1, <5>3
      <4> QED
        BY <4>1, <4>2, <4>3
    <3>5. eof' => pos' = n + 1
      <4> SUFFICES ASSUME eof PROVE pos' = n + 1
        BY <3>1
      <4>1. pos = n + 1 /\ pos' - 1 <= n /\ pos' = pos + m
        BY <2>6, <3>1, <3>2
      <4> QED
        BY <1>4, <4>1
    <3>6. eof' => kind' = "file"
      BY <1>2, <1>7
    <3> QED
      BY <1>2, <1>3, <1>5, <1>7, <2>1, <2>2, <2>4, <3>1, <3>2, <3>3, <3>4, <3>5, <3>6 DEF PlayInv, Cleaning
  <2> QED
    BY <2>7, <2>8
<1> QED
  BY <1>6, <1>7

LEMMA OthersKeepPlay ==
    ASSUME PlayInv, Others \/ UNCHANGED vars
    PROVE  PlayInv' /\ (raised => raised')
<1>1. UNCHANGED <<kind, recording, parsed, queue, pos, eof, tape>>
  BY OthersFacts
<1>2. ASSUME UNCHANGED vars
      PROVE  UNCHANGED <<pc, ended_by, raised>>
  BY <1>2 DEF vars, loop, errors
<1>3. CASE OpenRefused \/ OpenFails \/ ReadFails \/ DrawFails
  <2>1. pc \in {"open", "drain", "pass", "draw"} /\ pc' = "shot" /\ ended_by' = ended_by /\ raised'
    BY <1>3 DEF OpenRefused, OpenFails, ReadFails, DrawFails, Fail, loop
  <2>2. ended_by # "eof"
    BY <2>1 DEF PlayInv, Cleaning
  <2> QED
    BY <1>1, <2>1, <2>2 DEF PlayInv
<1>4. CASE Events
  <2>1. pc = "pass" /\ pc' = "drain" /\ ended_by' \in {ended_by, "quit"} /\ raised' = raised
    BY <1>4 DEF Events, errors
  <2>2. ended_by # "eof" /\ "quit" # "eof"
    BY <2>1 DEF PlayInv, Cleaning
  <2> QED
    BY <1>1, <2>1, <2>2 DEF PlayInv, Cleaning
<1>5. CASE ReadsDone
  <2>1. pc = "drain" /\ queue = <<>> /\ pc' = "draw" /\ ended_by' = ended_by /\ raised' = raised
    BY <1>5 DEF ReadsDone, errors, loop
  <2> QED
    BY <1>1, <2>1 DEF PlayInv, Cleaning
<1>6. CASE EndPass
  <2>1. pc = "draw" /\ raised' = raised /\ pc' \in {"pass", "shot"}
    BY <1>6 DEF EndPass, errors
  <2>2. ended_by # "eof" /\ queue = <<>>
    BY <2>1 DEF PlayInv, Cleaning
  <2>3. ended_by' = "eof" => newest = 0 /\ eof
    BY <1>6, <2>2 DEF EndPass
  <2>4. newest = 0 /\ eof => running' = FALSE /\ pc' = "shot"
    BY <1>6 DEF EndPass
  <2> QED
    BY <1>1, <2>1, <2>2, <2>3, <2>4 DEF PlayInv, Cleaning
<1>7. CASE Screenshot \/ CloseSheet \/ CloseAvi \/ CloseTransport \/ CleanupFails
  <2>1. Cleaning /\ Cleaning' /\ ended_by' = ended_by /\ pc' \notin {"pass", "draw", "open"} /\ pc # "open"
    BY <1>7 DEF Screenshot, CloseSheet, CloseAvi, CloseTransport, CleanupFails, Fail, loop, Cleaning
  <2>2. raised => raised'
    BY <1>7 DEF Screenshot, CloseSheet, CloseAvi, CloseTransport, CleanupFails, Fail, errors
  <2> QED
    BY <1>1, <2>1, <2>2 DEF PlayInv
<1>8. CASE UNCHANGED vars
  BY <1>1, <1>2, <1>8 DEF PlayInv, Cleaning
<1> QED
  BY <1>3, <1>4, <1>5, <1>6, <1>7, <1>8 DEF Others

\* A recording that is cut off was cut off by an exception.
LEMMA CloseFailsKeepsPlay ==
    ASSUME OrderInv, PlayInv, CloseFails
    PROVE  PlayInv'
<1>1. /\ UNCHANGED <<kind, recording, parsed, queue, pos, eof, ended_by>>
      /\ pc = "transport" /\ pc' = "done" /\ raised' /\ (tape' = tape \/ tape_open)
  BY DEF CloseFails, Fail, options, parser, loop
<1>2. tape' = tape \/ kind # "file"
  BY <1>1 DEF OrderInv, Types
<1> QED
  BY <1>1, <1>2 DEF PlayInv, Cleaning

ReplayInv == SinksInv /\ PlayInv

\* A session starts with nothing delivered and nothing read.
Fresh ==
    /\ parsed = <<>> /\ queue = <<>> /\ count = 0 /\ saved = <<>> /\ index = <<>>
    /\ pos = 1 /\ eof = FALSE /\ pc = "open" /\ ended_by = "" /\ tape \in Seq(Nat)

LEMMA FreshIsSound == Fresh => ReplayInv
<1> SUFFICES ASSUME Fresh PROVE ReplayInv
  OBVIOUS
<1>1. ShotEvery \in Nat \ {0} /\ VideoEvery \in Nat \ {0}
  BY CaptureAssumption
<1>2. /\ EveryKth(<<>>, ShotEvery) = <<>>
      /\ (0 + VideoEvery - 1) \div VideoEvery = 0
  BY <1>1, NoneOfNone
<1>3. Len(<<>>) = 0 /\ <<>> \o <<>> = <<>>
  OBVIOUS
<1>4. SinksInv
  BY <1>2, <1>3 DEF SinksInv, Fresh
<1>5. Len(tape) \in Nat /\ pos = 1
  BY LenProperties DEF Fresh
<1>6. parsed \o queue = <<>>
  BY <1>3 DEF Fresh
<1>7. PlayInv
  <2>1. pc = "open" /\ ~eof /\ ended_by # "eof" /\ ~Cleaning /\ parsed = <<>> /\ queue = <<>>
    BY DEF Fresh, Cleaning
  <2>2. Len(parsed \o queue) = pos - 1 /\ pos - 1 <= Len(tape) /\ pos - 1 = 0
    BY <1>3, <1>5, <1>6
  <2> QED
    BY <2>1, <2>2 DEF PlayInv
<1> QED
  BY <1>4, <1>7 DEF ReplayInv

LEMMA NextKeepsReplay == OrderInv /\ OrderInv' /\ AviInv /\ ReplayInv /\ [Next]_vars => ReplayInv'
<1> SUFFICES ASSUME OrderInv, OrderInv', AviInv, SinksInv, PlayInv, [Next]_vars PROVE ReplayInv'
  BY DEF ReplayInv
<1>1. CASE Others \/ UNCHANGED vars
  <2>1. UNCHANGED <<parsed, saved, count, index>> /\ (raised => raised')
    BY <1>1, OthersFacts, OthersKeepPlay
  <2>2. SinksInv'
    BY <2>1 DEF SinksInv
  <2> QED
    BY <1>1, <2>2, OthersKeepPlay DEF ReplayInv
<1>2. CASE Frame \/ FrameFails
  BY <1>2, FrameKeepsSinks, FrameKeepsPlay DEF ReplayInv
<1>3. CASE Read
  <2>1. UNCHANGED <<parsed, saved, count, index, raised>>
    BY <1>3 DEF Read, sinks, shot, avi, errors
  <2>2. SinksInv'
    BY <2>1 DEF SinksInv
  <2> QED
    BY <1>3, <2>2, ReadKeepsPlay DEF ReplayInv
<1>4. CASE Open
  <2>1. /\ UNCHANGED <<parsed, queue, saved, count, index, raised, kind, recording, pos, eof, ended_by>>
        /\ pc = "open" /\ pc' = "pass" /\ (IF recording THEN tape' = <<>> ELSE tape' = tape)
    BY <1>4 DEF Open, options, parser, sinks, shot, avi, errors, loop, disk
  <2>2. SinksInv'
    BY <2>1 DEF SinksInv
  <2>3. kind = "file" => tape' = tape
    BY <2>1 DEF OrderInv, Types
  <2>4. ended_by # "eof" /\ parsed = <<>> /\ queue = <<>>
    BY <2>1 DEF PlayInv, Cleaning
  <2>5. recording => parsed' \o queue' = tape'
    BY <2>1, <2>4
  <2>6. PlayInv'
    BY <2>1, <2>3, <2>4, <2>5 DEF PlayInv, Cleaning
  <2> QED
    BY <2>2, <2>6 DEF ReplayInv
<1>5. CASE NextSession
  <2>1. /\ parsed' = <<>> /\ queue' = <<>> /\ count' = 0 /\ saved' = <<>> /\ index' = <<>>
        /\ pos' = 1 /\ eof' = FALSE /\ pc' = "open" /\ ended_by' = ""
    BY <1>5 DEF NextSession
  <2>2. tape' \in Seq(Nat)
    BY DEF OrderInv, Types
  <2>3. Fresh'
    BY <2>1, <2>2 DEF Fresh
  <2>4. Fresh' => ReplayInv'
    BY FreshIsSound, PTL
  <2> QED
    BY <2>3, <2>4
<1>6. CASE CloseFails
  <2>1. UNCHANGED <<parsed, saved, count, index>> /\ raised'
    BY <1>6 DEF CloseFails, Fail, parser, sinks, shot, avi
  <2>2. SinksInv'
    BY <2>1 DEF SinksInv
  <2> QED
    BY <1>6, <2>2, CloseFailsKeepsPlay DEF ReplayInv
<1> QED
  BY <1>1, <1>2, <1>3, <1>4, <1>5, <1>6, Steps

\* A session that recorded and went without an exception has put what it showed
\* on the recording, frame by frame; and a replay that ran to its end has shown
\* the sinks the whole recording, however it was cut, and they kept every K-th
\* frame of it.
THEOREM ReplayIsComplete == Spec => []ReplayComplete
<1>1. Init => ReplayInv
  <2> SUFFICES ASSUME Init PROVE ReplayInv
    OBVIOUS
  <2>1. /\ parsed = <<>> /\ queue = <<>> /\ count = 0 /\ saved = <<>> /\ index = <<>>
        /\ pos = 1 /\ eof = FALSE /\ pc = "open" /\ ended_by = ""
    BY DEF Init, ShotInit, AviInit
  <2>2. tape \in Seq(Nat)
    BY InitOrderInv DEF OrderInv, Types
  <2> QED
    BY <2>1, <2>2, FreshIsSound DEF Fresh
<1>2. OrderInv /\ ReplayInv => ReplayComplete
  <2> SUFFICES ASSUME OrderInv, SinksInv, PlayInv PROVE ReplayComplete
    BY DEF ReplayInv
  <2>1. /\ tape \in Seq(Nat) /\ parsed \in Seq(Nat) /\ VideoEvery \in Nat \ {0}
        /\ parsed \o <<>> = parsed
    BY CaptureAssumption DEF OrderInv, Types
  <2>2. ASSUME recording, pc = "done", ~raised PROVE IsSuffix(parsed, tape)
    <3>1. parsed = tape
      BY <2>1, <2>2 DEF PlayInv, Cleaning
    <3>2. Len(Reverse(tape)) \in Nat
      <4>1. Reverse(tape) = [i \in 1..Len(tape) |-> tape[(Len(tape) - i) + 1]] /\ Len(tape) \in Nat
        BY <2>1 DEF Reverse
      <4>2. \A i \in 1..Len(tape) : (Len(tape) - i) + 1 \in 1..Len(tape)
        BY <4>1
      <4>3. \A i \in 1..Len(tape) : Reverse(tape)[i] \in Nat
        BY <2>1, <4>1, <4>2
      <4>4. Reverse(tape) = [i \in 1..Len(tape) |-> Reverse(tape)[i]]
        BY <4>1
      <4> QED
        BY <4>1, <4>3, <4>4, FunctionIsSeq
    <3> QED
      BY <3>1, <3>2 DEF IsSuffix, IsPrefix
  <2>3. ASSUME kind = "file", pc = "done", ended_by = "eof", ~raised
        PROVE  /\ parsed = tape
               /\ saved = EveryKth(parsed, ShotEvery)
               /\ Len(index) = Len(EveryKth(parsed, VideoEvery))
    <3>1. /\ pos = Len(tape) + 1 /\ queue = <<>> /\ Len(parsed) = pos - 1
          /\ \A i \in 1..pos - 1 : parsed[i] = tape[i]
      BY <2>1, <2>3 DEF PlayInv
    <3>2. parsed = tape
      <4>1. Len(parsed) = Len(tape) /\ \A i \in 1..Len(parsed) : parsed[i] = tape[i]
        BY <2>1, <3>1
      <4> QED
        BY <2>1, <4>1, SeqEqual
    <3>4. Len(EveryKth(parsed, VideoEvery)) = (Len(parsed) + VideoEvery - 1) \div VideoEvery
      <4>1. 0 \in Nat
        OBVIOUS
      <4> QED
        BY <2>1, <4>1, EveryKthAppend
    <3> QED
      BY <2>3, <3>2, <3>4 DEF SinksInv
  <2> QED
    BY <2>2, <2>3 DEF ReplayComplete
<1>3. OrderInv /\ OrderInv' /\ AviInv /\ ReplayInv /\ [Next]_vars => ReplayInv'
  BY NextKeepsReplay
<1> QED
  BY InductiveOrderInv, InductiveAviInv, <1>1, <1>2, <1>3, PTL DEF Spec
=============================================================================
