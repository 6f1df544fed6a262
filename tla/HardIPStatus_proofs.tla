--------------------------- MODULE HardIPStatus_proofs ---------------------------
(***************************************************************************)
(* What the tool may believe of the latched events and of their counter,   *)
(* for counters of any width and any number of pcie clocks in a sys clock. *)
(***************************************************************************)
EXTENDS HardIPStatus, TLAPS, WellFoundedInduction

-----------------------------------------------------------------------------
(* Induction over numbers, and what division does *)

LEMMA LeastNat ==
    ASSUME NEW T, T \subseteq Nat, T # {}
    PROVE  \E x \in T : \A y \in T : x <= y
<1> DEFINE R == OpToRel(<, Nat)
<1>1. IsWellFoundedOn(R, Nat)
  BY NatLessThanWellFounded
<1>2. R = {ss \in Nat \X Nat : ss[1] < ss[2]}
  BY DEF OpToRel
<1> HIDE DEF R
<1>3. PICK x \in T : \A y \in T : ~ (<<y, x>> \in R)
  BY <1>1, WFMin
<1>4. ASSUME NEW y \in T PROVE x <= y
  <2>1. ~ (<<y, x>> \in R) /\ x \in Nat /\ y \in Nat
    BY <1>3
  <2>2. ~ (y < x)
    BY <1>2, <2>1
  <2> QED
    BY <2>1, <2>2
<1> QED
  BY <1>4

LEMMA Induct ==
    ASSUME NEW T, 0 \in T, \A n \in Nat : n \in T => n + 1 \in T
    PROVE  \A n \in Nat : n \in T
<1> SUFFICES ASSUME NEW n \in Nat, n \notin T PROVE FALSE
  OBVIOUS
<1>1. PICK x \in Nat \ T : \A y \in Nat \ T : x <= y
  <2>1. Nat \ T \subseteq Nat /\ Nat \ T # {}
    OBVIOUS
  <2> QED
    BY <2>1, LeastNat
<1>2. x # 0 /\ x - 1 \in Nat /\ x - 1 \in T /\ x = (x - 1) + 1
  BY <1>1
<1> QED
  BY <1>1, <1>2

LEMMA Quotient ==
    ASSUME NEW a \in Nat, NEW k \in Nat \ {0}
    PROVE  /\ a \div k \in Nat /\ a % k \in 0..k - 1
           /\ a = k * (a \div k) + (a % k)
  OBVIOUS

LEMMA QuotientOnly ==
    ASSUME NEW k \in Nat \ {0}, NEW q \in Nat, NEW p \in Nat, NEW r \in 0..k - 1, NEW s \in 0..k - 1,
           k * q + r = k * p + s
    PROVE  q = p
<1>1. k * (q - p) = s - r
  OBVIOUS
<1>2. k * (q - p) < k /\ k * (q - p) > -k
  BY <1>1
<1>3. ASSUME q > p PROVE FALSE
  <2>1. q - p >= 1 /\ q - p \in Nat
    BY <1>3
  <2>2. k * (q - p) >= k
    BY <2>1
  <2> QED
    BY <1>2, <2>2
<1>4. ASSUME p > q PROVE FALSE
  <2>1. p - q >= 1 /\ p - q \in Nat
    BY <1>4
  <2>2. k * (p - q) >= k /\ k * (q - p) = -(k * (p - q))
    BY <2>1
  <2> QED
    BY <1>2, <2>2
<1> QED
  BY <1>3, <1>4

LEMMA DivideAgain ==
    ASSUME NEW v \in Nat, NEW k \in Nat \ {0}
    PROVE  v \div (2 * k) = (v \div 2) \div k
<1> DEFINE q == v \div 2
           r == v % 2
           p == q \div k
           s == q % k
           o == v \div (2 * k)
           t == v % (2 * k)
<1>1. q \in Nat /\ r \in 0..1 /\ v = 2 * q + r
  OBVIOUS
<1>2. p \in Nat /\ s \in 0..k - 1 /\ q = k * p + s
  BY <1>1, Quotient
<1>3. 2 * k \in Nat \ {0}
  OBVIOUS
<1>4. o \in Nat /\ t \in 0..2 * k - 1 /\ v = (2 * k) * o + t
  BY <1>3, Quotient
<1> HIDE DEF q, r, p, s, o, t
<1>5. (2 * k) * p = 2 * (k * p) /\ k * p \in Nat
  BY <1>2
<1>6. (2 * k) * o + t = (2 * k) * p + (2 * s + r) /\ 2 * s + r \in 0..2 * k - 1
  BY <1>1, <1>2, <1>4, <1>5
<1>7. o = p
  BY <1>2, <1>3, <1>4, <1>6, QuotientOnly
<1> QED
  BY <1>7 DEF o, p, q

-----------------------------------------------------------------------------
(* The bits of a value *)

IsWeight(g, n) == g = [i \in 0..n |-> IF i = 0 THEN 1 ELSE 2 * g[i - 1]]

LEMMA WeightExists == \A n \in Nat : \E g : IsWeight(g, n)
<1> DEFINE T == {n \in Nat : \E g : IsWeight(g, n)}
<1>1. 0 \in T
  <2>1. IsWeight([i \in 0..0 |-> 1], 0)
    BY DEF IsWeight
  <2> QED
    BY <2>1
<1>2. ASSUME NEW n \in Nat, n \in T PROVE n + 1 \in T
  <2>1. PICK g : IsWeight(g, n)
    BY <1>2
  <2> DEFINE h == [i \in 0..n + 1 |-> IF i = n + 1 THEN 2 * g[n] ELSE g[i]]
  <2>2. \A i \in 0..n : g[i] = IF i = 0 THEN 1 ELSE 2 * g[i - 1]
    BY <2>1 DEF IsWeight
  <2>3. \A i \in 0..n + 1 : h[i] = IF i = 0 THEN 1 ELSE 2 * h[i - 1]
    BY <2>2
  <2>4. DOMAIN h = 0..n + 1 /\ h = [i \in 0..n + 1 |-> h[i]]
    OBVIOUS
  <2> HIDE DEF h
  <2>5. h = [i \in 0..n + 1 |-> IF i = 0 THEN 1 ELSE 2 * h[i - 1]]
    BY <2>3, <2>4
  <2>6. IsWeight(h, n + 1)
    BY <2>5 DEF IsWeight
  <2> QED
    BY <2>6
<1> QED
  <2> HIDE DEF T
  <2>1. \A n \in Nat : n \in T
    BY <1>1, <1>2, Induct
  <2> QED
    BY <2>1 DEF T

LEMMA WeightFacts ==
    /\ Weight[0] = 1
    /\ \A i \in 0..Bits - 1 : Weight[i + 1] = 2 * Weight[i]
    /\ \A i \in 0..Bits : Weight[i] \in Nat \ {0}
<1>0. Bits \in Nat \ {0}
  BY StatusAssumption
<1>1. IsWeight(Weight, Bits)
  <2>1. \E g : IsWeight(g, Bits)
    BY <1>0, WeightExists
  <2>2. Weight = CHOOSE g : IsWeight(g, Bits)
    BY DEF Weight, IsWeight
  <2> QED
    BY <2>1, <2>2
<1>2. \A i \in 0..Bits : Weight[i] = IF i = 0 THEN 1 ELSE 2 * Weight[i - 1]
  BY <1>1 DEF IsWeight
<1> DEFINE T == {i \in Nat : i <= Bits => Weight[i] \in Nat \ {0}}
<1>3. 0 \in T
  BY <1>0, <1>2
<1>4. ASSUME NEW i \in Nat, i \in T PROVE i + 1 \in T
  BY <1>0, <1>2, <1>4
<1> HIDE DEF T
<1>5. \A i \in Nat : i \in T
  BY <1>3, <1>4, Induct
<1>6. \A i \in 0..Bits : Weight[i] \in Nat \ {0}
  BY <1>0, <1>5 DEF T
<1>7. \A i \in 0..Bits - 1 : Weight[i + 1] = 2 * Weight[i]
  BY <1>0, <1>2
<1>8. Weight[0] = 1
  BY <1>0, <1>2
<1> QED
  BY <1>6, <1>7, <1>8

SameBits(v, w, b) == \A i \in 0..b - 1 : Bit(v, i) = Bit(w, i)

\* A value is its bits.
LEMMA BitsDetermine ==
    \A b \in 0..Bits : \A v, w \in 0..Weight[b] - 1 : SameBits(v, w, b) => v = w
<1>0. Bits \in Nat \ {0}
  BY StatusAssumption
<1> DEFINE T == {b \in Nat : b <= Bits => \A v, w \in 0..Weight[b] - 1 : SameBits(v, w, b) => v = w}
<1>1. 0 \in T
  BY WeightFacts
<1>2. ASSUME NEW b \in Nat, b \in T PROVE b + 1 \in T
  <2> SUFFICES ASSUME b + 1 <= Bits,
                      NEW v \in 0..Weight[b + 1] - 1, NEW w \in 0..Weight[b + 1] - 1,
                      SameBits(v, w, b + 1)
               PROVE  v = w
    OBVIOUS
  <2>1. b \in 0..Bits - 1 /\ b \in 0..Bits /\ b <= Bits
    BY <1>0
  <2>2. PICK k \in Nat \ {0} : k = Weight[b] /\ Weight[b + 1] = 2 * k
    BY <2>1, WeightFacts
  <2>3. v \in 0..2 * k - 1 /\ w \in 0..2 * k - 1 /\ v \in Nat /\ w \in Nat
    BY <2>2
  <2>4. v \div 2 \in 0..k - 1 /\ w \div 2 \in 0..k - 1 /\ v \div 2 \in Nat /\ w \div 2 \in Nat
    BY <2>3
  <2>5. ASSUME NEW i \in 0..b - 1 PROVE Bit(v \div 2, i) = Bit(w \div 2, i)
    <3>1. i \in 0..Bits - 1 /\ i \in 0..Bits /\ i + 1 \in 0..(b + 1) - 1
      BY <1>0, <2>1
    <3>2. PICK m \in Nat \ {0} : m = Weight[i] /\ Weight[i + 1] = 2 * m
      BY <3>1, WeightFacts
    <3>3. v \div (2 * m) = (v \div 2) \div m /\ w \div (2 * m) = (w \div 2) \div m
      BY <2>3, DivideAgain
    <3>4. Bit(v, i + 1) = Bit(w, i + 1)
      BY <3>1 DEF SameBits
    <3> QED
      BY <3>2, <3>3, <3>4 DEF Bit
  <2>6. SameBits(v \div 2, w \div 2, b)
    BY <2>5 DEF SameBits
  <2>7. v \div 2 = w \div 2
    BY <1>2, <2>1, <2>2, <2>4, <2>6
  <2>8. v % 2 = w % 2
    <3>1. Bit(v, 0) = Bit(w, 0)
      BY DEF SameBits
    <3>2. v \div 1 = v /\ w \div 1 = w
      BY <2>3
    <3> QED
      BY <3>1, <3>2, WeightFacts DEF Bit
  <2> QED
    BY <2>3, <2>7, <2>8
<1> HIDE DEF T
<1>3. \A b \in Nat : b \in T
  BY <1>1, <1>2, Induct
<1> QED
  BY <1>0, <1>3 DEF T

Values == 0..CountMod - 1

LEMMA CountModFact == CountMod \in Nat \ {0} /\ 0 \in Values
<1>1. Bits \in 0..Bits
  BY StatusAssumption
<1> QED
  BY <1>1, WeightFacts DEF CountMod, Values

\* A synchroniser takes over a value that stands still as it is.
LEMMA MixOfOne == ASSUME NEW c \in Values PROVE Mixes(c, c) \subseteq {c}
<1> SUFFICES ASSUME NEW v \in Mixes(c, c) PROVE v = c
  OBVIOUS
<1>1. Bits \in 0..Bits
  BY StatusAssumption
<1>2. v \in 0..Weight[Bits] - 1 /\ c \in 0..Weight[Bits] - 1
  BY DEF Mixes, Values, CountMod
<1>3. SameBits(v, c, Bits)
  BY DEF Mixes, SameBits
<1> QED
  BY <1>1, <1>2, <1>3, BitsDetermine

-----------------------------------------------------------------------------
(* The clear on its way, and what comes out behind it *)

TypeInv ==
    /\ re \in BOOLEAN /\ clear1 \in BOOLEAN /\ clear_pcie \in BOOLEAN
    /\ latch \in BOOLEAN /\ latch_was \in BOOLEAN /\ seen1 \in BOOLEAN /\ seen \in BOOLEAN
    /\ msg_count \in Values /\ count_was \in Values /\ count1 \in Values /\ count \in Values
    /\ edges \in Nat /\ fresh \in Nat /\ kept \in Nat /\ waited \in 0..Gap /\ quiet \in 0..3
    /\ pc \in {"idle", "cleared", "counted"}

\* The pulse: a sys clock long, sampled by an edge of each of the next intervals,
\* and over with the first edge of the third.
ClearInv ==
    /\ re => pc = "cleared" /\ waited = 0
    /\ clear1 => pc = "cleared" /\ (waited = 0 \/ (waited = 1 /\ edges = 0))
    /\ clear_pcie => pc = "cleared" /\ (waited < 2 \/ (waited = 2 /\ edges = 0))
    /\ pc = "cleared" /\ waited = 0 => re /\ (edges > 0 => clear1)
    /\ pc = "cleared" /\ waited = 1 /\ edges = 0 => clear1

\* The clear has not done its work yet.
Coming == pc = "cleared" /\ (waited = 0 \/ (waited = 1 /\ edges = 0) \/ clear_pcie)

\* What the pcie domain holds once it has.
LatchInv ==
    /\ msg_count # 0 => latch
    /\ count_was # 0 => latch_was
    /\ ~Coming => /\ latch => fresh > 0
                  /\ kept > 0 => latch
                  /\ fresh < CountMod => kept <= msg_count /\ msg_count <= fresh
    /\ Clearing => kept = 0

\* At least k sys clocks after a clear.
After(k) == pc = "cleared" => waited >= k

\* What a stage of the way to sys holds: flag and counter of it.
Stage(flag, n, q) ==
    /\ n # 0 => latch
    /\ flag => latch /\ fresh > 0
    /\ quiet >= q => flag = latch /\ n = msg_count

StageInv ==
    /\ After(3) => Stage(latch_was, count_was, 1)
    /\ After(4) => Stage(seen1, count1, 2)
    /\ After(5) => Stage(seen, count, 3)

\* What the tool has read.
ReadInv ==
    /\ pc = "counted" /\ got_count # 0 => /\ latch /\ latch_was
                                          /\ waited >= 1 => seen1
                                          /\ waited >= 2 => seen
    /\ pc = "idle" /\ got_count # 0 => got_seen

StatusInv == TypeInv /\ ClearInv /\ LatchInv /\ StageInv /\ ReadInv

LEMMA InitStatusInv == Init => StatusInv
<1> SUFFICES ASSUME Init PROVE StatusInv
  OBVIOUS
<1>1. Gap \in Nat /\ Gap >= 5
  BY StatusAssumption, SlowUart
<1>2. TypeInv
  <2>1. /\ re \in BOOLEAN /\ clear1 \in BOOLEAN /\ clear_pcie \in BOOLEAN
        /\ latch \in BOOLEAN /\ latch_was \in BOOLEAN /\ seen1 \in BOOLEAN /\ seen \in BOOLEAN
    BY DEF Init
  <2>2. msg_count \in Values /\ count_was \in Values /\ count1 \in Values /\ count \in Values
    BY CountModFact DEF Init
  <2>3. edges \in Nat /\ fresh \in Nat /\ kept \in Nat /\ waited \in 0..Gap /\ quiet \in 0..3
    BY <1>1 DEF Init
  <2>4. pc \in {"idle", "cleared", "counted"}
    BY DEF Init
  <2> QED
    BY <2>1, <2>2, <2>3, <2>4 DEF TypeInv
<1>3. ClearInv
  BY DEF Init, ClearInv
<1>4. LatchInv
  BY DEF Init, LatchInv, Coming, Clearing
<1>5. StageInv
  BY DEF Init, StageInv, Stage
<1>6. ReadInv
  BY DEF Init, ReadInv
<1> QED
  BY <1>2, <1>3, <1>4, <1>5, <1>6 DEF StatusInv

\* An edge of the pcie clock.
LEMMA PcieKeeps ==
    ASSUME StatusInv, NEW msg \in BOOLEAN, PcieEdge(msg)
    PROVE  StatusInv'
<1>0. TypeInv /\ ClearInv /\ LatchInv /\ StageInv /\ ReadInv
  BY DEF StatusInv
<1>1. /\ edges' = edges + 1 /\ clear1' = re /\ clear_pcie' = clear1
      /\ latch' = (~clear_pcie /\ (latch \/ msg))
      /\ msg_count' = IF clear_pcie THEN 0 ELSE IF msg THEN (msg_count + 1) % CountMod ELSE msg_count
      /\ latch_was' = latch /\ count_was' = msg_count
      /\ UNCHANGED <<re, seen1, seen, count1, count, pc, waited, got_seen, got_count>>
  BY DEF PcieEdge, Latch, Count, tool
<1>2. /\ msg => fresh' = fresh + 1 /\ kept' = (IF Clearing THEN kept ELSE kept + 1) /\ quiet' = 0
      /\ ~msg => fresh' = fresh /\ kept' = kept /\ quiet' = quiet
  BY DEF PcieEdge
<1>3. CountMod \in Nat \ {0} /\ \A n \in Values : n \in Nat /\ (n + 1) % CountMod \in Values
      /\ ((n + 1) % CountMod <= n + 1) /\ (n + 1 < CountMod => (n + 1) % CountMod = n + 1)
  BY CountModFact DEF Values
<1>4. TypeInv'
  <2>1. msg_count' \in Values /\ count_was' \in Values /\ count1' \in Values /\ count' \in Values
    BY <1>0, <1>1, <1>3, CountModFact DEF TypeInv, Values
  <2>2. edges' \in Nat /\ fresh' \in Nat /\ kept' \in Nat /\ waited' \in 0..Gap /\ quiet' \in 0..3
    BY <1>0, <1>1, <1>2 DEF TypeInv
  <2>3. (~clear_pcie /\ (latch \/ msg)) \in BOOLEAN
    OBVIOUS
  <2>4. latch' \in BOOLEAN
    BY <1>1, <2>3, Zenon
  <2>5. re' \in BOOLEAN /\ clear1' \in BOOLEAN /\ clear_pcie' \in BOOLEAN /\ latch_was' \in BOOLEAN
        /\ seen1' \in BOOLEAN /\ seen' \in BOOLEAN
    BY <1>0, <1>1, Zenon DEF TypeInv
  <2>6. pc' \in {"idle", "cleared", "counted"}
    BY <1>0, <1>1 DEF TypeInv
  <2> QED
    BY <2>1, <2>2, <2>4, <2>5, <2>6 DEF TypeInv, Values
<1>5. ClearInv'
  BY <1>0, <1>1 DEF TypeInv, ClearInv
<1>6. latch' <=> (~clear_pcie /\ (latch \/ msg))
  BY <1>1, Zenon
<1>7. Coming' => Coming
  BY <1>0, <1>1 DEF TypeInv, ClearInv, Coming
<1>8. Coming /\ ~Coming' => clear_pcie
  BY <1>0, <1>1 DEF TypeInv, ClearInv, Coming
<1>9. Clearing' <=> Clearing
  BY <1>1 DEF Clearing
<1>10. LatchInv'
  <2>1. msg_count' # 0 => latch'
    BY <1>0, <1>1, <1>6 DEF LatchInv
  <2>2. count_was' # 0 => latch_was'
    BY <1>0, <1>1, Zenon DEF LatchInv
  <2>3. Clearing' => kept' = 0
    BY <1>0, <1>2, <1>9 DEF LatchInv
  <2>4. CASE clear_pcie
    <3>1. msg_count' = 0 /\ ~latch' /\ Clearing /\ kept' = 0 /\ 0 <= fresh'
      <4>1. Clearing
        <5>1. pc = "cleared" /\ waited < 3
          BY <1>0, <2>4 DEF TypeInv, ClearInv
        <5>2. Gap \in Nat /\ Gap >= 5 /\ waited \in Nat
          BY <1>0, StatusAssumption, SlowUart DEF TypeInv
        <5> QED
          BY <5>1, <5>2 DEF Clearing
      <4>2. msg_count' = 0 /\ ~latch'
        BY <1>1, <1>6, <2>4
      <4> QED
        BY <1>4, <1>9, <2>3, <4>1, <4>2 DEF TypeInv
    <3> QED
      BY <2>1, <2>2, <2>3, <3>1 DEF LatchInv
  <2>5. CASE ~clear_pcie
    <3> SUFFICES ASSUME ~Coming'
                 PROVE  /\ latch' => fresh' > 0
                        /\ kept' > 0 => latch'
                        /\ fresh' < CountMod => kept' <= msg_count' /\ msg_count' <= fresh'
      BY <2>1, <2>2, <2>3, CountModFact DEF LatchInv, CountMod
    <3>1. ~Coming
      BY <1>8, <2>5
    <3>2. /\ latch => fresh > 0
          /\ kept > 0 => latch
          /\ fresh < CountMod => kept <= msg_count /\ msg_count <= fresh
      BY <1>0, <3>1 DEF LatchInv
    <3>3. fresh \in Nat /\ kept \in Nat /\ msg_count \in Values
      BY <1>0 DEF TypeInv
    <3>4. CASE msg
      <4>1. fresh' = fresh + 1 /\ (kept' = kept \/ kept' = kept + 1) /\ latch'
            /\ msg_count' = (msg_count + 1) % CountMod
        BY <1>1, <1>2, <1>6, <2>5, <3>4
      <4>2. fresh' < CountMod => msg_count' = msg_count + 1 /\ kept <= msg_count /\ msg_count <= fresh
        BY <1>3, <3>2, <3>3, <4>1
      <4>3. msg_count \in Nat
        BY <1>3, <3>3
      <4> QED
        BY <3>3, <4>1, <4>2, <4>3
    <3>5. CASE ~msg
      BY <1>1, <1>2, <1>6, <2>5, <3>2, <3>5
    <3> QED
      BY <3>4, <3>5
  <2> QED
    BY <2>4, <2>5
<1>11. \A k \in {3, 4, 5} : pc = "cleared" /\ waited >= k => ~clear_pcie /\ ~Coming
  BY <1>0 DEF TypeInv, ClearInv, Coming
<1>12. \A k \in {3, 4, 5} : After(k)' => After(k) /\ ~clear_pcie /\ ~Coming
  BY <1>0, <1>1, <1>11 DEF After, ClearInv, Coming
<1>13. StageInv'
  <2>0. ~clear_pcie => /\ latch => latch'
                       /\ fresh > 0 => fresh' > 0
                       /\ \A q \in {1, 2, 3} : quiet' >= q => latch' = latch /\ msg_count' = msg_count /\ quiet' = quiet
    <3> SUFFICES ASSUME ~clear_pcie
                 PROVE  /\ latch => latch'
                        /\ fresh > 0 => fresh' > 0
                        /\ \A q \in {1, 2, 3} : quiet' >= q => latch' = latch /\ msg_count' = msg_count /\ quiet' = quiet
      OBVIOUS
    <3>1. latch => latch'
      BY <1>6
    <3>2. fresh > 0 => fresh' > 0
      BY <1>0, <1>2 DEF TypeInv
    <3>3. msg => quiet' = 0
      BY <1>2
    <3>4. ~msg => latch' = latch
      <4>1. latch \in BOOLEAN /\ latch' \in BOOLEAN
        BY <1>0, <1>4, Zenon DEF TypeInv
      <4>2. ~msg => (latch' <=> latch)
        BY <1>6
      <4> QED
        BY <4>1, <4>2
    <3>5. ~msg => msg_count' = msg_count /\ quiet' = quiet
      BY <1>1, <1>2
    <3> QED
      BY <3>1, <3>2, <3>3, <3>4, <3>5
  <2>1. After(3)' => Stage(latch_was, count_was, 1)'
    <3> SUFFICES ASSUME After(3)' PROVE Stage(latch_was, count_was, 1)'
      OBVIOUS
    <3>1. ~clear_pcie /\ ~Coming
      BY <1>12
    <3>2. count_was' # 0 => latch'
      BY <1>0, <1>1, <2>0, <3>1 DEF LatchInv
    <3>3. latch_was' => latch' /\ fresh' > 0
      BY <1>0, <1>1, <2>0, <3>1 DEF LatchInv
    <3>4. quiet' >= 1 => latch_was' = latch' /\ count_was' = msg_count'
      <4>1. quiet' >= 1 => latch' = latch /\ msg_count' = msg_count
        BY <2>0, <3>1
      <4> QED
        BY <1>1, <4>1
    <3> QED
      BY <3>2, <3>3, <3>4 DEF Stage
  <2>2. After(4)' => Stage(seen1, count1, 2)'
    <3> SUFFICES ASSUME After(4)' PROVE Stage(seen1, count1, 2)'
      OBVIOUS
    <3>1. ~clear_pcie /\ Stage(seen1, count1, 2)
      BY <1>0, <1>12 DEF StageInv
    <3>2. quiet' >= 2 => latch' = latch /\ msg_count' = msg_count /\ quiet' = quiet
      BY <2>0, <3>1
    <3>3. seen1' = seen1 /\ count1' = count1
      BY <1>1
    <3>4. quiet' >= 2 => seen1' = latch' /\ count1' = msg_count'
      BY <3>1, <3>2, <3>3 DEF Stage
    <3> QED
      BY <2>0, <3>1, <3>3, <3>4 DEF Stage
  <2>3. After(5)' => Stage(seen, count, 3)'
    <3> SUFFICES ASSUME After(5)' PROVE Stage(seen, count, 3)'
      OBVIOUS
    <3>1. ~clear_pcie /\ Stage(seen, count, 3)
      BY <1>0, <1>12 DEF StageInv
    <3>2. quiet' >= 3 => latch' = latch /\ msg_count' = msg_count /\ quiet' = quiet
      BY <2>0, <3>1
    <3>3. seen' = seen /\ count' = count
      BY <1>1
    <3>4. quiet' >= 3 => seen' = latch' /\ count' = msg_count'
      BY <3>1, <3>2, <3>3 DEF Stage
    <3> QED
      BY <2>0, <3>1, <3>3, <3>4 DEF Stage
  <2> QED
    BY <2>1, <2>2, <2>3 DEF StageInv
<1>14. ReadInv'
  BY <1>0, <1>1, <1>6 DEF ReadInv, ClearInv, LatchInv
<1> QED
  BY <1>4, <1>5, <1>10, <1>13, <1>14 DEF StatusInv

\* What an edge of the sys clock does, whatever the tool does on it.
LEMMA SysFacts ==
    ASSUME SysEdge
    PROVE  /\ edges > 0 /\ edges' = 0
           /\ seen1' \in {latch_was, latch} /\ seen' = seen1
           /\ count1' \in Mixes(count_was, msg_count) /\ count' = count1
           /\ latch_was' = latch /\ count_was' = msg_count
           /\ quiet' = IF quiet = 3 THEN 3 ELSE quiet + 1
           /\ UNCHANGED <<clear1, clear_pcie, latch, msg_count>>
  BY DEF SysEdge, SampleFlag, SampleCount, pcie

LEMMA SysTypes ==
    ASSUME TypeInv, SysEdge
    PROVE  /\ clear1' \in BOOLEAN /\ clear_pcie' \in BOOLEAN
           /\ latch' \in BOOLEAN /\ latch_was' \in BOOLEAN /\ seen1' \in BOOLEAN /\ seen' \in BOOLEAN
           /\ msg_count' \in Values /\ count_was' \in Values /\ count1' \in Values /\ count' \in Values
           /\ edges' \in Nat /\ quiet' \in 0..3
<1>1. clear1' \in BOOLEAN /\ clear_pcie' \in BOOLEAN
      /\ latch' \in BOOLEAN /\ latch_was' \in BOOLEAN /\ seen' \in BOOLEAN
  BY SysFacts, Zenon DEF TypeInv
<1>2. seen1' \in BOOLEAN
  <2>1. CASE seen1' = latch_was
    BY <2>1, Zenon DEF TypeInv
  <2>2. CASE seen1' = latch
    BY <2>2, Zenon DEF TypeInv
  <2> QED
    BY <2>1, <2>2, SysFacts, Zenon
<1>3. count1' \in Values
  BY SysFacts, Zenon DEF Mixes, Values
<1>4. msg_count' \in Values /\ count_was' \in Values /\ count' \in Values
  BY SysFacts, Zenon DEF TypeInv
<1>5. edges' \in Nat /\ quiet' \in 0..3
  BY SysFacts DEF TypeInv
<1> QED
  BY <1>1, <1>2, <1>3, <1>4, <1>5

\* The stages move on.
LEMMA StagesMove ==
    ASSUME TypeInv, LatchInv, SysEdge
    PROVE  /\ ~Coming => /\ msg_count # 0 => latch
                         /\ latch => fresh > 0
           /\ Stage(latch_was, count_was, 1) /\ ~Coming =>
                 /\ count1' # 0 => latch
                 /\ seen1' => latch /\ fresh > 0
                 /\ quiet' >= 2 => seen1' = latch /\ count1' = msg_count
           /\ Stage(seen1, count1, 2) =>
                 /\ count' # 0 => latch
                 /\ seen' => latch /\ fresh > 0
                 /\ quiet' >= 3 => seen' = latch /\ count' = msg_count
<1>1. ~Coming => (msg_count # 0 => latch) /\ (latch => fresh > 0)
  BY DEF LatchInv
<1>2. ASSUME Stage(latch_was, count_was, 1), ~Coming
      PROVE  /\ count1' # 0 => latch
             /\ seen1' => latch /\ fresh > 0
             /\ quiet' >= 2 => seen1' = latch /\ count1' = msg_count
  <2>1. count1' # 0 => latch
    <3>1. CASE count_was = 0 /\ msg_count = 0
      <4>1. count1' \in Mixes(0, 0)
        BY <3>1, SysFacts
      <4>2. count1' = 0
        BY <4>1, CountModFact, MixOfOne
      <4> QED
        BY <4>2
    <3>2. CASE ~(count_was = 0 /\ msg_count = 0)
      BY <1>1, <1>2, <3>2 DEF Stage
    <3> QED
      BY <3>1, <3>2
  <2>2. seen1' => latch /\ fresh > 0
    <3>1. CASE seen1' = latch_was
      BY <1>2, <3>1 DEF Stage
    <3>2. CASE seen1' = latch
      BY <1>1, <1>2, <3>2
    <3> QED
      BY <3>1, <3>2, SysFacts
  <2>3. ASSUME quiet' >= 2 PROVE seen1' = latch /\ count1' = msg_count
    <3>1. quiet >= 1
      BY <2>3, SysFacts DEF TypeInv
    <3>2. latch_was = latch /\ count_was = msg_count
      BY <1>2, <3>1 DEF Stage
    <3>3. count1' \in Mixes(msg_count, msg_count) /\ msg_count \in Values
      BY <3>2, SysFacts DEF TypeInv
    <3>4. count1' = msg_count
      BY <3>3, MixOfOne
    <3>5. seen1' = latch
      BY <3>2, SysFacts
    <3> QED
      BY <3>4, <3>5
  <2> QED
    BY <2>1, <2>2, <2>3
<1>3. ASSUME Stage(seen1, count1, 2)
      PROVE  /\ count' # 0 => latch
             /\ seen' => latch /\ fresh > 0
             /\ quiet' >= 3 => seen' = latch /\ count' = msg_count
  <2>1. seen' = seen1 /\ count' = count1
    BY SysFacts
  <2>2. quiet' >= 3 => quiet >= 2
    BY SysFacts DEF TypeInv
  <2> QED
    BY <1>3, <2>1, <2>2 DEF Stage
<1> QED
  BY <1>1, <1>2, <1>3

\* An edge of the sys clock without a clear.
LEMMA SysKeeps ==
    ASSUME StatusInv, Idle \/ ReadCount \/ ReadSeen
    PROVE  StatusInv'
<1>0. TypeInv /\ ClearInv /\ LatchInv /\ StageInv /\ ReadInv
  BY DEF StatusInv
<1>1. SysEdge /\ re' = FALSE /\ fresh' = fresh /\ kept' = kept
  BY DEF Idle, ReadCount, ReadSeen, Access
<1>2. Gap \in Nat /\ Gap >= 5
  BY StatusAssumption, SlowUart
<1>3. \/ /\ pc' = pc /\ waited' = (IF waited = Gap THEN Gap ELSE waited + 1)
         /\ UNCHANGED <<got_seen, got_count>>
      \/ /\ waited = Gap /\ waited' = 0 /\ pc \in {"idle", "cleared"} /\ pc' = "counted"
         /\ got_count' = count /\ got_seen' = got_seen
      \/ /\ waited = Gap /\ waited' = 0 /\ pc = "counted" /\ pc' = "idle"
         /\ got_seen' = seen /\ got_count' = got_count
  BY DEF Idle, ReadCount, ReadSeen, Access
<1>4. waited' \in 0..Gap /\ pc' \in {"idle", "cleared", "counted"}
  BY <1>0, <1>2, <1>3 DEF TypeInv
<1>5. TypeInv'
  <2>1. fresh' \in Nat /\ kept' \in Nat /\ re' \in BOOLEAN
    BY <1>0, <1>1 DEF TypeInv
  <2>2. /\ clear1' \in BOOLEAN /\ clear_pcie' \in BOOLEAN
        /\ latch' \in BOOLEAN /\ latch_was' \in BOOLEAN /\ seen1' \in BOOLEAN /\ seen' \in BOOLEAN
        /\ msg_count' \in Values /\ count_was' \in Values /\ count1' \in Values /\ count' \in Values
        /\ edges' \in Nat /\ quiet' \in 0..3
    BY <1>0, <1>1, SysTypes
  <2> QED
    BY <1>4, <2>1, <2>2 DEF TypeInv, Values
<1>6. /\ edges > 0 /\ edges' = 0
      /\ UNCHANGED <<clear1, clear_pcie, latch, msg_count>>
      /\ latch_was' = latch /\ count_was' = msg_count
  BY <1>1, SysFacts
<1>7. ClearInv'
  BY <1>0, <1>1, <1>2, <1>3, <1>6 DEF TypeInv, ClearInv
<1>8. Coming => Coming'
  BY <1>0, <1>2, <1>3, <1>6 DEF TypeInv, ClearInv, Coming
<1>9. Clearing' => Clearing
  BY <1>0, <1>2, <1>3 DEF TypeInv, Clearing
<1>10. LatchInv'
  BY <1>0, <1>1, <1>6, <1>8, <1>9 DEF LatchInv, CountMod
<1>11. /\ After(3)' => ~Coming
       /\ After(4)' => After(3) /\ ~Coming
       /\ After(5)' => After(4)
  BY <1>0, <1>2, <1>3, <1>6 DEF TypeInv, ClearInv, Coming, After
<1>12. StageInv'
  <2>1. After(3)' => Stage(latch_was, count_was, 1)'
    BY <1>0, <1>1, <1>6, <1>11, StagesMove DEF Stage
  <2>2. After(4)' => Stage(seen1, count1, 2)'
    BY <1>0, <1>1, <1>6, <1>11, StagesMove DEF Stage, StageInv
  <2>3. After(5)' => Stage(seen, count, 3)'
    BY <1>0, <1>1, <1>6, <1>11, StagesMove DEF Stage, StageInv
  <2> QED
    BY <2>1, <2>2, <2>3 DEF StageInv
<1>13. ReadInv'
  <2>1. CASE pc' = pc /\ waited' = (IF waited = Gap THEN Gap ELSE waited + 1)
             /\ UNCHANGED <<got_seen, got_count>>
    <3>1. waited' >= 2 => waited >= 1
      BY <1>0, <1>2, <2>1 DEF TypeInv
    <3>2. seen1' \in {latch_was, latch} /\ seen' = seen1
      BY <1>1, SysFacts
    <3> QED
      BY <1>0, <1>6, <2>1, <3>1, <3>2 DEF ReadInv
  <2>2. CASE waited = Gap /\ waited' = 0 /\ pc \in {"idle", "cleared"} /\ pc' = "counted"
             /\ got_count' = count /\ got_seen' = got_seen
    <3>1. After(5)
      BY <1>2, <2>2 DEF After
    <3>2. got_count' # 0 => latch
      BY <1>0, <2>2, <3>1 DEF StageInv, Stage
    <3> QED
      BY <1>6, <2>2, <3>2 DEF ReadInv
  <2>3. CASE waited = Gap /\ waited' = 0 /\ pc = "counted" /\ pc' = "idle"
             /\ got_seen' = seen /\ got_count' = got_count
    <3>1. waited >= 2
      BY <1>2, <2>3
    <3> QED
      BY <1>0, <2>3, <3>1 DEF ReadInv
  <2> QED
    BY <1>3, <2>1, <2>2, <2>3
<1> QED
  BY <1>5, <1>7, <1>10, <1>12, <1>13 DEF StatusInv

\* The clear: from here on what was before it may still be met.
LEMMA ClearKeeps ==
    ASSUME StatusInv, Clear
    PROVE  StatusInv'
<1>0. TypeInv /\ ClearInv /\ LatchInv /\ StageInv /\ ReadInv
  BY DEF StatusInv
<1>1. SysEdge /\ re' = TRUE /\ fresh' = 0 /\ kept' = 0 /\ pc = "idle" /\ pc' = "cleared" /\ waited' = 0
      /\ waited = Gap
  BY DEF Clear, Access
<1>2. Gap \in Nat /\ Gap >= 5
  BY StatusAssumption, SlowUart
<1>3. TypeInv'
  <2>1. fresh' \in Nat /\ kept' \in Nat /\ re' \in BOOLEAN /\ waited' \in 0..Gap
        /\ pc' \in {"idle", "cleared", "counted"}
    BY <1>1, <1>2
  <2>2. /\ clear1' \in BOOLEAN /\ clear_pcie' \in BOOLEAN
        /\ latch' \in BOOLEAN /\ latch_was' \in BOOLEAN /\ seen1' \in BOOLEAN /\ seen' \in BOOLEAN
        /\ msg_count' \in Values /\ count_was' \in Values /\ count1' \in Values /\ count' \in Values
        /\ edges' \in Nat /\ quiet' \in 0..3
    BY <1>0, <1>1, SysTypes
  <2> QED
    BY <2>1, <2>2 DEF TypeInv, Values
<1>4. /\ edges' = 0 /\ UNCHANGED <<clear1, clear_pcie, latch, msg_count>>
      /\ latch_was' = latch /\ count_was' = msg_count
  BY <1>1, SysFacts
<1>5. ClearInv'
  BY <1>0, <1>1, <1>4 DEF TypeInv, ClearInv
<1>6. LatchInv'
  BY <1>0, <1>1, <1>4 DEF LatchInv, Coming, CountMod
<1>7. StageInv'
  BY <1>1 DEF StageInv, After
<1>8. ReadInv'
  BY <1>1 DEF ReadInv
<1> QED
  BY <1>3, <1>5, <1>6, <1>7, <1>8 DEF StatusInv

LEMMA IdleKeeps ==
    ASSUME StatusInv, UNCHANGED vars
    PROVE  StatusInv'
<1>1. UNCHANGED <<clear1, clear_pcie, latch, msg_count, latch_was, count_was, edges, re, seen1, seen,
                  count1, count, pc, waited, got_seen, got_count, fresh, kept, quiet>>
  BY DEF vars, pcie, tool
<1> QED
  BY <1>1 DEF StatusInv, TypeInv, ClearInv, LatchInv, StageInv, ReadInv, Stage, After, Coming, Clearing,
              Values, CountMod

LEMMA InductiveStatusInv == Spec => []StatusInv
<1>1. StatusInv /\ [Next]_vars => StatusInv'
  BY PcieKeeps, SysKeeps, ClearKeeps, IdleKeeps DEF Next
<1> QED
  BY InitStatusInv, <1>1, PTL DEF Spec

-----------------------------------------------------------------------------

\* Where the tool has read a count it has read the flag: the report agrees
\* with itself although the two cross on paths of their own.
THEOREM FlagAndCountAgree == Spec => []FlagCountAgree
<1>1. StatusInv => FlagCountAgree
  BY DEF StatusInv, ReadInv, FlagCountAgree
<1> QED
  BY InductiveStatusInv, <1>1, PTL

\* A counter that is read while messages pause is between those that came for
\* certain after the clear and all that came since, however its bits cross.
THEOREM CountIsHonest == Spec => CountHonest
<1>1. StatusInv /\ [Next]_vars =>
         [pc' = "counted" /\ pc # "counted" /\ quiet = 3 /\ fresh < CountMod =>
            kept <= got_count' /\ got_count' <= fresh]_vars
  <2> SUFFICES ASSUME StatusInv, [Next]_vars,
                      pc' = "counted", pc # "counted", quiet = 3, fresh < CountMod
               PROVE  kept <= got_count' /\ got_count' <= fresh
    OBVIOUS
  <2>1. pc' # pc
    OBVIOUS
  <2>2. ReadCount
    BY <2>1 DEF Next, PcieEdge, tool, Idle, Clear, ReadSeen, Access, vars
  <2>3. waited = Gap /\ got_count' = count /\ Gap \in Nat /\ Gap >= 5
    BY <2>2, StatusAssumption, SlowUart DEF ReadCount, Access
  <2>4. After(5) /\ ~Coming
    BY <2>3 DEF After, Coming, StatusInv, ClearInv
  <2>5. count = msg_count
    BY <2>4 DEF StatusInv, StageInv, Stage
  <2>6. kept <= msg_count /\ msg_count <= fresh
    BY <2>4 DEF StatusInv, LatchInv
  <2> QED
    BY <2>3, <2>5, <2>6
<1> QED
  BY InductiveStatusInv, <1>1, PTL DEF Spec, CountHonest

\* A flag that is read as set stands for an event after the clear; one that is
\* read as clear for none, but what came in the last moment or met the clear.
THEOREM SeenIsHonest == Spec => SeenHonest
<1>1. StatusInv /\ [Next]_vars =>
         [pc = "counted" /\ pc' = "idle" =>
            /\ got_seen' => fresh > 0
            /\ kept > 0 /\ quiet = 3 => got_seen']_vars
  <2> SUFFICES ASSUME StatusInv, [Next]_vars, pc = "counted", pc' = "idle"
               PROVE  /\ got_seen' => fresh > 0
                      /\ kept > 0 /\ quiet = 3 => got_seen'
    OBVIOUS
  <2>1. ReadSeen
    BY DEF Next, PcieEdge, tool, Idle, Clear, ReadCount, Access, vars
  <2>2. got_seen' = seen
    BY <2>1 DEF ReadSeen
  <2>3. After(5) /\ ~Coming
    BY DEF After, Coming
  <2>4. Stage(seen, count, 3) /\ (kept > 0 => latch)
    BY <2>3 DEF StatusInv, StageInv, LatchInv
  <2> QED
    BY <2>2, <2>4 DEF Stage
<1> QED
  BY InductiveStatusInv, <1>1, PTL DEF Spec, SeenHonest
=============================================================================
