--------------------------- MODULE Frm1Parser_proofs ---------------------------
(***************************************************************************)
(* What the parser has not parsed yet - its buffer and what is on the wire *)
(* - is a piece of the card's stream, whatever the chunks it arrives in    *)
(* and whatever was dropped in front of it.  The invariants say what that  *)
(* piece looks like behind every header in it; the card only appends to    *)
(* it, the parser only takes words from its front.                         *)
(***************************************************************************)
EXTENDS Frm1Parser, TLAPS, SequenceTheorems, WellFoundedInduction

\* The sizes the core shows are ones that header_ok accepts.
PlausibleSizes == Sizes \subseteq (1..MaxDim) \X (1..MaxDim)

LEMMA LanesNat == Lanes \in Nat /\ Lanes > 1
  BY ParserAssumption

-----------------------------------------------------------------------------
(* Words *)

Word == {Magic, Pad} \cup {Px(n, p) : n \in Nat, p \in Nat \X Nat}
        \cup {Info(w, h, n) : w \in Nat, h \in Nat, n \in Nat}

LEMMA WordKinds ==
    /\ Magic \in Word /\ Pad \in Word /\ Magic # Pad /\ Magic[1] # "info"
    /\ \A x \in Word : x[1] = "info" => x[2] \in Nat /\ x[3] \in Nat /\ x[4] \in Nat
<1>1. Magic \in Word /\ Pad \in Word
  BY DEF Word
<1>2. Magic # Pad /\ Magic[1] # "info" /\ Pad[1] # "info"
  BY DEF Magic, Pad
<1>3. ASSUME NEW x \in Word, x[1] = "info" PROVE x[2] \in Nat /\ x[3] \in Nat /\ x[4] \in Nat
  <2>1. x # Magic /\ x # Pad
    BY <1>2, <1>3
  <2>2. CASE \E n \in Nat, p \in Nat \X Nat : x = Px(n, p)
    BY <1>3, <2>2 DEF Px
  <2>3. CASE \E w \in Nat, h \in Nat, n \in Nat : x = Info(w, h, n)
    BY <2>3 DEF Info
  <2> QED
    BY <2>1, <2>2, <2>3 DEF Word
<1> QED
  BY <1>1, <1>2, <1>3

LEMMA PxWord ==
    ASSUME NEW n \in Nat, NEW p \in Nat \X Nat
    PROVE  /\ Px(n, p) \in Word /\ Px(n, p) # Pad /\ Px(n, p) # Magic
           /\ Px(n, p)[1] = "px" /\ Px(n, p)[2] = n /\ Px(n, p)[3] = p
<1>1. Px(n, p) \in Word
  BY DEF Word
<1>2. Px(n, p)[1] = "px" /\ Px(n, p)[2] = n /\ Px(n, p)[3] = p
  BY DEF Px
<1>3. Pad[1] # "px" /\ Magic[1] # "px"
  BY DEF Magic, Pad
<1> QED
  BY <1>1, <1>2, <1>3

LEMMA InfoWord ==
    ASSUME NEW w \in Nat, NEW h \in Nat, NEW n \in Nat
    PROVE  /\ Info(w, h, n) \in Word /\ Info(w, h, n) # Magic
           /\ Info(w, h, n)[1] = "info" /\ Info(w, h, n)[2] = w /\ Info(w, h, n)[3] = h /\ Info(w, h, n)[4] = n
<1>1. Info(w, h, n) \in Word
  BY DEF Word
<1>2. /\ Info(w, h, n)[1] = "info" /\ Info(w, h, n)[2] = w /\ Info(w, h, n)[3] = h /\ Info(w, h, n)[4] = n
  BY DEF Info
<1>3. Magic[1] # "info"
  BY WordKinds
<1> QED
  BY <1>1, <1>2, <1>3

-----------------------------------------------------------------------------
(* Headers in a sequence of words *)

HeaderAt(s, i) == i \in 1..Len(s) - 1 /\ s[i] = Magic /\ s[i + 1][1] = "info" /\ header_ok(s[i + 1])
NumberAt(s, i) == s[i + 1][4]
NoMagic(s, a, b) == \A k \in a..b : s[k] # Magic

\* What stands at j in the frame whose header is at i: its own pixels, from the
\* first one on and without a gap, then padding.
Segment(s, i, j) ==
    j >= i + Lanes /\ s[j] # Pad =>
       /\ s[j][1] = "px" /\ s[j][2] = NumberAt(s, i)
       /\ IF j = i + Lanes THEN s[j][3] = <<0, 0>>
          ELSE s[j - 1] # Pad /\ Stream!Follows(s[j - 1][3], s[j][3])

\* Behind a header: whole beats; no magic but those of later frames' headers;
\* up to the next one, the pixels of the frame.
Framed(s) ==
    \A i \in 1..Len(s) : HeaderAt(s, i) =>
       /\ \E m \in Nat : Len(s) = (i - 1) + Lanes * m
       /\ \A j \in i + 1..Len(s) : s[j] = Magic => HeaderAt(s, j) /\ NumberAt(s, i) < NumberAt(s, j)
       /\ \A j \in i + 1..Len(s) : NoMagic(s, i + 1, j) => Segment(s, i, j)

\* The words that are left when d are dropped.
Behind(s, d) == SubSeq(s, d + 1, Len(s))

LEMMA BehindAt ==
    ASSUME NEW s \in Seq(Word), NEW d \in 0..Len(s)
    PROVE  /\ Behind(s, d) \in Seq(Word) /\ Len(Behind(s, d)) = Len(s) - d
           /\ \A i \in 1..Len(s) - d : Behind(s, d)[i] = s[i + d]
<1>1. Len(s) \in Nat
  BY LenProperties
<1> DEFINE t == SubSeq(s, d + 1, Len(s))
<1>2. t \in Seq(Word) /\ Len(t) = IF d + 1 <= Len(s) THEN Len(s) - (d + 1) + 1 ELSE 0
  <2>1. \A i \in d + 1..Len(s) : s[i] \in Word
    BY <1>1, ElementOfSeq
  <2> QED
    BY <1>1, <2>1, SubSeqProperties
<1>3. ASSUME NEW i \in 1..Len(s) - d PROVE t[i] = s[i + d]
  <2>1. t[i] = s[d + 1 + i - 1]
    BY <1>1, SubSeqProperties
  <2> QED
    BY <1>1, <2>1
<1> QED
  BY <1>1, <1>2, <1>3 DEF Behind

\* The headers of what is left are those that stood behind.
LEMMA HeaderBehind ==
    ASSUME NEW s \in Seq(Word), NEW d \in 0..Len(s), NEW i \in 1..Len(s) - d
    PROVE  /\ HeaderAt(Behind(s, d), i) <=> HeaderAt(s, i + d)
           /\ HeaderAt(s, i + d) => NumberAt(Behind(s, d), i) = NumberAt(s, i + d)
                                    /\ Behind(s, d)[i + 1] = s[i + d + 1]
<1> DEFINE t == Behind(s, d)
<1>0. Len(s) \in Nat /\ d \in Nat
  BY LenProperties
<1>01. Len(t) = Len(s) - d /\ \A k \in 1..Len(s) - d : t[k] = s[k + d]
  BY BehindAt
<1>1. Len(s) \in Nat /\ d \in Nat /\ Len(t) = Len(s) - d /\ t[i] = s[i + d]
  BY <1>0, <1>01
<1>2. i + 1 <= Len(s) - d => t[i + 1] = s[i + d + 1]
  <2> SUFFICES ASSUME i + 1 <= Len(s) - d PROVE t[i + 1] = s[i + d + 1]
    OBVIOUS
  <2>1. t[i + 1] = s[(i + 1) + d]
    BY <1>1, <1>01
  <2> QED
    BY <1>1, <2>1
<1> HIDE DEF t
<1>3. (i \in 1..Len(t) - 1 <=> i + d \in 1..Len(s) - 1) /\ (i + d \in 1..Len(s) - 1 => i + 1 <= Len(s) - d)
  BY <1>1
<1>4. HeaderAt(t, i) <=> HeaderAt(s, i + d)
  BY <1>1, <1>2, <1>3 DEF HeaderAt
<1>5. HeaderAt(s, i + d) => NumberAt(t, i) = NumberAt(s, i + d) /\ t[i + 1] = s[i + d + 1]
  BY <1>2, <1>3 DEF HeaderAt, NumberAt
<1> QED
  BY <1>4, <1>5 DEF t

\* Dropping words from the front disturbs nothing behind.
LEMMA FramedBehind ==
    ASSUME NEW s \in Seq(Word), NEW d \in 0..Len(s), Framed(s)
    PROVE  Framed(Behind(s, d))
<1> DEFINE t == Behind(s, d)
<1>0. Len(s) \in Nat /\ d \in Nat
  BY LenProperties
<1>1. Len(t) = Len(s) - d /\ \A i \in 1..Len(s) - d : t[i] = s[i + d]
  BY BehindAt
<1> SUFFICES ASSUME NEW i \in 1..Len(t), HeaderAt(t, i)
             PROVE  /\ \E m \in Nat : Len(t) = (i - 1) + Lanes * m
                    /\ \A j \in i + 1..Len(t) : t[j] = Magic => HeaderAt(t, j) /\ NumberAt(t, i) < NumberAt(t, j)
                    /\ \A j \in i + 1..Len(t) : NoMagic(t, i + 1, j) => Segment(t, i, j)
  BY DEF Framed
<1>2. i \in 1..Len(s) - d /\ i + d \in 1..Len(s)
  BY <1>0, <1>1
<1>3. HeaderAt(s, i + d) /\ NumberAt(t, i) = NumberAt(s, i + d)
  BY <1>2, HeaderBehind
<1>4. \E m \in Nat : Len(t) = (i - 1) + Lanes * m
  <2>1. PICK m \in Nat : Len(s) = (i + d - 1) + Lanes * m
    BY <1>2, <1>3 DEF Framed
  <2>2. Lanes * m \in Nat
    BY LanesNat
  <2>3. Len(t) = (i - 1) + Lanes * m
    BY <1>0, <1>1, <2>1, <2>2
  <2> QED
    BY <2>3
<1>5. ASSUME NEW j \in i + 1..Len(t), t[j] = Magic
      PROVE  HeaderAt(t, j) /\ NumberAt(t, i) < NumberAt(t, j)
  <2>1. j + d \in (i + d) + 1..Len(s) /\ j \in 1..Len(s) - d /\ s[j + d] = Magic
    BY <1>0, <1>1, <1>5
  <2>2. HeaderAt(s, j + d) /\ NumberAt(s, i + d) < NumberAt(s, j + d)
    BY <1>2, <1>3, <2>1 DEF Framed
  <2> QED
    BY <1>3, <2>1, <2>2, HeaderBehind
<1>6. ASSUME NEW j \in i + 1..Len(t), NoMagic(t, i + 1, j) PROVE Segment(t, i, j)
  <2>1. /\ j + d \in (i + d) + 1..Len(s) /\ j \in 1..Len(s) - d /\ j - 1 \in 1..Len(s) - d
        /\ (j - 1) + d = j + d - 1
    BY <1>0, <1>1
  <2>2. NoMagic(s, (i + d) + 1, j + d)
    <3> SUFFICES ASSUME NEW k \in (i + d) + 1..j + d PROVE s[k] # Magic
      BY DEF NoMagic
    <3>1. k - d \in i + 1..j /\ k - d \in 1..Len(s) - d /\ (k - d) + d = k
      BY <1>0, <1>1
    <3> QED
      BY <1>0, <1>1, <1>6, <3>1 DEF NoMagic
  <2>3. Segment(s, i + d, j + d)
    BY <1>2, <1>3, <2>1, <2>2 DEF Framed
  <2>4. t[j] = s[j + d] /\ t[j - 1] = s[j + d - 1]
    BY <1>0, <1>1, <2>1
  <2>5. (j >= i + Lanes <=> j + d >= (i + d) + Lanes) /\ (j = i + Lanes <=> j + d = (i + d) + Lanes)
    BY <1>0, LanesNat
  <2> QED
    BY <1>3, <2>3, <2>4, <2>5 DEF Segment
<1> QED
  BY <1>4, <1>5, <1>6

-----------------------------------------------------------------------------
(* A beat is appended *)

\* The words of a header and of a beat of pixels.
HeaderBeat(ws, w, h, n) ==
    /\ ws \in Seq(Word) /\ Len(ws) = Lanes
    /\ ws[1] = Magic /\ ws[2] = Info(w, h, n) /\ \A j \in 2..Lanes : ws[j] # Magic
PixelBeat(ws, n, ps) ==
    /\ ws \in Seq(Word) /\ Len(ws) = Lanes /\ Len(ps) \in 1..Lanes
    /\ \A j \in 1..Lanes : ws[j] # Magic
    /\ \A j \in 1..Len(ps) : ws[j] # Pad /\ ws[j][1] = "px" /\ ws[j][2] = n /\ ws[j][3] = ps[j]
    /\ \A j \in Len(ps) + 1..Lanes : ws[j] = Pad

LEMMA AppendedAt ==
    ASSUME NEW s \in Seq(Word), NEW ws \in Seq(Word), Len(ws) = Lanes
    PROVE  /\ s \o ws \in Seq(Word) /\ Len(s \o ws) = Len(s) + Lanes
           /\ \A i \in 1..Len(s) : (s \o ws)[i] = s[i]
           /\ \A j \in 1..Lanes : (s \o ws)[Len(s) + j] = ws[j]
<1>1. Len(s) \in Nat /\ Lanes \in Nat
  BY LenProperties, LanesNat
<1>2. s \o ws \in Seq(Word) /\ Len(s \o ws) = Len(s) + Lanes
  BY ConcatProperties
<1>3. \A i \in 1..Len(s) + Len(ws) : (s \o ws)[i] = IF i <= Len(s) THEN s[i] ELSE ws[i - Len(s)]
  BY ConcatProperties
<1>4. ASSUME NEW j \in 1..Lanes PROVE (s \o ws)[Len(s) + j] = ws[j]
  <2>1. Len(s) + j \in 1..Len(s) + Len(ws) /\ ~(Len(s) + j <= Len(s)) /\ (Len(s) + j) - Len(s) = j
    BY <1>1
  <2> QED
    BY <1>3, <2>1
<1> QED
  BY <1>1, <1>2, <1>3, <1>4

\* No header spans the seam.
LEMMA HeaderBefore ==
    ASSUME NEW s \in Seq(Word), NEW ws \in Seq(Word), Len(ws) = Lanes, ws[1][1] # "info", NEW i \in 1..Len(s)
    PROVE  /\ HeaderAt(s \o ws, i) <=> HeaderAt(s, i)
           /\ HeaderAt(s, i) => NumberAt(s \o ws, i) = NumberAt(s, i) /\ (s \o ws)[i + 1] = s[i + 1]
<1> DEFINE u == s \o ws
<1>1. Len(s) \in Nat
  BY LenProperties
<1>2. /\ Len(u) = Len(s) + Lanes /\ u[i] = s[i]
      /\ \A k \in 1..Len(s) : u[k] = s[k]
      /\ \A j \in 1..Lanes : u[Len(s) + j] = ws[j]
  BY AppendedAt
<1> HIDE DEF u
<1>3. CASE i <= Len(s) - 1
  <2>1. u[i + 1] = s[i + 1] /\ i \in 1..Len(s) - 1 /\ i \in 1..Len(u) - 1
    BY <1>1, <1>2, <1>3, LanesNat
  <2> QED
    BY <1>2, <2>1 DEF HeaderAt, NumberAt, u
<1>4. CASE i = Len(s)
  <2>1. u[i + 1] = ws[1] /\ i \notin 1..Len(s) - 1
    BY <1>1, <1>2, <1>4, LanesNat
  <2> QED
    BY <2>1 DEF HeaderAt, u
<1>5. i <= Len(s) - 1 \/ i = Len(s)
  BY <1>1
<1> QED
  BY <1>3, <1>4, <1>5

\* Where the new words are the same as the old ones, so is the frame.
LEMMA SegmentBefore ==
    ASSUME NEW s \in Seq(Word), NEW ws \in Seq(Word), Len(ws) = Lanes, ws[1][1] # "info",
           NEW i \in 1..Len(s), HeaderAt(s, i), NEW j \in i + 1..Len(s),
           NoMagic(s \o ws, i + 1, j),
           NoMagic(s, i + 1, j) => Segment(s, i, j)
    PROVE  Segment(s \o ws, i, j)
<1> DEFINE u == s \o ws
<1>1. Len(s) \in Nat
  BY LenProperties
<1>2. \A k \in 1..Len(s) : u[k] = s[k]
  BY AppendedAt
<1>3. NumberAt(u, i) = NumberAt(s, i)
  BY HeaderBefore
<1> HIDE DEF u
<1>4. NoMagic(s, i + 1, j)
  <2> SUFFICES ASSUME NEW k \in i + 1..j PROVE s[k] # Magic
    BY DEF NoMagic
  <2>1. k \in 1..Len(s)
    BY <1>1
  <2> QED
    BY <1>2, <2>1 DEF NoMagic, u
<1>5. j \in 1..Len(s) /\ j - 1 \in 1..Len(s)
  BY <1>1
<1>6. u[j] = s[j] /\ u[j - 1] = s[j - 1]
  BY <1>2, <1>5
<1> QED
  BY <1>3, <1>4, <1>6 DEF Segment, u

\* All frames in s are older than n.
AllBefore(s, n) == \A i \in 1..Len(s) : HeaderAt(s, i) => NumberAt(s, i) < n

LEMMA FramedHeader ==
    ASSUME NEW s \in Seq(Word), NEW ws, NEW w, NEW h, NEW n,
           Framed(s), HeaderBeat(ws, w, h, n), header_ok(Info(w, h, n)), AllBefore(s, n)
    PROVE  Framed(s \o ws) /\ HeaderAt(s \o ws, Len(s) + 1)
<1> DEFINE u == s \o ws
           N == Len(s)
<1>1. N \in Nat /\ Lanes \in Nat /\ Lanes > 1
  BY LenProperties, LanesNat
<1>2. ws \in Seq(Word) /\ Len(ws) = Lanes /\ ws[1] = Magic /\ ws[2] = Info(w, h, n) /\ \A j \in 2..Lanes : ws[j] # Magic
  BY DEF HeaderBeat
<1>3. ws[1][1] # "info"
  BY <1>2, WordKinds
<1>4. /\ Len(u) = N + Lanes
      /\ \A k \in 1..N : u[k] = s[k]
      /\ \A j \in 1..Lanes : u[N + j] = ws[j]
  BY <1>2, AppendedAt
<1>5. ASSUME NEW i \in 1..N
      PROVE  (HeaderAt(u, i) <=> HeaderAt(s, i)) /\ (HeaderAt(s, i) => NumberAt(u, i) = NumberAt(s, i))
  BY <1>2, <1>3, HeaderBefore
<1>6. u[N + 1] = Magic /\ u[N + 2] = Info(w, h, n)
  BY <1>1, <1>2, <1>4
<1>7. ASSUME NEW k \in N + 2..N + Lanes PROVE u[k] # Magic
  <2>1. k - N \in 2..Lanes /\ k - N \in 1..Lanes /\ N + (k - N) = k
    BY <1>1
  <2> QED
    BY <1>2, <1>4, <2>1
<1>8. ASSUME NEW i \in 1..N, HeaderAt(s, i), NEW j \in i + 1..N, NoMagic(u, i + 1, j)
      PROVE  Segment(u, i, j)
  <2>1. NoMagic(s, i + 1, j) => Segment(s, i, j)
    BY <1>8 DEF Framed
  <2> QED
    BY <1>2, <1>3, <1>8, <2>1, SegmentBefore
<1> HIDE DEF u, N
<1>9. HeaderAt(u, N + 1) /\ NumberAt(u, N + 1) = n
  <2>1. N + 1 \in 1..Len(u) - 1 /\ (N + 1) + 1 = N + 2
    BY <1>1, <1>4
  <2>2. Info(w, h, n)[1] = "info" /\ Info(w, h, n)[4] = n
    BY DEF Info
  <2>3. u[(N + 1) + 1] = Info(w, h, n)
    BY <1>6, <2>1
  <2> QED
    BY <1>6, <2>1, <2>2, <2>3 DEF HeaderAt, NumberAt
<1>10. ASSUME NEW i \in 1..Len(u), HeaderAt(u, i)
       PROVE  /\ \E m \in Nat : Len(u) = (i - 1) + Lanes * m
              /\ \A j \in i + 1..Len(u) : u[j] = Magic => HeaderAt(u, j) /\ NumberAt(u, i) < NumberAt(u, j)
              /\ \A j \in i + 1..Len(u) : NoMagic(u, i + 1, j) => Segment(u, i, j)
  <2>1. CASE i \in 1..N
    <3>1. HeaderAt(s, i) /\ NumberAt(u, i) = NumberAt(s, i)
      BY <1>5, <1>10, <2>1
    <3>2. \E m \in Nat : Len(u) = (i - 1) + Lanes * m
      <4>1. PICK m \in Nat : N = (i - 1) + Lanes * m
        BY <2>1, <3>1 DEF Framed, N
      <4>2. Len(u) = (i - 1) + Lanes * (m + 1) /\ m + 1 \in Nat
        BY <1>1, <1>4, <4>1
      <4> QED
        BY <4>2
    <3>3. ASSUME NEW j \in i + 1..Len(u), u[j] = Magic PROVE HeaderAt(u, j) /\ NumberAt(u, i) < NumberAt(u, j)
      <4>1. CASE j \in i + 1..N
        <5>1. j \in 1..N /\ s[j] = Magic
          BY <1>1, <1>4, <3>3, <4>1
        <5>2. HeaderAt(s, j) /\ NumberAt(s, i) < NumberAt(s, j)
          BY <2>1, <3>1, <4>1, <5>1 DEF Framed, N
        <5> QED
          BY <1>5, <3>1, <5>1, <5>2
      <4>2. CASE j = N + 1
        <5>1. NumberAt(s, i) < n
          BY <2>1, <3>1 DEF N, AllBefore
        <5> QED
          BY <1>9, <3>1, <4>2, <5>1
      <4> QED
        BY <1>1, <1>4, <1>7, <3>3, <4>1, <4>2
    <3>4. ASSUME NEW j \in i + 1..Len(u), NoMagic(u, i + 1, j) PROVE Segment(u, i, j)
      <4>1. j \in i + 1..N
        <5> SUFFICES ASSUME j > N PROVE FALSE
          BY <1>1, <1>4
        <5>1. N + 1 \in i + 1..j
          BY <1>1, <1>4, <2>1
        <5> QED
          BY <1>6, <3>4, <5>1 DEF NoMagic
      <4> QED
        BY <1>8, <2>1, <3>1, <3>4, <4>1
    <3> QED
      BY <3>2, <3>3, <3>4
  <2>2. CASE i = N + 1
    <3>1. Len(u) = (i - 1) + Lanes * 1
      BY <1>1, <1>4, <2>2
    <3>2. \A j \in i + 1..Len(u) : u[j] # Magic /\ ~(j >= i + Lanes)
      BY <1>1, <1>4, <1>7, <2>2
    <3> QED
      BY <3>1, <3>2 DEF Segment
  <2>3. i \notin N + 2..N + Lanes
    BY <1>7, <1>10 DEF HeaderAt
  <2> QED
    BY <1>1, <1>4, <2>1, <2>2, <2>3
<1>11. Framed(u)
  BY <1>10 DEF Framed
<1> QED
  BY <1>9, <1>11 DEF u, N

\* The frame that is not closed by another header goes on with this pixel of n.
GoesOn(s, n, first) ==
    \A i \in 1..Len(s) : HeaderAt(s, i) /\ NoMagic(s, i + 1, Len(s)) =>
       /\ NumberAt(s, i) = n
       /\ \/ Len(s) = i + Lanes - 1 /\ first = <<0, 0>>
          \/ Len(s) >= i + Lanes /\ s[Len(s)] # Pad /\ Stream!Follows(s[Len(s)][3], first)

LEMMA PixelsAppended ==
    ASSUME NEW s \in Seq(Word), NEW ws, NEW n, NEW ps, PixelBeat(ws, n, ps)
    PROVE  /\ Len(s \o ws) = Len(s) + Lanes /\ s \o ws \in Seq(Word)
           /\ \A k \in 1..Len(s) : (s \o ws)[k] = s[k]
           /\ \A k \in Len(s) + 1..Len(s) + Lanes : (s \o ws)[k] # Magic /\ ~HeaderAt(s \o ws, k)
           /\ \A i \in 1..Len(s) : (HeaderAt(s \o ws, i) <=> HeaderAt(s, i))
                                   /\ (HeaderAt(s, i) => NumberAt(s \o ws, i) = NumberAt(s, i)
                                                         /\ (s \o ws)[i + 1] = s[i + 1])
<1>1. /\ ws \in Seq(Word) /\ Len(ws) = Lanes /\ Len(ps) \in 1..Lanes /\ \A j \in 1..Lanes : ws[j] # Magic
      /\ \A j \in 1..Len(ps) : ws[j][1] = "px"
  BY DEF PixelBeat
<1>2. ws[1][1] = "px"
  BY <1>1
<1>3. Len(s) \in Nat /\ Lanes \in Nat
  BY LenProperties, LanesNat
<1>4. /\ Len(s \o ws) = Len(s) + Lanes /\ s \o ws \in Seq(Word)
      /\ \A k \in 1..Len(s) : (s \o ws)[k] = s[k]
      /\ \A j \in 1..Lanes : (s \o ws)[Len(s) + j] = ws[j]
  BY <1>1, AppendedAt
<1>5. ASSUME NEW k \in Len(s) + 1..Len(s) + Lanes PROVE (s \o ws)[k] # Magic
  <2>1. k - Len(s) \in 1..Lanes /\ Len(s) + (k - Len(s)) = k
    BY <1>3
  <2> QED
    BY <1>1, <1>4, <2>1
<1>6. ASSUME NEW i \in 1..Len(s)
      PROVE  (HeaderAt(s \o ws, i) <=> HeaderAt(s, i))
             /\ (HeaderAt(s, i) => NumberAt(s \o ws, i) = NumberAt(s, i) /\ (s \o ws)[i + 1] = s[i + 1])
  BY <1>1, <1>2, HeaderBefore
<1> QED
  BY <1>4, <1>5, <1>6 DEF HeaderAt

LEMMA FramedPixels ==
    ASSUME NEW s \in Seq(Word), NEW ws, NEW n, NEW ps, Framed(s), PixelBeat(ws, n, ps), GoesOn(s, n, ps[1]),
           \A q \in 1..Len(ps) - 1 : Stream!Follows(ps[q], ps[q + 1])
    PROVE  Framed(s \o ws)
<1> DEFINE u == s \o ws
           N == Len(s)
<1>1. N \in Nat /\ Lanes \in Nat /\ Lanes > 1
  BY LenProperties, LanesNat
<1>2. /\ ws \in Seq(Word) /\ Len(ws) = Lanes /\ Len(ps) \in 1..Lanes
      /\ \A j \in 1..Len(ps) : ws[j] # Pad /\ ws[j][1] = "px" /\ ws[j][2] = n /\ ws[j][3] = ps[j]
      /\ \A j \in Len(ps) + 1..Lanes : ws[j] = Pad
  BY DEF PixelBeat
<1>3. ws[1][1] # "info"
  BY <1>2
<1>4. /\ Len(u) = N + Lanes
      /\ \A k \in 1..N : u[k] = s[k]
      /\ \A k \in N + 1..N + Lanes : u[k] # Magic /\ ~HeaderAt(u, k)
      /\ \A i \in 1..N : (HeaderAt(u, i) <=> HeaderAt(s, i)) /\ (HeaderAt(s, i) => NumberAt(u, i) = NumberAt(s, i))
  BY PixelsAppended
<1>5. \A q \in 1..Lanes : u[N + q] = ws[q]
  BY <1>2, AppendedAt
<1>6. ASSUME NEW i \in 1..N, HeaderAt(s, i), NEW j \in i + 1..N, NoMagic(u, i + 1, j)
      PROVE  Segment(u, i, j)
  <2>1. NoMagic(s, i + 1, j) => Segment(s, i, j)
    BY <1>6 DEF Framed
  <2> QED
    BY <1>2, <1>3, <1>6, <2>1, SegmentBefore
<1> HIDE DEF u, N
<1>7. ASSUME NEW i \in 1..N, HeaderAt(s, i), NEW q \in 1..Lanes, NoMagic(u, i + 1, N + q)
      PROVE  Segment(u, i, N + q)
  <2>1. NoMagic(s, i + 1, N)
    <3> SUFFICES ASSUME NEW k \in i + 1..N PROVE s[k] # Magic
      BY DEF NoMagic
    <3>1. k \in i + 1..N + q /\ k \in 1..N
      BY <1>1
    <3> QED
      BY <1>4, <1>7, <3>1 DEF NoMagic
  <2>2. /\ NumberAt(s, i) = n
        /\ \/ N = i + Lanes - 1 /\ ps[1] = <<0, 0>>
           \/ N >= i + Lanes /\ s[N] # Pad /\ Stream!Follows(s[N][3], ps[1])
    BY <1>7, <2>1 DEF GoesOn, N
  <2> SUFFICES ASSUME N + q >= i + Lanes, u[N + q] # Pad
               PROVE  /\ u[N + q][1] = "px" /\ u[N + q][2] = NumberAt(u, i)
                      /\ IF N + q = i + Lanes THEN u[N + q][3] = <<0, 0>>
                         ELSE u[(N + q) - 1] # Pad /\ Stream!Follows(u[(N + q) - 1][3], u[N + q][3])
    BY DEF Segment
  <2>3. q \in 1..Len(ps) /\ u[N + q] = ws[q] /\ NumberAt(u, i) = n
    BY <1>1, <1>2, <1>4, <1>5, <1>7, <2>2
  <2>4. u[N + q][1] = "px" /\ u[N + q][2] = n /\ u[N + q][3] = ps[q]
    BY <1>2, <2>3
  <2>5. CASE q = 1
    <3>1. N + q = i + Lanes <=> N = i + Lanes - 1
      BY <1>1, <2>5
    <3>2. N + q - 1 = N /\ u[N] = s[N]
      BY <1>1, <1>4, <2>5
    <3> QED
      BY <1>1, <2>2, <2>3, <2>4, <2>5, <3>1, <3>2
  <2>6. CASE q > 1
    <3>1. N + q # i + Lanes
      BY <1>1, <2>2, <2>6
    <3>2. q - 1 \in 1..Len(ps) - 1 /\ q - 1 \in 1..Lanes /\ (N + q) - 1 = N + (q - 1) /\ (q - 1) + 1 = q
      BY <1>1, <1>2, <2>3, <2>6
    <3>3. u[(N + q) - 1] = ws[q - 1]
      BY <1>5, <3>2
    <3>4. ws[q - 1] # Pad /\ ws[q - 1][3] = ps[q - 1]
      <4>1. q - 1 \in 1..Len(ps)
        BY <1>1, <1>2, <3>2
      <4> QED
        BY <1>2, <4>1
    <3>5. Stream!Follows(ps[q - 1], ps[q])
      BY <3>2
    <3>6. u[(N + q) - 1] # Pad
      BY <3>3, <3>4
    <3>7. u[(N + q) - 1][3] = ps[q - 1]
      BY <3>3, <3>4
    <3>8. Stream!Follows(u[(N + q) - 1][3], u[N + q][3])
      BY <2>4, <3>5, <3>7
    <3> QED
      BY <2>3, <2>4, <3>1, <3>6, <3>8
  <2> QED
    BY <2>5, <2>6
<1>8. ASSUME NEW i \in 1..Len(u), HeaderAt(u, i)
       PROVE  /\ \E m \in Nat : Len(u) = (i - 1) + Lanes * m
              /\ \A j \in i + 1..Len(u) : u[j] = Magic => HeaderAt(u, j) /\ NumberAt(u, i) < NumberAt(u, j)
              /\ \A j \in i + 1..Len(u) : NoMagic(u, i + 1, j) => Segment(u, i, j)
  <2>1. i \in 1..N
    BY <1>1, <1>4, <1>8
  <2>2. HeaderAt(s, i) /\ NumberAt(u, i) = NumberAt(s, i)
    BY <1>4, <1>8, <2>1
  <2>3. \E m \in Nat : Len(u) = (i - 1) + Lanes * m
    <3>1. PICK m \in Nat : N = (i - 1) + Lanes * m
      BY <2>1, <2>2 DEF Framed, N
    <3>2. Len(u) = (i - 1) + Lanes * (m + 1) /\ m + 1 \in Nat
      BY <1>1, <1>4, <3>1
    <3> QED
      BY <3>2
  <2>4. ASSUME NEW j \in i + 1..Len(u), u[j] = Magic PROVE HeaderAt(u, j) /\ NumberAt(u, i) < NumberAt(u, j)
    <3>1. j \in i + 1..N /\ j \in 1..N
      BY <1>1, <1>4, <2>1, <2>4
    <3>2. s[j] = Magic
      BY <1>4, <2>4, <3>1
    <3>3. HeaderAt(s, j) /\ NumberAt(s, i) < NumberAt(s, j)
      BY <2>1, <2>2, <3>1, <3>2 DEF Framed, N
    <3> QED
      BY <1>4, <2>2, <3>1, <3>3
  <2>5. ASSUME NEW j \in i + 1..Len(u), NoMagic(u, i + 1, j) PROVE Segment(u, i, j)
    <3>1. CASE j <= N
      <4>1. j \in i + 1..N
        BY <1>1, <1>4, <3>1
      <4> QED
        BY <1>6, <2>1, <2>2, <2>5, <4>1
    <3>2. CASE j > N
      <4>1. j - N \in 1..Lanes /\ N + (j - N) = j
        BY <1>1, <1>4, <3>2
      <4> QED
        BY <1>7, <2>1, <2>2, <2>5, <4>1
    <3>3. j <= N \/ j > N
      BY <1>1, <1>4
    <3> QED
      BY <3>1, <3>2, <3>3
  <2> QED
    BY <2>3, <2>4, <2>5
<1> QED
  BY <1>8 DEF Framed, u

-----------------------------------------------------------------------------
(* What the card remembers of the frame it is sending *)

\* No frame in s is newer than the one beat b belongs to; the one that is not
\* closed by another header is that one, and ends with b.
LastIs(s, b) ==
    \A i \in 1..Len(s) : HeaderAt(s, i) =>
       /\ b # Stream!NoBeat /\ NumberAt(s, i) <= Stream!FrameOf(b)
       /\ NoMagic(s, i + 1, Len(s)) =>
             /\ NumberAt(s, i) = Stream!FrameOf(b)
             /\ Stream!IsHeader(b) => Len(s) = i + Lanes - 1
             /\ Stream!IsPixels(b) /\ Len(b[3]) = Lanes =>
                   Len(s) >= i + Lanes /\ s[Len(s)] # Pad /\ s[Len(s)][3] = Stream!FinalPixel(b)

\* The history of the card: the size is the one the header claims, and the
\* pixels in place are those of the beats sent, up to that size.
FilledIs(s, f) ==
    \A i \in 1..Len(s) : HeaderAt(s, i) /\ NoMagic(s, i + 1, Len(s)) /\ f[2][1] > 0 =>
       /\ f[2][1] = s[i + 1][2] /\ f[2][2] = s[i + 1][3]
       /\ \E k \in Nat : /\ Len(s) = (i - 1) + Lanes * (k + 1)
                         /\ f[3] = IF Lanes * k < f[2][1] * f[2][2] THEN Lanes * k ELSE f[2][1] * f[2][2]

\* The last word of the frame that the header at i announces
EndAt(s, i) == (i - 1) + Need(s[i + 1][2], s[i + 1][3])

\* All words of a complete frame are there, and no header among them.
CompleteIs(s, C) ==
    \A i \in 1..Len(s) : HeaderAt(s, i) /\ NumberAt(s, i) \in C =>
       Len(s) >= EndAt(s, i) /\ NoMagic(s, i + 1, EndAt(s, i))

LEMMA HeaderBeats ==
    ASSUME NEW w \in Nat, NEW h \in Nat, NEW n \in Nat, NEW b, b = Stream!Header(w, h, n)
    PROVE  /\ Stream!IsHeader(b) /\ ~Stream!IsPixels(b) /\ b # Stream!NoBeat /\ Stream!FrameOf(b) = n
           /\ b[2] = w /\ b[3] = h /\ b[4] = n
           /\ HeaderBeat(Words(b), w, h, n)
<1>1. b[1] = "header" /\ b[2] = w /\ b[3] = h /\ b[4] = n
  BY DEF Stream!Header
<1>2. Stream!IsHeader(b) /\ ~Stream!IsPixels(b) /\ b # Stream!NoBeat /\ Stream!FrameOf(b) = n
  BY <1>1 DEF Stream!IsHeader, Stream!IsPixels, Stream!NoBeat, Stream!FrameOf
<1> DEFINE I == Info(w, h, n)
           front == <<Magic, I>>
           back == [i \in 1..Lanes - 2 |-> Pad]
<1>3. Words(b) = front \o back
  BY <1>1, <1>2 DEF Words
<1>4. I \in Word /\ Magic \in Word /\ Pad \in Word /\ I # Magic /\ Pad # Magic
  BY InfoWord, WordKinds
<1> HIDE DEF I
<1>5. front \in Seq(Word) /\ Len(front) = 2 /\ front[1] = Magic /\ front[2] = I
  BY <1>4
<1>6. back \in Seq(Word) /\ Len(back) = Lanes - 2 /\ \A i \in 1..Lanes - 2 : back[i] = Pad
  BY <1>4, LanesNat
<1> HIDE DEF front, back
<1>7. /\ front \o back \in Seq(Word) /\ Len(front \o back) = Len(front) + Len(back)
      /\ \A i \in 1..Len(front) + Len(back) : (front \o back)[i] = IF i <= Len(front) THEN front[i] ELSE back[i - Len(front)]
  BY <1>5, <1>6, ConcatProperties
<1>8. Len(front \o back) = Lanes /\ (front \o back)[1] = Magic /\ (front \o back)[2] = I
  BY <1>5, <1>6, <1>7, LanesNat
<1>9. ASSUME NEW j \in 2..Lanes PROVE (front \o back)[j] # Magic
  BY <1>4, <1>5, <1>6, <1>7, LanesNat
<1>10. HeaderBeat(Words(b), w, h, n)
  BY <1>3, <1>7, <1>8, <1>9 DEF HeaderBeat, I
<1> QED
  BY <1>1, <1>2, <1>10

\* Beat b shows the pixels ps, m of them, of frame n.
Shows(b, n, m, ps) ==
    n \in Nat /\ m \in 1..Lanes /\ ps \in [1..m -> Nat \X Nat] /\ b = Stream!Pixels(n, ps)

LEMMA PixelBeats ==
    ASSUME NEW n, NEW m, NEW ps, NEW b, Shows(b, n, m, ps)
    PROVE  /\ Stream!IsPixels(b) /\ ~Stream!IsHeader(b) /\ b # Stream!NoBeat /\ Stream!FrameOf(b) = n
           /\ b[3] = ps /\ Len(ps) = m /\ Stream!FinalPixel(b) = ps[m]
           /\ PixelBeat(Words(b), n, ps)
<1> USE DEF Shows
<1>1. b[1] = "pixels" /\ b[2] = n /\ b[3] = ps
  BY DEF Stream!Pixels
<1>2. Stream!IsPixels(b) /\ ~Stream!IsHeader(b) /\ b # Stream!NoBeat /\ Stream!FrameOf(b) = n
  BY <1>1 DEF Stream!IsHeader, Stream!IsPixels, Stream!NoBeat, Stream!FrameOf
<1>3. Len(ps) = m
  BY LanesNat
<1>4. Stream!FinalPixel(b) = ps[m]
  BY <1>1, <1>3 DEF Stream!FinalPixel
<1>5. Words(b) = [i \in 1..Lanes |-> IF i <= m THEN Px(n, ps[i]) ELSE Pad]
  BY <1>1, <1>2, <1>3 DEF Words
<1>6. \A i \in 1..Lanes : (IF i <= m THEN Px(n, ps[i]) ELSE Pad) \in Word \ {Magic}
  BY PxWord, WordKinds, LanesNat
<1>7. Words(b) \in Seq(Word) /\ Len(Words(b)) = Lanes /\ \A j \in 1..Lanes : Words(b)[j] # Magic
  BY <1>5, <1>6, LanesNat
<1>8. \A j \in 1..m : Words(b)[j] = Px(n, ps[j]) /\ ps[j] \in Nat \X Nat
  BY <1>5, LanesNat
<1>9. \A j \in m + 1..Lanes : Words(b)[j] = Pad
  BY <1>5, LanesNat
<1>10. PixelBeat(Words(b), n, ps)
  <2>1. \A j \in 1..m : Words(b)[j] # Pad /\ Words(b)[j][1] = "px" /\ Words(b)[j][2] = n /\ Words(b)[j][3] = ps[j]
    BY <1>8, PxWord
  <2> QED
    BY <1>3, <1>7, <1>9, <2>1 DEF PixelBeat
<1> QED
  BY <1>1, <1>2, <1>3, <1>4, <1>10

LEMMA NeedNat ==
    ASSUME NEW w \in Nat, NEW h \in Nat
    PROVE  /\ Beats(w, h) \in Nat /\ Need(w, h) = Lanes * (Beats(w, h) + 1) /\ Need(w, h) \in Nat
           /\ w * h <= Lanes * Beats(w, h)
           /\ \A k \in Nat : w * h <= Lanes * k => Need(w, h) <= Lanes * (k + 1)
<1> DEFINE z == w * h
           q == (z + Lanes - 1) \div Lanes
<1>1. Lanes \in Nat /\ Lanes > 1 /\ z \in Nat
  BY LanesNat
<1> HIDE DEF z
<1>2. q \in Nat /\ Lanes * q <= z + Lanes - 1 /\ z + Lanes - 1 < Lanes * q + Lanes
  BY <1>1
<1> HIDE DEF q
<1>3. ASSUME NEW k \in Nat, z <= Lanes * k PROVE q <= k
  <2> SUFFICES ASSUME k + 1 <= q PROVE FALSE
    BY <1>2
  <2>1. Lanes * (k + 1) <= Lanes * q
    BY <1>1, <1>2
  <2>2. Lanes * (k + 1) = Lanes * k + Lanes /\ Lanes * k \in Nat /\ Lanes * q \in Nat
    BY <1>1, <1>2
  <2> QED
    BY <1>1, <1>2, <1>3, <2>1, <2>2
<1>4. Beats(w, h) = q
  BY DEF Beats, q, z
<1>5. Need(w, h) = Lanes * (q + 1) /\ Lanes * (q + 1) \in Nat
  BY <1>1, <1>2, <1>4 DEF Need
<1>6. z <= Lanes * q
  BY <1>1, <1>2
<1>7. ASSUME NEW k \in Nat, z <= Lanes * k PROVE Lanes * (q + 1) <= Lanes * (k + 1)
  BY <1>1, <1>2, <1>3, <1>7
<1> QED
  BY <1>2, <1>4, <1>5, <1>6, <1>7 DEF z

LEMMA HeaderFields ==
    ASSUME NEW s \in Seq(Word), NEW i \in 1..Len(s), HeaderAt(s, i)
    PROVE  s[i + 1][2] \in Nat /\ s[i + 1][3] \in Nat /\ NumberAt(s, i) \in Nat /\ EndAt(s, i) \in Nat
<1>1. Len(s) \in Nat
  BY LenProperties
<1>2. i + 1 \in 1..Len(s) /\ s[i + 1][1] = "info"
  BY <1>1 DEF HeaderAt
<1>3. s[i + 1] \in Word
  BY <1>2, ElementOfSeq
<1>4. s[i + 1][2] \in Nat /\ s[i + 1][3] \in Nat /\ s[i + 1][4] \in Nat
  BY <1>2, <1>3, WordKinds
<1>5. Need(s[i + 1][2], s[i + 1][3]) \in Nat
  BY <1>4, NeedNat
<1> QED
  BY <1>1, <1>4, <1>5 DEF NumberAt, EndAt

\* Beat b is the header of a frame that is newer than beat a and than C.
NewHeader(a, b, w, h, n, C) ==
    /\ w \in Nat /\ h \in Nat /\ n \in Nat
    /\ b = Stream!Header(w, h, n) /\ header_ok(Info(w, h, n))
    /\ a # Stream!NoBeat => Stream!FrameOf(a) \in Nat /\ Stream!FrameOf(a) < n
    /\ \A c \in C : c \in Nat /\ c < n

\* It was appended to s: it is the last thing in the stream, and nothing of its
\* frame is in place yet.
HeaderWasSent(s, u, b, w, h, n, C) ==
    /\ b # Stream!NoBeat /\ Stream!IsHeader(b) /\ Stream!FrameOf(b) = n /\ Words(b) \in Seq(Word)
    /\ u \in Seq(Word) /\ Framed(u) /\ LastIs(u, b) /\ FilledIs(u, <<n, <<w, h>>, 0>>) /\ CompleteIs(u, C)
    /\ HeaderAt(u, Len(s) + 1) /\ NumberAt(u, Len(s) + 1) = n /\ Len(u) = Len(s) + Lanes
    /\ \A i \in 1..Len(s) : HeaderAt(s, i) => HeaderAt(u, i) /\ NumberAt(u, i) = NumberAt(s, i)
    /\ \A i \in 1..Len(u) : HeaderAt(u, i) =>
          i = Len(s) + 1 \/ (i \in 1..Len(s) /\ HeaderAt(s, i) /\ NumberAt(u, i) = NumberAt(s, i))

LEMMA HeaderSent ==
    ASSUME NEW s \in Seq(Word), NEW w, NEW h, NEW n, NEW a, NEW b, NEW C,
           NewHeader(a, b, w, h, n, C), Framed(s), LastIs(s, a), CompleteIs(s, C)
    PROVE  HeaderWasSent(s, s \o Words(b), b, w, h, n, C)
<1>0. /\ w \in Nat /\ h \in Nat /\ n \in Nat
      /\ b = Stream!Header(w, h, n) /\ header_ok(Info(w, h, n))
      /\ a # Stream!NoBeat => Stream!FrameOf(a) \in Nat /\ Stream!FrameOf(a) < n
      /\ \A c \in C : c \in Nat /\ c < n
  BY DEF NewHeader
<1> DEFINE ws == Words(b)
           u == s \o ws
           N == Len(s)
           f == <<n, <<w, h>>, 0>>
<1>1. N \in Nat /\ Lanes \in Nat /\ Lanes > 1
  BY LenProperties, LanesNat
<1>2. HeaderBeat(ws, w, h, n) /\ Stream!IsHeader(b) /\ ~Stream!IsPixels(b) /\ b # Stream!NoBeat /\ Stream!FrameOf(b) = n
  BY <1>0, HeaderBeats
<1>3. ws \in Seq(Word) /\ Len(ws) = Lanes /\ ws[1] = Magic /\ ws[2] = Info(w, h, n) /\ \A j \in 2..Lanes : ws[j] # Magic
  BY <1>2 DEF HeaderBeat
<1>4. ws[1][1] # "info"
  BY <1>3, WordKinds
<1>5. \A i \in 1..N : HeaderAt(s, i) => NumberAt(s, i) < n
  BY <1>0, HeaderFields DEF LastIs
<1> HIDE DEF ws
<1>6. /\ u \in Seq(Word) /\ Len(u) = N + Lanes
      /\ \A k \in 1..N : u[k] = s[k]
      /\ \A j \in 1..Lanes : u[N + j] = ws[j]
  BY <1>3, AppendedAt
<1>7. Framed(u) /\ HeaderAt(u, N + 1) /\ u[N + 2] = Info(w, h, n)
  <2>1. HeaderBeat(ws, w, h, n) /\ AllBefore(s, n)
    BY <1>2, <1>5 DEF AllBefore
  <2>2. Framed(s \o ws)
    BY <1>0, <2>1, FramedHeader
  <2>3. HeaderAt(s \o ws, Len(s) + 1)
    BY <1>0, <2>1, FramedHeader
  <2>4. u[N + 2] = Info(w, h, n)
    BY <1>1, <1>3, <1>6
  <2> QED
    BY <2>2, <2>3, <2>4
<1>8. ASSUME NEW i \in 1..N
      PROVE  (HeaderAt(u, i) <=> HeaderAt(s, i))
             /\ (HeaderAt(s, i) => NumberAt(u, i) = NumberAt(s, i) /\ u[i + 1] = s[i + 1])
  BY <1>3, <1>4, HeaderBefore
<1> HIDE DEF u, N
<1>9. \A k \in N + 2..N + Lanes : u[k] # Magic
  <2> SUFFICES ASSUME NEW k \in N + 2..N + Lanes PROVE u[k] # Magic
    OBVIOUS
  <2>1. k - N \in 2..Lanes /\ k - N \in 1..Lanes /\ N + (k - N) = k
    BY <1>1
  <2> QED
    BY <1>3, <1>6, <2>1
<1>10. (N + 1) + 1 = N + 2 /\ Info(w, h, n)[2] = w /\ Info(w, h, n)[3] = h /\ Info(w, h, n)[4] = n
  BY <1>1 DEF Info
<1>11. NumberAt(u, N + 1) = n /\ u[(N + 1) + 1][2] = w /\ u[(N + 1) + 1][3] = h
  BY <1>7, <1>10 DEF NumberAt
<1>12. u[N + 1] = Magic
  BY <1>7 DEF HeaderAt
<1>13. ASSUME NEW i \in 1..Len(u), HeaderAt(u, i)
       PROVE  i = N + 1 \/ (i \in 1..N /\ HeaderAt(s, i) /\ NumberAt(u, i) = NumberAt(s, i) /\ u[i + 1] = s[i + 1]
                            /\ ~NoMagic(u, i + 1, Len(u)))
  <2>1. u[i] = Magic
    BY <1>13 DEF HeaderAt
  <2>2. i \in 1..N + 1
    BY <1>1, <1>6, <1>9, <2>1
  <2>3. CASE i \in 1..N
    <3>1. N + 1 \in i + 1..Len(u)
      BY <1>1, <1>6, <2>3
    <3> QED
      BY <1>8, <1>12, <1>13, <2>3, <3>1 DEF NoMagic
  <2> QED
    BY <1>1, <2>2, <2>3
<1>14. LastIs(u, b)
  <2> SUFFICES ASSUME NEW i \in 1..Len(u), HeaderAt(u, i)
               PROVE  /\ NumberAt(u, i) <= n
                      /\ NoMagic(u, i + 1, Len(u)) => NumberAt(u, i) = n /\ Len(u) = i + Lanes - 1
    BY <1>2 DEF LastIs
  <2>1. CASE i = N + 1
    BY <1>0, <1>1, <1>6, <1>11, <2>1
  <2>2. CASE i \in 1..N /\ HeaderAt(s, i) /\ NumberAt(u, i) = NumberAt(s, i) /\ ~NoMagic(u, i + 1, Len(u))
    <3>1. NumberAt(s, i) < n /\ NumberAt(s, i) \in Nat
      BY <1>5, <2>2, HeaderFields DEF N
    <3> QED
      BY <1>0, <2>2, <3>1
  <2> QED
    BY <1>13, <2>1, <2>2
<1>15. FilledIs(u, f)
  <2> SUFFICES ASSUME NEW i \in 1..Len(u), HeaderAt(u, i), NoMagic(u, i + 1, Len(u))
               PROVE  /\ w = u[i + 1][2] /\ h = u[i + 1][3]
                      /\ \E k \in Nat : /\ Len(u) = (i - 1) + Lanes * (k + 1)
                                        /\ 0 = IF Lanes * k < w * h THEN Lanes * k ELSE w * h
    BY DEF FilledIs
  <2>1. i = N + 1
    BY <1>13
  <2>2. Len(u) = (i - 1) + Lanes * (0 + 1)
    BY <1>1, <1>6, <2>1
  <2>3. 0 = IF Lanes * 0 < w * h THEN Lanes * 0 ELSE w * h
    <3>1. w * h \in Nat /\ Lanes * 0 = 0
      BY <1>0, <1>1
    <3> QED
      BY <3>1
  <2> QED
    BY <1>11, <2>1, <2>2, <2>3
<1>16. CompleteIs(u, C)
  <2> SUFFICES ASSUME NEW i \in 1..Len(u), HeaderAt(u, i), NumberAt(u, i) \in C
               PROVE  Len(u) >= EndAt(u, i) /\ NoMagic(u, i + 1, EndAt(u, i))
    BY DEF CompleteIs
  <2>1. NumberAt(u, i) < n /\ NumberAt(u, i) \in Nat
    BY <1>0
  <2>2. i \in 1..N /\ HeaderAt(s, i) /\ NumberAt(s, i) \in C /\ EndAt(u, i) = EndAt(s, i)
    BY <1>0, <1>11, <1>13, <2>1 DEF EndAt
  <2>3. N >= EndAt(s, i) /\ NoMagic(s, i + 1, EndAt(s, i)) /\ EndAt(s, i) \in Nat
    BY <2>2, HeaderFields DEF CompleteIs, N
  <2>4. Len(u) >= EndAt(s, i)
    BY <1>1, <1>6, <2>3
  <2>5. ASSUME NEW k \in i + 1..EndAt(s, i) PROVE u[k] # Magic
    <3>1. k \in 1..N
      BY <1>1, <2>2, <2>3
    <3> QED
      BY <1>6, <2>3, <3>1 DEF NoMagic
  <2> QED
    BY <2>2, <2>4, <2>5 DEF NoMagic
<1>17. \A i \in 1..N : HeaderAt(s, i) => HeaderAt(u, i) /\ NumberAt(u, i) = NumberAt(s, i)
  BY <1>8
<1>18. \A i \in 1..Len(u) : HeaderAt(u, i) =>
          i = N + 1 \/ (i \in 1..N /\ HeaderAt(s, i) /\ NumberAt(u, i) = NumberAt(s, i))
  BY <1>13
<1> QED
  BY <1>2, <1>3, <1>6, <1>7, <1>11, <1>14, <1>15, <1>16, <1>17, <1>18 DEF HeaderWasSent, u, ws, N, f

LEMMA MayGoOn ==
    ASSUME NEW s, NEW a, NEW b, LastIs(s, a), Stream!MayFollow(a, b), ~Stream!IsHeader(b)
    PROVE  GoesOn(s, Stream!FrameOf(a), b[3][1])
  BY DEF GoesOn, LastIs, Stream!MayFollow, Stream!Continues

\* Dropping or adding words elsewhere does not hide a magic.
LEMMA FewerMagic ==
    ASSUME NEW s, NEW u, NEW a \in Nat, NEW b, NEW c, b <= c, b \in Int, c \in Int, NoMagic(u, a, c),
           \A k \in a..b : u[k] = s[k]
    PROVE  NoMagic(s, a, b)
<1> SUFFICES ASSUME NEW k \in a..b PROVE s[k] # Magic
  BY DEF NoMagic
<1>1. k \in a..c
  OBVIOUS
<1> QED
  BY <1>1 DEF NoMagic

\* What the history makes of a beat of pixels: one beat more in place, or none
\* at all any more.
LEMMA TrackedPixels ==
    ASSUME filled \in Nat \X (Nat \X Nat) \X Nat,
           NEW b, ~Stream!IsHeader(b), Len(b[3]) \in 1..Lanes
    PROVE  LET f == Tracked(b)
               size == filled[2][1] * filled[2][2]
           IN  /\ f \in Nat \X (Nat \X Nat) \X Nat /\ f[1] = filled[1]
               /\ \/ f[2] = <<0, 0>> /\ f[3] = 0
                  \/ /\ f[2] = filled[2] /\ f[3] = filled[3] + Len(b[3])
                     /\ f[3] = IF filled[3] + Lanes < size THEN filled[3] + Lanes ELSE size
<1> DEFINE size == filled[2][1] * filled[2][2]
           k == filled[3] + Len(b[3])
           f == Tracked(b)
           ok == /\ filled[2][1] > 0 /\ k = (IF filled[3] + Lanes < size THEN filled[3] + Lanes ELSE size)
                 /\ \A i \in DOMAIN b[3] : b[3][i] = Place(filled[2][1], filled[3] + i)
<1>1. f = IF ok THEN [filled EXCEPT ![3] = k] ELSE <<filled[1], <<0, 0>>, 0>>
  BY DEF Tracked
<1>2. filled[1] \in Nat /\ filled[2] \in Nat \X Nat /\ filled[3] \in Nat /\ k \in Nat
  BY LanesNat
<1>3. CASE ok
  <2>1. f = <<filled[1], filled[2], k>>
    BY <1>1, <1>3
  <2>2. f[1] = filled[1] /\ f[2] = filled[2] /\ f[3] = k /\ f \in Nat \X (Nat \X Nat) \X Nat
    BY <1>2, <2>1
  <2> QED
    BY <1>3, <2>2
<1>4. CASE ~ok
  <2>1. f = <<filled[1], <<0, 0>>, 0>>
    BY <1>1, <1>4
  <2> QED
    BY <1>2, <2>1
<1> QED
  BY <1>3, <1>4

\* Beat b holds the next pixels of the frame of beat a.
MorePixels(a, b, n, m, ps) ==
    /\ Shows(b, n, m, ps) /\ Stream!MayFollow(a, b) /\ n = Stream!FrameOf(a)
    /\ filled \in Nat \X (Nat \X Nat) \X Nat /\ filled[1] = n

\* It was appended to s.
PixelsWereSent(s, u, b, f, D) ==
    /\ b # Stream!NoBeat /\ Stream!FrameOf(b) = filled[1] /\ Words(b) \in Seq(Word)
    /\ f \in Nat \X (Nat \X Nat) \X Nat /\ f[1] = filled[1]
    /\ u \in Seq(Word) /\ Framed(u) /\ LastIs(u, b) /\ FilledIs(u, f) /\ CompleteIs(u, D)
    /\ Len(u) = Len(s) + Lanes
    /\ \A i \in 1..Len(s) : HeaderAt(s, i) => HeaderAt(u, i) /\ NumberAt(u, i) = NumberAt(s, i)
    /\ \A i \in 1..Len(u) : HeaderAt(u, i) =>
          i \in 1..Len(s) /\ HeaderAt(s, i) /\ NumberAt(u, i) = NumberAt(s, i)

\* The frames complete once the history is f.
CompleteBy(f, C) == IF f[3] > 0 /\ f[3] = f[2][1] * f[2][2] THEN C \cup {f[1]} ELSE C

LEMMA PixelsSent ==
    ASSUME NEW s \in Seq(Word), NEW n, NEW m, NEW ps, NEW a, NEW b, NEW C,
           MorePixels(a, b, n, m, ps), Framed(s), LastIs(s, a), FilledIs(s, filled), CompleteIs(s, C)
    PROVE  PixelsWereSent(s, s \o Words(b), b, Tracked(b), CompleteBy(Tracked(b), C))
<1>0. /\ n \in Nat /\ m \in 1..Lanes /\ ps \in [1..m -> Nat \X Nat]
      /\ b = Stream!Pixels(n, ps) /\ Stream!MayFollow(a, b) /\ n = Stream!FrameOf(a)
      /\ filled \in Nat \X (Nat \X Nat) \X Nat /\ filled[1] = n /\ Shows(b, n, m, ps)
  BY DEF MorePixels, Shows
<1> DEFINE ws == Words(b)
           u == s \o ws
           N == Len(s)
           f == Tracked(b)
           D == CompleteBy(f, C)
<1>1. N \in Nat /\ Lanes \in Nat /\ Lanes > 1
  BY LenProperties, LanesNat
<1>2. /\ PixelBeat(ws, n, ps) /\ Stream!IsPixels(b) /\ ~Stream!IsHeader(b) /\ b # Stream!NoBeat
      /\ Stream!FrameOf(b) = n /\ b[3] = ps /\ Len(ps) = m /\ Stream!FinalPixel(b) = ps[m]
  BY <1>0, PixelBeats
<1>3. Len(b[3]) = m
  BY <1>2
<1> HIDE DEF ws
<1>4. GoesOn(s, n, ps[1])
  BY <1>0, <1>2, MayGoOn
<1>5. \A q \in 1..Len(ps) - 1 : Stream!Follows(ps[q], ps[q + 1])
  BY <1>0, <1>2 DEF Stream!MayFollow
<1>6. Framed(u)
  BY <1>2, <1>4, <1>5, FramedPixels
<1>7. /\ Len(u) = N + Lanes /\ u \in Seq(Word)
      /\ \A k \in 1..N : u[k] = s[k]
      /\ \A k \in N + 1..N + Lanes : u[k] # Magic /\ ~HeaderAt(u, k)
      /\ \A i \in 1..N : (HeaderAt(u, i) <=> HeaderAt(s, i))
                         /\ (HeaderAt(s, i) => NumberAt(u, i) = NumberAt(s, i) /\ u[i + 1] = s[i + 1])
  BY <1>2, PixelsAppended
<1>8. m = Lanes => u[N + Lanes] # Pad /\ u[N + Lanes][3] = ps[m]
  <2> SUFFICES ASSUME m = Lanes PROVE u[N + Lanes] # Pad /\ u[N + Lanes][3] = ps[m]
    OBVIOUS
  <2>1. ws \in Seq(Word) /\ Len(ws) = Lanes /\ m \in 1..Len(ps) /\ Lanes \in 1..Lanes
    BY <1>0, <1>1, <1>2 DEF PixelBeat
  <2>2. ws[m] # Pad /\ ws[m][3] = ps[m]
    BY <1>2, <2>1 DEF PixelBeat
  <2>3. u[N + Lanes] = ws[Lanes]
    BY <2>1, AppendedAt
  <2> QED
    BY <2>2, <2>3
<1> HIDE DEF u, N
<1>9. ASSUME NEW i \in 1..Len(u), HeaderAt(u, i)
      PROVE  i \in 1..N /\ HeaderAt(s, i) /\ NumberAt(u, i) = NumberAt(s, i) /\ u[i + 1] = s[i + 1]
  <2>1. i \in 1..N
    BY <1>1, <1>7, <1>9
  <2> QED
    BY <1>7, <1>9, <2>1
<1>10. ASSUME NEW i \in 1..N, NoMagic(u, i + 1, Len(u)) PROVE NoMagic(s, i + 1, N)
  <2>1. i + 1 \in Nat /\ N <= Len(u) /\ N \in Int /\ Len(u) \in Int
    BY <1>1, <1>7
  <2>2. \A k \in i + 1..N : u[k] = s[k]
    BY <1>1, <1>7
  <2> QED
    BY <1>10, <2>1, <2>2, FewerMagic
<1>11. LastIs(u, b)
  <2> SUFFICES ASSUME NEW i \in 1..Len(u), HeaderAt(u, i)
               PROVE  /\ NumberAt(u, i) <= n
                      /\ NoMagic(u, i + 1, Len(u)) =>
                            /\ NumberAt(u, i) = n
                            /\ m = Lanes => Len(u) >= i + Lanes /\ u[Len(u)] # Pad /\ u[Len(u)][3] = ps[m]
    BY <1>2, <1>3 DEF LastIs
  <2>1. i \in 1..N /\ HeaderAt(s, i) /\ NumberAt(u, i) = NumberAt(s, i)
    BY <1>9
  <2>2. NumberAt(s, i) <= n
    BY <1>0, <2>1 DEF LastIs, N
  <2>3. NoMagic(u, i + 1, Len(u)) => NumberAt(s, i) = n
    BY <1>0, <1>10, <2>1 DEF LastIs, N
  <2>4. Len(u) >= i + Lanes
    BY <1>1, <1>7, <2>1
  <2> QED
    BY <1>7, <1>8, <2>1, <2>2, <2>3, <2>4
<1>12. /\ f \in Nat \X (Nat \X Nat) \X Nat /\ f[1] = n
       /\ \/ f[2] = <<0, 0>> /\ f[3] = 0
          \/ /\ f[2] = filled[2] /\ f[3] = filled[3] + m
             /\ f[3] = IF filled[3] + Lanes < filled[2][1] * filled[2][2] THEN filled[3] + Lanes
                       ELSE filled[2][1] * filled[2][2]
  BY <1>0, <1>2, <1>3, TrackedPixels
<1> HIDE DEF f
<1>13. FilledIs(u, f)
  <2> SUFFICES ASSUME NEW i \in 1..Len(u), HeaderAt(u, i), NoMagic(u, i + 1, Len(u)), f[2][1] > 0
               PROVE  /\ f[2][1] = u[i + 1][2] /\ f[2][2] = u[i + 1][3]
                      /\ \E k \in Nat : /\ Len(u) = (i - 1) + Lanes * (k + 1)
                                        /\ f[3] = IF Lanes * k < f[2][1] * f[2][2] THEN Lanes * k ELSE f[2][1] * f[2][2]
    BY DEF FilledIs
  <2>1. /\ f[2] = filled[2] /\ f[3] = filled[3] + m
        /\ f[3] = IF filled[3] + Lanes < filled[2][1] * filled[2][2] THEN filled[3] + Lanes
                  ELSE filled[2][1] * filled[2][2]
    BY <1>12
  <2>2. i \in 1..N /\ HeaderAt(s, i) /\ u[i + 1] = s[i + 1] /\ NoMagic(s, i + 1, N)
    BY <1>9, <1>10
  <2>3. /\ filled[2][1] = s[i + 1][2] /\ filled[2][2] = s[i + 1][3]
        /\ \E k \in Nat : /\ N = (i - 1) + Lanes * (k + 1)
                          /\ filled[3] = IF Lanes * k < filled[2][1] * filled[2][2] THEN Lanes * k
                                         ELSE filled[2][1] * filled[2][2]
    BY <2>1, <2>2 DEF FilledIs, N
  <2>4. PICK k \in Nat : /\ N = (i - 1) + Lanes * (k + 1)
                         /\ filled[3] = IF Lanes * k < filled[2][1] * filled[2][2] THEN Lanes * k
                                        ELSE filled[2][1] * filled[2][2]
    BY <2>3
  <2>5. Len(u) = (i - 1) + Lanes * ((k + 1) + 1) /\ k + 1 \in Nat
    BY <1>1, <1>7, <2>4
  <2>6. filled[2][1] * filled[2][2] \in Nat /\ filled[3] \in Nat
    BY <1>0
  <2>7. filled[3] + m = IF Lanes * (k + 1) < filled[2][1] * filled[2][2] THEN Lanes * (k + 1)
                        ELSE filled[2][1] * filled[2][2]
    <3> DEFINE size == filled[2][1] * filled[2][2]
               x == filled[3]
    <3>1. size \in Nat /\ x \in Nat /\ x = (IF Lanes * k < size THEN Lanes * k ELSE size)
          /\ x + m = IF x + Lanes < size THEN x + Lanes ELSE size
      BY <2>1, <2>4, <2>6
    <3> HIDE DEF size, x
    <3>2. x + m = IF Lanes * (k + 1) < size THEN Lanes * (k + 1) ELSE size
      <4> DEFINE z == Lanes * k
      <4>1. z \in Nat /\ Lanes * (k + 1) = z + Lanes
        BY <1>1
      <4>2. x = IF z < size THEN z ELSE size
        BY <3>1
      <4> HIDE DEF z
      <4>3. z < size /\ x = z
        BY <1>0, <1>1, <3>1, <4>1, <4>2
      <4> QED
        BY <1>0, <1>1, <3>1, <4>1, <4>3
    <3> QED
      BY <3>2 DEF size, x
  <2> QED
    BY <2>1, <2>2, <2>3, <2>5, <2>7
<1>14. CompleteIs(u, D)
  <2> SUFFICES ASSUME NEW i \in 1..Len(u), HeaderAt(u, i), NumberAt(u, i) \in D
               PROVE  Len(u) >= EndAt(u, i) /\ NoMagic(u, i + 1, EndAt(u, i))
    BY DEF CompleteIs
  <2>1. i \in 1..N /\ HeaderAt(s, i) /\ NumberAt(u, i) = NumberAt(s, i) /\ u[i + 1] = s[i + 1]
    BY <1>9
  <2>2. EndAt(u, i) = EndAt(s, i) /\ EndAt(s, i) \in Nat /\ NumberAt(s, i) \in Nat
    BY <2>1, HeaderFields DEF EndAt, N
  <2>3. CASE NumberAt(s, i) \in C
    <3>1. N >= EndAt(s, i) /\ NoMagic(s, i + 1, EndAt(s, i))
      BY <2>1, <2>3 DEF CompleteIs, N
    <3>2. Len(u) >= EndAt(s, i)
      BY <1>1, <1>7, <2>2, <3>1
    <3>3. ASSUME NEW k \in i + 1..EndAt(s, i) PROVE u[k] # Magic
      <4>1. k \in 1..N
        BY <1>1, <2>1, <2>2, <3>1
      <4> QED
        BY <1>7, <3>1, <4>1 DEF NoMagic
    <3> QED
      BY <2>2, <3>2, <3>3 DEF NoMagic
  <2>4. CASE NumberAt(s, i) \notin C
    <3>1. NumberAt(s, i) = n /\ f[3] > 0 /\ f[3] = f[2][1] * f[2][2]
      BY <1>12, <2>1, <2>4 DEF CompleteBy
    <3>2. NoMagic(u, i + 1, Len(u))
      <4> SUFFICES ASSUME NEW j \in i + 1..Len(u), u[j] = Magic PROVE FALSE
        BY DEF NoMagic
      <4>1. HeaderAt(u, j) /\ NumberAt(u, i) < NumberAt(u, j)
        BY <1>6, <2>1 DEF Framed
      <4>2. j \in 1..Len(u)
        <5>1. i \in Nat
          BY <2>1
        <5> QED
          BY <5>1
      <4>3. NumberAt(u, j) <= n
        BY <1>2, <1>11, <4>1, <4>2 DEF LastIs
      <4>4. NumberAt(u, j) \in Nat
        BY <1>7, <4>1, <4>2, HeaderFields
      <4> QED
        BY <1>0, <2>1, <3>1, <4>1, <4>3, <4>4
    <3>3. f[2][1] > 0
      <4> SUFFICES ASSUME f[2][1] = 0 PROVE FALSE
        BY <1>12
      <4>1. f[2][1] * f[2][2] = 0
        BY <1>12
      <4> QED
        BY <3>1, <4>1
    <3>4. /\ f[2][1] = u[i + 1][2] /\ f[2][2] = u[i + 1][3]
          /\ \E k \in Nat : /\ Len(u) = (i - 1) + Lanes * (k + 1)
                            /\ f[3] = IF Lanes * k < f[2][1] * f[2][2] THEN Lanes * k ELSE f[2][1] * f[2][2]
      BY <1>13, <3>2, <3>3 DEF FilledIs
    <3>5. PICK k \in Nat : /\ Len(u) = (i - 1) + Lanes * (k + 1)
                           /\ f[3] = IF Lanes * k < f[2][1] * f[2][2] THEN Lanes * k ELSE f[2][1] * f[2][2]
      BY <3>4
    <3>6. f[2][1] \in Nat /\ f[2][2] \in Nat /\ f[2][1] * f[2][2] <= Lanes * k
      <4>1. f[2][1] \in Nat /\ f[2][2] \in Nat
        BY <1>12
      <4>2. f[2][1] * f[2][2] \in Nat /\ Lanes * k \in Nat
        <5>1. \A x, y \in Nat : x * y \in Nat
          OBVIOUS
        <5> QED
          BY <1>1, <4>1, <5>1
      <4> DEFINE size == f[2][1] * f[2][2]
      <4>3. size = IF Lanes * k < size THEN Lanes * k ELSE size
        BY <3>1, <3>5
      <4>4. size \in Nat
        BY <4>2
      <4> HIDE DEF size
      <4>5. size <= Lanes * k
        BY <4>2, <4>3, <4>4
      <4> QED
        BY <4>1, <4>5 DEF size
    <3>7. Need(f[2][1], f[2][2]) <= Lanes * (k + 1)
      BY <3>6, NeedNat
    <3>8. EndAt(u, i) <= Len(u)
      <4>1. EndAt(u, i) = (i - 1) + Need(f[2][1], f[2][2])
        BY <3>4 DEF EndAt
      <4>2. Need(f[2][1], f[2][2]) \in Nat
        BY <3>6, NeedNat
      <4>3. Lanes * (k + 1) \in Nat /\ i \in Nat
        BY <1>1, <2>1
      <4> QED
        BY <3>5, <3>7, <4>1, <4>2, <4>3
    <3>9. \A j \in i + 1..EndAt(u, i) : j \in i + 1..Len(u)
      BY <1>1, <1>7, <2>2, <3>8
    <3> QED
      BY <1>1, <1>7, <2>2, <3>2, <3>8, <3>9 DEF NoMagic
  <2> QED
    BY <2>3, <2>4
<1>15. \A i \in 1..N : HeaderAt(s, i) => HeaderAt(u, i) /\ NumberAt(u, i) = NumberAt(s, i)
  BY <1>7
<1>16. ws \in Seq(Word)
  BY <1>2 DEF PixelBeat
<1> QED
  BY <1>0, <1>2, <1>6, <1>7, <1>9, <1>11, <1>12, <1>13, <1>14, <1>15, <1>16 DEF PixelsWereSent, u, ws, N, f, D

-----------------------------------------------------------------------------
(* The stream that has not been parsed *)

Unparsed == buf \o wire

\* Frames are numbered upwards; what is complete or delivered was sent before.
CardOK ==
    /\ filled \in Nat \X (Nat \X Nat) \X Nat
    /\ last # Stream!NoBeat => Stream!FrameOf(last) \in Nat /\ filled[1] = Stream!FrameOf(last)
    /\ \A n \in complete \cup got : last # Stream!NoBeat /\ n \in Nat /\ n <= Stream!FrameOf(last)

\* Every header still to be parsed is newer than what was delivered.
Ahead(s) == \A i \in 1..Len(s), n \in got : HeaderAt(s, i) => n < NumberAt(s, i)

StreamInv ==
    /\ PlausibleSizes
    /\ buf \in Seq(Word) /\ wire \in Seq(Word)
    /\ Framed(Unparsed) /\ LastIs(Unparsed, last) /\ FilledIs(Unparsed, filled)
    /\ CompleteIs(Unparsed, complete)
    /\ CardOK /\ Ahead(Unparsed)

HasHeader(s, n) == \E i \in 1..Len(s) : HeaderAt(s, i) /\ NumberAt(s, i) = n

\* A frame that is complete, or that may still become so, was delivered or has
\* its header still to be parsed.
KeptInv ==
    \A n : n \in complete \/ (last # Stream!NoBeat /\ n = Stream!FrameOf(last))
           => n \in got \/ HasHeader(Unparsed, n)

LEMMA UnparsedSeq == StreamInv => Unparsed \in Seq(Word) /\ Len(Unparsed) \in Nat /\ Len(Unparsed) = Len(buf) + Len(wire)
<1> SUFFICES ASSUME StreamInv PROVE Unparsed \in Seq(Word) /\ Len(Unparsed) \in Nat /\ Len(Unparsed) = Len(buf) + Len(wire)
  OBVIOUS
<1>1. buf \in Seq(Word) /\ wire \in Seq(Word)
  BY DEF StreamInv
<1>2. buf \o wire \in Seq(Word) /\ Len(buf \o wire) = Len(buf) + Len(wire)
  BY <1>1, ConcatProperties
<1>3. Len(Unparsed) \in Nat
  BY <1>2, LenProperties DEF Unparsed
<1> QED
  BY <1>2, <1>3 DEF Unparsed

\* The leftovers of before are no headers.
LEMMA StreamInit == Init /\ PlausibleSizes => StreamInv /\ KeptInv
<1> SUFFICES ASSUME Init, PlausibleSizes PROVE StreamInv /\ KeptInv
  OBVIOUS
<1>1. /\ wire \in Leftovers /\ buf = <<>> /\ last = Stream!NoBeat /\ complete = {} /\ got = {}
      /\ filled = <<0, <<0, 0>>, 0>>
  BY DEF Init
<1> DEFINE P == Px(0, <<0, 0>>)
           I == Info(0, MaxDim, 0)
<1>2. P \in Word /\ I \in Word /\ Magic \in Word /\ P[1] = "px" /\ Magic[1] # "info" /\ ~header_ok(I)
  <2>1. MaxDim \in Nat
    BY ParserAssumption
  <2>2. P \in Word /\ P[1] = "px" /\ Magic \in Word /\ Magic[1] # "info"
    BY PxWord, WordKinds
  <2>3. I \in Word /\ I[2] = 0
    BY <2>1 DEF Info, Word
  <2> QED
    BY <2>2, <2>3 DEF header_ok
<1> HIDE DEF P, I
<1>3. \A k \in Nat : [i \in 1..k |-> P] \in Seq(Word) /\ Len([i \in 1..k |-> P]) = k
  BY <1>2
<1>4. wire \in Seq(Word) /\ \A i \in 1..Len(wire) : wire[i][1] = "info" => ~header_ok(wire[i])
  <2>1. CASE \E k \in 0..MaxJunk : wire = [i \in 1..k |-> P]
    <3>1. PICK k \in 0..MaxJunk : wire = [i \in 1..k |-> P]
      BY <2>1
    <3>2. k \in Nat
      BY ParserAssumption
    <3>3. wire \in Seq(Word) /\ Len(wire) = k /\ \A i \in 1..k : wire[i] = P
      BY <1>3, <3>1, <3>2
    <3> QED
      BY <1>2, <3>3
  <2>2. CASE \E k \in 0..MaxJunk : wire = Append([i \in 1..k |-> P], Magic) \o [i \in 1..Lanes - 1 |-> I]
    <3>1. PICK k \in 0..MaxJunk : wire = Append([i \in 1..k |-> P], Magic) \o [i \in 1..Lanes - 1 |-> I]
      BY <2>2
    <3> DEFINE junk == [i \in 1..k |-> P]
               front == Append(junk, Magic)
               back == [i \in 1..Lanes - 1 |-> I]
    <3>2. k \in Nat
      BY ParserAssumption
    <3>3. junk \in Seq(Word) /\ Len(junk) = k /\ \A i \in 1..k : junk[i] = P
      BY <1>3, <3>2
    <3>4. back \in Seq(Word) /\ Len(back) = Lanes - 1 /\ \A i \in 1..Lanes - 1 : back[i] = I
      BY <1>2, LanesNat
    <3>5. wire = front \o back
      BY <3>1
    <3> HIDE DEF junk, back
    <3>6. /\ front \in Seq(Word) /\ Len(front) = k + 1 /\ front[k + 1] = Magic
          /\ \A i \in 1..k : front[i] = P
      BY <1>2, <3>2, <3>3, AppendProperties
    <3> HIDE DEF front
    <3>7. /\ wire \in Seq(Word) /\ Len(wire) = Len(front) + Len(back)
          /\ \A i \in 1..Len(front) + Len(back) : wire[i] = IF i <= Len(front) THEN front[i] ELSE back[i - Len(front)]
      BY <3>4, <3>5, <3>6, ConcatProperties
    <3>8. ASSUME NEW i \in 1..Len(wire) PROVE wire[i] \in {P, Magic, I}
      <4>1. i \in 1..k \/ i = k + 1 \/ i - (k + 1) \in 1..Lanes - 1
        BY <3>2, <3>4, <3>6, <3>7, LanesNat
      <4>2. CASE i \in 1..k
        BY <3>2, <3>4, <3>6, <3>7, <4>2
      <4>3. CASE i = k + 1
        BY <3>2, <3>4, <3>6, <3>7, <4>3
      <4>4. CASE i - (k + 1) \in 1..Lanes - 1
        <5>1. wire[i] = back[i - Len(front)]
          BY <3>2, <3>4, <3>6, <3>7, <4>4, LanesNat
        <5> QED
          BY <3>4, <3>6, <4>4, <5>1
      <4> QED
        BY <4>1, <4>2, <4>3, <4>4
    <3> QED
      BY <1>2, <3>7, <3>8
  <2> QED
    BY <1>1, <2>1, <2>2 DEF Leftovers, P, I
<1>5. Unparsed = wire
  BY <1>1, <1>4, ConcatEmptySeq DEF Unparsed
<1>6. \A i \in 1..Len(wire) : ~HeaderAt(wire, i)
  <2> SUFFICES ASSUME NEW i \in 1..Len(wire), HeaderAt(wire, i) PROVE FALSE
    OBVIOUS
  <2>1. Len(wire) \in Nat
    BY <1>4, LenProperties
  <2>2. i + 1 \in 1..Len(wire) /\ wire[i + 1][1] = "info" /\ header_ok(wire[i + 1])
    BY <2>1 DEF HeaderAt
  <2> QED
    BY <1>4, <2>2
<1>7. buf \in Seq(Word)
  BY <1>1
<1>8. CardOK
  BY <1>1 DEF CardOK
<1>9. StreamInv
  BY <1>4, <1>5, <1>6, <1>7, <1>8 DEF StreamInv, Framed, LastIs, FilledIs, CompleteIs, Ahead
<1>10. KeptInv
  BY <1>1 DEF KeptInv
<1> QED
  BY <1>9, <1>10

\* What the card may send.
LEMMA HeadersSent ==
    ASSUME NEW b \in NextHeaders
    PROVE  \E w \in Nat, h \in Nat, n \in Nat :
              /\ b = Stream!Header(w, h, n) /\ <<w, h>> \in Sizes
              /\ last # Stream!NoBeat => n > Stream!FrameOf(last)
<1>1. PICK sz \in Sizes, n \in 1..MaxFrames :
         b = Stream!Header(sz[1], sz[2], n) /\ (last # Stream!NoBeat => n > Stream!FrameOf(last))
  BY DEF NextHeaders
<1>2. sz \in Nat \X Nat /\ n \in Nat
  BY ParserAssumption
<1>3. sz[1] \in Nat /\ sz[2] \in Nat /\ <<sz[1], sz[2]>> = sz
  BY <1>2
<1> QED
  BY <1>1, <1>2, <1>3

LEMMA PixelsNext ==
    ASSUME NEW b \in NextPixels
    PROVE  /\ last # Stream!NoBeat /\ Stream!MayFollow(last, b)
           /\ \E m \in 1..Lanes : \E ps \in [1..m -> Nat \X Nat] : b = Stream!Pixels(Stream!FrameOf(last), ps)
<1>1. last # Stream!NoBeat
  BY DEF NextPixels
<1>2. b \in {Stream!Pixels(Stream!FrameOf(last), ps) : ps \in SeqOf(Pixel, Lanes) \ {<<>>}} /\ Stream!MayFollow(last, b)
  BY <1>1 DEF NextPixels
<1>3. PICK ps \in SeqOf(Pixel, Lanes) \ {<<>>} : b = Stream!Pixels(Stream!FrameOf(last), ps)
  BY <1>2
<1>4. PICK m \in 0..Lanes : ps \in [1..m -> Pixel]
  BY <1>3 DEF SeqOf
<1>5. m # 0
  <2> SUFFICES ASSUME m = 0 PROVE FALSE
    OBVIOUS
  <2>1. ps \in Seq(Pixel) /\ Len(ps) = 0
    BY <1>4
  <2> QED
    BY <1>3, <2>1, EmptySeq
<1>6. Pixel \subseteq Nat \X Nat
  BY DEF Pixel
<1>7. m \in 1..Lanes /\ ps \in [1..m -> Nat \X Nat]
  BY <1>4, <1>5, <1>6, LanesNat
<1> QED
  BY <1>1, <1>2, <1>3, <1>7

LEMMA ConcatTwice ==
    ASSUME NEW x \in Seq(Word), NEW y \in Seq(Word), NEW z \in Seq(Word)
    PROVE  (x \o y) \o z = x \o (y \o z) /\ y \o z \in Seq(Word)
<1>1. (x \o y) \o z = x \o (y \o z)
  BY ConcatAssociative
<1>2. y \o z \in Seq(Word)
  BY ConcatProperties
<1> QED
  BY <1>1, <1>2

LEMMA SentIsUnparsed ==
    ASSUME StreamInv, NEW b, Emit(b), Words(b) \in Seq(Word)
    PROVE  Unparsed' = Unparsed \o Words(b) /\ wire' \in Seq(Word) /\ buf' \in Seq(Word)
<1> DEFINE ws == Words(b)
<1>1. buf \in Seq(Word) /\ wire \in Seq(Word) /\ buf' = buf /\ wire' = wire \o ws /\ ws \in Seq(Word)
  BY DEF StreamInv, Emit
<1> HIDE DEF ws
<1>2. (buf \o wire) \o ws = buf \o (wire \o ws) /\ wire \o ws \in Seq(Word)
  BY <1>1, ConcatTwice
<1>3. buf' \o wire' = (buf \o wire) \o ws
  BY <1>1, <1>2
<1>4. Unparsed' = Unparsed \o ws
  BY <1>3 DEF Unparsed
<1> QED
  BY <1>1, <1>2, <1>4 DEF ws

LEMMA EmitHeader ==
    ASSUME StreamInv, NEW b \in NextHeaders, Emit(b)
    PROVE  StreamInv' /\ (KeptInv => KeptInv')
<1>1. PICK w \in Nat, h \in Nat, n \in Nat :
         /\ b = Stream!Header(w, h, n) /\ <<w, h>> \in Sizes
         /\ last # Stream!NoBeat => n > Stream!FrameOf(last)
  BY HeadersSent
<1> DEFINE s == Unparsed
           u == s \o Words(b)
           f == <<n, <<w, h>>, 0>>
<1>2. header_ok(Info(w, h, n))
  BY <1>1 DEF StreamInv, PlausibleSizes, header_ok, Info
<1>3. s \in Seq(Word) /\ Len(s) \in Nat
  BY UnparsedSeq
<1>4. last # Stream!NoBeat => Stream!FrameOf(last) \in Nat /\ Stream!FrameOf(last) < n
  BY <1>1 DEF StreamInv, CardOK
<1>5. \A c \in complete \cup got : c \in Nat /\ c < n
  <2> SUFFICES ASSUME NEW c \in complete \cup got PROVE c \in Nat /\ c < n
    OBVIOUS
  <2>1. last # Stream!NoBeat /\ c \in Nat /\ c <= Stream!FrameOf(last)
    BY DEF StreamInv, CardOK
  <2> QED
    BY <1>4, <2>1
<1>6. Framed(s) /\ LastIs(s, last) /\ CompleteIs(s, complete)
  BY DEF StreamInv
<1>7. NewHeader(last, b, w, h, n, complete)
  BY <1>1, <1>2, <1>4, <1>5 DEF NewHeader
<1> HIDE DEF s
<1>8. HeaderWasSent(s, u, b, w, h, n, complete)
  BY <1>3, <1>6, <1>7, HeaderSent
<1>9. /\ b # Stream!NoBeat /\ Stream!IsHeader(b) /\ Stream!FrameOf(b) = n /\ Words(b) \in Seq(Word)
      /\ u \in Seq(Word) /\ Framed(u) /\ LastIs(u, b) /\ FilledIs(u, f) /\ CompleteIs(u, complete)
      /\ HeaderAt(u, Len(s) + 1) /\ NumberAt(u, Len(s) + 1) = n /\ Len(u) = Len(s) + Lanes
      /\ \A i \in 1..Len(s) : HeaderAt(s, i) => HeaderAt(u, i) /\ NumberAt(u, i) = NumberAt(s, i)
      /\ \A i \in 1..Len(u) : HeaderAt(u, i) =>
            i = Len(s) + 1 \/ (i \in 1..Len(s) /\ HeaderAt(s, i) /\ NumberAt(u, i) = NumberAt(s, i))
  BY <1>8 DEF HeaderWasSent
<1>10. Unparsed' = u /\ wire' \in Seq(Word) /\ buf' \in Seq(Word)
  BY <1>9, SentIsUnparsed DEF s
<1>11. last' = b /\ filled' = f /\ complete' = complete /\ got' = got
  <2>1. b[2] = w /\ b[3] = h /\ b[4] = n
    BY <1>1 DEF Stream!Header
  <2>2. filled' = f
    BY <1>9, <2>1 DEF Emit, Tracked
  <2>3. f[3] = 0
    OBVIOUS
  <2> QED
    BY <2>2, <2>3 DEF Emit
<1>12. f \in Nat \X (Nat \X Nat) \X Nat /\ f[1] = n
  BY <1>1
<1> HIDE DEF u, f
<1>13. \A i \in 1..Len(u), y \in got : HeaderAt(u, i) => y < NumberAt(u, i)
  BY <1>5, <1>9 DEF StreamInv, Ahead, s
<1>14. CardOK'
  <2>1. \A c \in complete \cup got : b # Stream!NoBeat /\ c \in Nat /\ c <= n
    BY <1>1, <1>5, <1>9
  <2> QED
    BY <1>1, <1>9, <1>11, <1>12, <2>1 DEF CardOK
<1>15. StreamInv'
  BY <1>9, <1>10, <1>11, <1>13, <1>14 DEF StreamInv, PlausibleSizes, Ahead
<1>16. HasHeader(u, n)
  <2>1. Len(s) + 1 \in 1..Len(u)
    BY <1>3, <1>9, LanesNat
  <2> QED
    BY <1>9, <2>1 DEF HasHeader
<1>17. \A y : HasHeader(s, y) => HasHeader(u, y)
  <2>1. \A i \in 1..Len(s) : i \in 1..Len(u)
    BY <1>3, <1>9, LanesNat
  <2> QED
    BY <1>9, <2>1 DEF HasHeader
<1>18. KeptInv => KeptInv'
  BY <1>9, <1>10, <1>11, <1>16, <1>17 DEF KeptInv, s
<1> QED
  BY <1>15, <1>18

LEMMA EmitPixels ==
    ASSUME StreamInv, NEW b \in NextPixels, Emit(b)
    PROVE  StreamInv' /\ (KeptInv => KeptInv')
<1> DEFINE s == Unparsed
           u == s \o Words(b)
           n == Stream!FrameOf(last)
           f == Tracked(b)
           D == CompleteBy(f, complete)
<1>1. /\ last # Stream!NoBeat /\ Stream!MayFollow(last, b) /\ n \in Nat /\ filled[1] = n
      /\ filled \in Nat \X (Nat \X Nat) \X Nat
  BY PixelsNext DEF StreamInv, CardOK
<1>2. \E m, ps : MorePixels(last, b, n, m, ps)
  <2>1. PICK m \in 1..Lanes : \E ps \in [1..m -> Nat \X Nat] : b = Stream!Pixels(Stream!FrameOf(last), ps)
    BY PixelsNext
  <2>2. PICK ps \in [1..m -> Nat \X Nat] : b = Stream!Pixels(Stream!FrameOf(last), ps)
    BY <2>1
  <2>3. MorePixels(last, b, n, m, ps)
    BY <1>1, <2>2 DEF MorePixels, Shows
  <2> QED
    BY <2>3
<1>3. s \in Seq(Word) /\ Len(s) \in Nat
  BY UnparsedSeq
<1>4. Framed(s) /\ LastIs(s, last) /\ FilledIs(s, filled) /\ CompleteIs(s, complete)
  BY DEF StreamInv
<1> HIDE DEF s, n
<1>5. PixelsWereSent(s, u, b, f, D)
  BY <1>2, <1>3, <1>4, PixelsSent
<1>6. /\ b # Stream!NoBeat /\ Stream!FrameOf(b) = filled[1] /\ Words(b) \in Seq(Word)
      /\ f \in Nat \X (Nat \X Nat) \X Nat /\ f[1] = filled[1]
      /\ u \in Seq(Word) /\ Framed(u) /\ LastIs(u, b) /\ FilledIs(u, f) /\ CompleteIs(u, D)
      /\ Len(u) = Len(s) + Lanes
      /\ \A i \in 1..Len(s) : HeaderAt(s, i) => HeaderAt(u, i) /\ NumberAt(u, i) = NumberAt(s, i)
      /\ \A i \in 1..Len(u) : HeaderAt(u, i) =>
            i \in 1..Len(s) /\ HeaderAt(s, i) /\ NumberAt(u, i) = NumberAt(s, i)
  BY <1>5 DEF PixelsWereSent
<1>7. Unparsed' = u /\ wire' \in Seq(Word) /\ buf' \in Seq(Word)
  BY <1>6, SentIsUnparsed DEF s
<1>8. last' = b /\ filled' = f /\ complete' = D /\ got' = got
  BY DEF Emit, CompleteBy
<1> HIDE DEF u, f
<1>9. \A y \in D : y \in complete \/ y = n
  BY <1>1, <1>6 DEF CompleteBy
<1> HIDE DEF D
<1>10. CardOK'
  <2>1. \A y \in complete \cup got : y \in Nat /\ y <= n
    BY <1>1 DEF StreamInv, CardOK, n
  <2>2. \A y \in D \cup got : b # Stream!NoBeat /\ y \in Nat /\ y <= n
    BY <1>1, <1>6, <1>9, <2>1
  <2> QED
    BY <1>1, <1>6, <1>8, <2>2 DEF CardOK
<1>11. \A i \in 1..Len(u), y \in got : HeaderAt(u, i) => y < NumberAt(u, i)
  BY <1>6 DEF StreamInv, Ahead, s
<1>12. StreamInv'
  BY <1>6, <1>7, <1>8, <1>10, <1>11 DEF StreamInv, PlausibleSizes, Ahead
<1>13. \A y : HasHeader(s, y) => HasHeader(u, y)
  <2>1. \A i \in 1..Len(s) : i \in 1..Len(u)
    BY <1>3, <1>6, LanesNat
  <2> QED
    BY <1>6, <2>1 DEF HasHeader
<1>14. KeptInv => KeptInv'
  BY <1>1, <1>6, <1>7, <1>8, <1>9, <1>13 DEF KeptInv, s, n
<1> QED
  BY <1>12, <1>14

-----------------------------------------------------------------------------
(* Words are dropped from the front *)

\* The frame that is not closed by another header is the same one.
LEMMA LastBehind ==
    ASSUME NEW s \in Seq(Word), NEW d \in 0..Len(s), NEW i \in 1..Len(s) - d
    PROVE  /\ i + d \in 1..Len(s)
           /\ NoMagic(Behind(s, d), i + 1, Len(Behind(s, d))) => NoMagic(s, (i + d) + 1, Len(s))
<1>0. Len(s) \in Nat /\ d \in Nat
  BY LenProperties
<1>1. Len(Behind(s, d)) = Len(s) - d /\ \A k \in 1..Len(s) - d : Behind(s, d)[k] = s[k + d]
  BY BehindAt
<1>2. ASSUME NoMagic(Behind(s, d), i + 1, Len(s) - d), NEW k \in (i + d) + 1..Len(s) PROVE s[k] # Magic
  <2>1. k - d \in i + 1..Len(s) - d /\ k - d \in 1..Len(s) - d /\ (k - d) + d = k
    BY <1>0
  <2>2. Behind(s, d)[k - d] # Magic
    BY <1>2, <2>1 DEF NoMagic
  <2> QED
    BY <1>1, <2>1, <2>2
<1>3. i + d \in 1..Len(s)
  BY <1>0
<1> QED
  BY <1>1, <1>2, <1>3 DEF NoMagic

LEMMA EndBehind ==
    ASSUME NEW s \in Seq(Word), NEW d \in 0..Len(s), NEW i \in 1..Len(s) - d, HeaderAt(s, i + d)
    PROVE  EndAt(Behind(s, d), i) = EndAt(s, i + d) - d /\ EndAt(s, i + d) \in Nat
<1>0. Len(s) \in Nat /\ d \in Nat /\ i + d \in 1..Len(s)
  BY LenProperties
<1>1. Behind(s, d)[i + 1] = s[(i + d) + 1]
  BY HeaderBehind
<1>2. s[(i + d) + 1][2] \in Nat /\ s[(i + d) + 1][3] \in Nat /\ EndAt(s, i + d) \in Nat
  BY <1>0, HeaderFields
<1> DEFINE z == Need(s[(i + d) + 1][2], s[(i + d) + 1][3])
<1>3. z \in Nat
  BY <1>2, NeedNat
<1>4. EndAt(Behind(s, d), i) = (i - 1) + z /\ EndAt(s, i + d) = (i + d - 1) + z
  BY <1>1 DEF EndAt
<1> HIDE DEF z
<1>5. (i - 1) + z = ((i + d - 1) + z) - d
  BY <1>0, <1>3
<1> QED
  BY <1>2, <1>4, <1>5

\* What the invariants say of the stream is not disturbed.
LEMMA StreamBehind ==
    ASSUME NEW s \in Seq(Word), NEW d \in 0..Len(s), Framed(s),
           LastIs(s, last), FilledIs(s, filled), CompleteIs(s, complete), Ahead(s)
    PROVE  /\ Framed(Behind(s, d)) /\ LastIs(Behind(s, d), last) /\ FilledIs(Behind(s, d), filled)
           /\ CompleteIs(Behind(s, d), complete) /\ Ahead(Behind(s, d))
<1> DEFINE t == Behind(s, d)
<1>0. Len(s) \in Nat /\ d \in Nat /\ Len(t) = Len(s) - d /\ \A k \in 1..Len(s) - d : t[k] = s[k + d]
  BY LenProperties, BehindAt
<1>1. Framed(t)
  BY FramedBehind
<1>2. ASSUME NEW i \in 1..Len(t), HeaderAt(t, i)
      PROVE  /\ i \in 1..Len(s) - d /\ i + d \in 1..Len(s) /\ HeaderAt(s, i + d)
             /\ NumberAt(t, i) = NumberAt(s, i + d) /\ t[i + 1] = s[(i + d) + 1]
             /\ NoMagic(t, i + 1, Len(t)) => NoMagic(s, (i + d) + 1, Len(s))
  <2>1. i \in 1..Len(s) - d
    BY <1>0
  <2>2. i + d \in 1..Len(s) /\ (NoMagic(t, i + 1, Len(t)) => NoMagic(s, (i + d) + 1, Len(s)))
    BY <2>1, LastBehind
  <2>3. HeaderAt(s, i + d)
    BY <1>2, <2>1, HeaderBehind
  <2>4. NumberAt(t, i) = NumberAt(s, i + d) /\ t[i + 1] = s[(i + d) + 1]
    BY <2>1, <2>3, HeaderBehind
  <2> QED
    BY <2>1, <2>2, <2>3, <2>4
<1>3. LastIs(t, last)
  <2> SUFFICES ASSUME NEW i \in 1..Len(t), HeaderAt(t, i)
               PROVE  /\ last # Stream!NoBeat /\ NumberAt(t, i) <= Stream!FrameOf(last)
                      /\ NoMagic(t, i + 1, Len(t)) =>
                            /\ NumberAt(t, i) = Stream!FrameOf(last)
                            /\ Stream!IsHeader(last) => Len(t) = i + Lanes - 1
                            /\ Stream!IsPixels(last) /\ Len(last[3]) = Lanes =>
                                  Len(t) >= i + Lanes /\ t[Len(t)] # Pad /\ t[Len(t)][3] = Stream!FinalPixel(last)
    BY DEF LastIs
  <2>1. last # Stream!NoBeat /\ NumberAt(t, i) <= Stream!FrameOf(last)
    BY <1>2 DEF LastIs
  <2>2. ASSUME NoMagic(t, i + 1, Len(t))
        PROVE  /\ NumberAt(t, i) = Stream!FrameOf(last)
               /\ Stream!IsHeader(last) => Len(s) = (i + d) + Lanes - 1
               /\ Stream!IsPixels(last) /\ Len(last[3]) = Lanes =>
                     Len(s) >= (i + d) + Lanes /\ s[Len(s)] # Pad /\ s[Len(s)][3] = Stream!FinalPixel(last)
    BY <1>2, <2>2 DEF LastIs
  <2>3. (Len(s) = (i + d) + Lanes - 1 => Len(t) = i + Lanes - 1) /\ (Len(s) >= (i + d) + Lanes => Len(t) >= i + Lanes)
    BY <1>0, LanesNat
  <2>4. t[Len(t)] = s[Len(s)]
    <3>1. Len(t) \in 1..Len(s) - d /\ Len(t) + d = Len(s)
      BY <1>0
    <3> QED
      BY <1>0, <3>1
  <2> QED
    BY <2>1, <2>2, <2>3, <2>4
<1>4. FilledIs(t, filled)
  <2> SUFFICES ASSUME NEW i \in 1..Len(t), HeaderAt(t, i), NoMagic(t, i + 1, Len(t)), filled[2][1] > 0
               PROVE  /\ filled[2][1] = t[i + 1][2] /\ filled[2][2] = t[i + 1][3]
                      /\ \E k \in Nat : /\ Len(t) = (i - 1) + Lanes * (k + 1)
                                        /\ filled[3] = IF Lanes * k < filled[2][1] * filled[2][2]
                                                       THEN Lanes * k ELSE filled[2][1] * filled[2][2]
    BY DEF FilledIs
  <2>1. /\ filled[2][1] = s[(i + d) + 1][2] /\ filled[2][2] = s[(i + d) + 1][3]
        /\ \E k \in Nat : /\ Len(s) = (i + d - 1) + Lanes * (k + 1)
                          /\ filled[3] = IF Lanes * k < filled[2][1] * filled[2][2]
                                         THEN Lanes * k ELSE filled[2][1] * filled[2][2]
    BY <1>2 DEF FilledIs
  <2>2. PICK k \in Nat : /\ Len(s) = (i + d - 1) + Lanes * (k + 1)
                         /\ filled[3] = IF Lanes * k < filled[2][1] * filled[2][2]
                                        THEN Lanes * k ELSE filled[2][1] * filled[2][2]
    BY <2>1
  <2>3. Len(t) = (i - 1) + Lanes * (k + 1)
    <3>1. Lanes * (k + 1) \in Nat
      BY LanesNat
    <3> QED
      BY <1>0, <2>2, <3>1
  <2> QED
    BY <1>2, <2>1, <2>2, <2>3
<1>5. CompleteIs(t, complete)
  <2> SUFFICES ASSUME NEW i \in 1..Len(t), HeaderAt(t, i), NumberAt(t, i) \in complete
               PROVE  Len(t) >= EndAt(t, i) /\ NoMagic(t, i + 1, EndAt(t, i))
    BY DEF CompleteIs
  <2>1. i \in 1..Len(s) - d /\ i + d \in 1..Len(s) /\ HeaderAt(s, i + d) /\ NumberAt(s, i + d) \in complete
    BY <1>2
  <2>2. Len(s) >= EndAt(s, i + d) /\ NoMagic(s, (i + d) + 1, EndAt(s, i + d))
    BY <2>1 DEF CompleteIs
  <2>3. EndAt(t, i) = EndAt(s, i + d) - d /\ EndAt(s, i + d) \in Nat
    BY <2>1, EndBehind
  <2>4. Len(t) >= EndAt(t, i)
    BY <1>0, <2>2, <2>3
  <2>5. ASSUME NEW k \in i + 1..EndAt(t, i) PROVE t[k] # Magic
    <3>1. k \in 1..Len(s) - d /\ k + d \in (i + d) + 1..EndAt(s, i + d)
      BY <1>0, <2>2, <2>3
    <3>2. t[k] = s[k + d]
      BY <1>0, <3>1
    <3> QED
      BY <2>2, <3>1, <3>2 DEF NoMagic
  <2> QED
    BY <2>4, <2>5 DEF NoMagic
<1>6. Ahead(t)
  BY <1>2 DEF Ahead
<1> QED
  BY <1>1, <1>3, <1>4, <1>5, <1>6

\* Words dropped from the buffer are dropped from what has not been parsed.
LEMMA DroppedUnparsed ==
    ASSUME StreamInv, NEW d \in 0..Len(buf), DropWords(d), UNCHANGED wire
    PROVE  /\ Unparsed' = Behind(Unparsed, d) /\ buf' = Behind(buf, d) /\ d \in 0..Len(Unparsed)
           /\ buf' \in Seq(Word) /\ wire' \in Seq(Word)
<1>1. buf \in Seq(Word) /\ wire \in Seq(Word) /\ Len(buf) \in Nat /\ Len(wire) \in Nat
  BY LenProperties DEF StreamInv
<1>2. Unparsed \in Seq(Word) /\ Len(Unparsed) \in Nat /\ Len(Unparsed) = Len(buf) + Len(wire)
  BY UnparsedSeq
<1>3. d \in Nat /\ d \in 0..Len(Unparsed)
  BY <1>1, <1>2
<1>4. buf' = Behind(buf, d) /\ wire' = wire
  BY DEF DropWords, Behind
<1> DEFINE rest == Behind(buf, d)
<1>5. rest \in Seq(Word) /\ Len(rest) = Len(buf) - d /\ \A i \in 1..Len(buf) - d : rest[i] = buf[i + d]
  BY <1>1, BehindAt
<1> HIDE DEF rest
<1>6. /\ rest \o wire \in Seq(Word) /\ Len(rest \o wire) = Len(rest) + Len(wire)
      /\ \A i \in 1..Len(rest) + Len(wire) : (rest \o wire)[i] = IF i <= Len(rest) THEN rest[i] ELSE wire[i - Len(rest)]
  BY <1>1, <1>5, ConcatProperties
<1>7. \A i \in 1..Len(buf) + Len(wire) : Unparsed[i] = IF i <= Len(buf) THEN buf[i] ELSE wire[i - Len(buf)]
  BY <1>1, ConcatProperties DEF Unparsed
<1>8. /\ Behind(Unparsed, d) \in Seq(Word) /\ Len(Behind(Unparsed, d)) = Len(Unparsed) - d
      /\ \A i \in 1..Len(Unparsed) - d : Behind(Unparsed, d)[i] = Unparsed[i + d]
  BY <1>2, <1>3, BehindAt
<1>9. Len(rest \o wire) = Len(Behind(Unparsed, d))
  BY <1>1, <1>2, <1>3, <1>5, <1>6, <1>8
<1>10. ASSUME NEW i \in 1..Len(rest \o wire) PROVE (rest \o wire)[i] = Behind(Unparsed, d)[i]
  <2>1. /\ i \in 1..Len(rest) + Len(wire) /\ i \in 1..Len(Unparsed) - d /\ i + d \in 1..Len(buf) + Len(wire)
        /\ i <= Len(rest) <=> i + d <= Len(buf)
        /\ i <= Len(rest) <=> i \in 1..Len(buf) - d
        /\ i - Len(rest) = (i + d) - Len(buf)
    BY <1>1, <1>2, <1>3, <1>5, <1>6
  <2>2. Behind(Unparsed, d)[i] = IF i <= Len(rest) THEN buf[i + d] ELSE wire[i - Len(rest)]
    BY <1>7, <1>8, <2>1
  <2>3. (rest \o wire)[i] = IF i <= Len(rest) THEN rest[i] ELSE wire[i - Len(rest)]
    BY <1>6, <2>1
  <2> QED
    BY <1>5, <2>1, <2>2, <2>3
<1>11. rest \o wire = Behind(Unparsed, d)
  BY <1>6, <1>8, <1>9, <1>10, SeqEqual
<1>12. Unparsed' = rest \o wire
  BY <1>4 DEF Unparsed, rest
<1> QED
  BY <1>1, <1>3, <1>4, <1>5, <1>11, <1>12 DEF rest

\* d words are dropped, and no header among them but those of frames delivered
\* now, and of frames that never were complete nor can become so.
Drops(d) ==
    /\ d \in 0..Len(buf) /\ DropWords(d) /\ UNCHANGED <<card, wire>> /\ got \subseteq got'
    /\ \A y \in got' \ got :
          /\ last # Stream!NoBeat /\ y \in Nat /\ y <= Stream!FrameOf(last)
          /\ \A i \in d + 1..Len(Unparsed) : HeaderAt(Unparsed, i) => y < NumberAt(Unparsed, i)
    /\ \A i \in 1..d : HeaderAt(Unparsed, i) =>
          \/ NumberAt(Unparsed, i) \in got'
          \/ NumberAt(Unparsed, i) \notin complete /\ NumberAt(Unparsed, i) # Stream!FrameOf(last)

LEMMA DropStep ==
    ASSUME StreamInv, NEW d, Drops(d)
    PROVE  StreamInv' /\ (KeptInv => KeptInv')
<1> DEFINE s == Unparsed
           t == Behind(s, d)
<1>1. /\ d \in 0..Len(buf) /\ DropWords(d) /\ UNCHANGED <<last, filled, complete>> /\ UNCHANGED wire
      /\ got \subseteq got'
  BY DEF Drops, card
<1>2. Unparsed' = t /\ d \in 0..Len(s) /\ buf' \in Seq(Word) /\ wire' \in Seq(Word)
  BY <1>1, DroppedUnparsed
<1>3. s \in Seq(Word) /\ Len(s) \in Nat
  BY UnparsedSeq
<1>4. /\ Framed(s) /\ LastIs(s, last) /\ FilledIs(s, filled) /\ CompleteIs(s, complete) /\ Ahead(s) /\ CardOK
  BY DEF StreamInv
<1>5. \A y \in got' \ got :
         /\ last # Stream!NoBeat /\ y \in Nat /\ y <= Stream!FrameOf(last)
         /\ \A i \in d + 1..Len(s) : HeaderAt(s, i) => y < NumberAt(s, i)
  BY DEF Drops
<1>6. \A i \in 1..d : HeaderAt(s, i) =>
         \/ NumberAt(s, i) \in got'
         \/ NumberAt(s, i) \notin complete /\ NumberAt(s, i) # Stream!FrameOf(last)
  BY DEF Drops
<1> HIDE DEF s
<1>7. Framed(t) /\ LastIs(t, last) /\ FilledIs(t, filled) /\ CompleteIs(t, complete) /\ Ahead(t)
  BY <1>2, <1>3, <1>4, StreamBehind
<1>8. Len(t) = Len(s) - d /\ d \in Nat
  BY <1>2, <1>3, BehindAt
<1>9. \A i \in 1..Len(s) - d :
         /\ HeaderAt(t, i) <=> HeaderAt(s, i + d)
         /\ HeaderAt(s, i + d) => NumberAt(t, i) = NumberAt(s, i + d)
  BY <1>2, <1>3, HeaderBehind
<1> HIDE DEF t
<1>10. \A i \in 1..Len(t), y \in got' : HeaderAt(t, i) => y < NumberAt(t, i)
  <2> SUFFICES ASSUME NEW i \in 1..Len(t), NEW y \in got', HeaderAt(t, i) PROVE y < NumberAt(t, i)
    OBVIOUS
  <2>1. CASE y \in got
    BY <1>7, <2>1 DEF Ahead
  <2>2. CASE y \notin got
    <3>1. i \in 1..Len(s) - d /\ i + d \in d + 1..Len(s)
      BY <1>3, <1>8
    <3> QED
      BY <1>5, <1>9, <2>2, <3>1
  <2> QED
    BY <2>1, <2>2
<1>11. CardOK'
  <2>1. \A y \in complete \cup got' : last # Stream!NoBeat /\ y \in Nat /\ y <= Stream!FrameOf(last)
    BY <1>4, <1>5 DEF CardOK
  <2> QED
    BY <1>1, <1>4, <2>1 DEF CardOK
<1>12. StreamInv'
  BY <1>1, <1>2, <1>7, <1>10, <1>11 DEF StreamInv, PlausibleSizes, Ahead
<1>13. ASSUME KeptInv PROVE KeptInv'
  <2> SUFFICES ASSUME NEW n, n \in complete \/ (last # Stream!NoBeat /\ n = Stream!FrameOf(last))
               PROVE  n \in got' \/ HasHeader(t, n)
    BY <1>1, <1>2 DEF KeptInv
  <2>1. n \in got \/ HasHeader(s, n)
    BY <1>13 DEF KeptInv, s
  <2>2. CASE n \in got
    BY <1>1, <2>2
  <2>3. CASE HasHeader(s, n)
    <3>1. PICK i \in 1..Len(s) : HeaderAt(s, i) /\ NumberAt(s, i) = n
      BY <2>3 DEF HasHeader
    <3>2. CASE i <= d
      BY <1>6, <3>1, <3>2
    <3>3. CASE i > d
      <4>1. i - d \in 1..Len(s) - d /\ i - d \in 1..Len(t) /\ (i - d) + d = i
        BY <1>3, <1>8, <3>3
      <4>2. HeaderAt(t, i - d) /\ NumberAt(t, i - d) = n
        BY <1>9, <3>1, <4>1
      <4> QED
        BY <4>1, <4>2 DEF HasHeader
    <3>4. i <= d \/ i > d
      BY <1>3, <1>8
    <3> QED
      BY <3>2, <3>3, <3>4
  <2> QED
    BY <2>1, <2>2, <2>3
<1> QED
  BY <1>12, <1>13

-----------------------------------------------------------------------------
(* What the parser finds in its buffer *)

LEMMA LeastNat ==
    ASSUME NEW T, T \subseteq Nat, T # {}
    PROVE  \E x \in T : \A y \in T : x <= y
<1> DEFINE R == OpToRel(<, Nat)
<1>1. IsWellFoundedOn(R, Nat)
  BY NatLessThanWellFounded
<1>2. R = {ss \in Nat \X Nat : ss[1] < ss[2]}
  BY DEF OpToRel
<1> HIDE DEF R
<1>3. PICK x \in T : \A y \in T : ~ (<<y, x>> \in R)
  BY <1>1, WFMin
<1>4. ASSUME NEW y \in T PROVE x <= y
  <2>1. ~ (<<y, x>> \in R) /\ x \in Nat /\ y \in Nat
    BY <1>3
  <2>2. ~ (y < x)
    BY <1>2, <2>1
  <2> QED
    BY <2>1, <2>2
<1> QED
  BY <1>4

LEMMA MinTells ==
    ASSUME NEW T, T \subseteq Nat, T # {}
    PROVE  Min(T) \in T /\ \A y \in T : Min(T) <= y
  BY LeastNat DEF Min

\* The buffer is the front of what has not been parsed.
LEMMA InBuffer ==
    ASSUME StreamInv
    PROVE  /\ Len(buf) \in Nat /\ buf \in Seq(Word)
           /\ \A i \in 1..Len(buf) : Unparsed[i] = buf[i] /\ i \in 1..Len(Unparsed)
           /\ \A i \in 1..Len(buf) - 1 : /\ HeaderAt(Unparsed, i) <=> IsHeaderAt(i)
                                         /\ Unparsed[i + 1] = buf[i + 1]
<1>1. buf \in Seq(Word) /\ wire \in Seq(Word) /\ Len(buf) \in Nat /\ Len(wire) \in Nat
  BY LenProperties DEF StreamInv
<1>2. Len(Unparsed) \in Nat /\ Len(Unparsed) = Len(buf) + Len(wire)
  BY UnparsedSeq
<1>3. \A i \in 1..Len(buf) + Len(wire) : Unparsed[i] = IF i <= Len(buf) THEN buf[i] ELSE wire[i - Len(buf)]
  BY <1>1, ConcatProperties DEF Unparsed
<1>4. \A i \in 1..Len(buf) : Unparsed[i] = buf[i] /\ i \in 1..Len(Unparsed)
  BY <1>1, <1>2, <1>3
<1>5. ASSUME NEW i \in 1..Len(buf) - 1
      PROVE  (HeaderAt(Unparsed, i) <=> IsHeaderAt(i)) /\ Unparsed[i + 1] = buf[i + 1]
  <2>1. i \in 1..Len(buf) /\ i + 1 \in 1..Len(buf) /\ i \in 1..Len(Unparsed) - 1
    BY <1>1, <1>2
  <2>2. Unparsed[i] = buf[i] /\ Unparsed[i + 1] = buf[i + 1]
    BY <1>4, <2>1
  <2> QED
    BY <2>1, <2>2 DEF HeaderAt, IsHeaderAt
<1> QED
  BY <1>1, <1>4, <1>5

\* _find_header finds the first header of which the whole beat is there.
LEMMA FoundTells ==
    ASSUME StreamInv, NEW start \in Nat \ {0}
    PROVE  /\ Found(start) = 0 =>
                 \A i \in start..Len(buf) : i + Lanes - 1 <= Len(buf) => ~HeaderAt(Unparsed, i)
           /\ Found(start) # 0 =>
                 /\ Found(start) \in start..Len(buf) /\ Found(start) + Lanes - 1 <= Len(buf)
                 /\ HeaderAt(Unparsed, Found(start))
                 /\ \A i \in start..Found(start) - 1 : ~HeaderAt(Unparsed, i)
<1> DEFINE good == {i \in Magics(start) : IsHeaderAt(i)}
<1>1. /\ Len(buf) \in Nat /\ Lanes \in Nat /\ Lanes > 1
      /\ \A i \in 1..Len(buf) - 1 : HeaderAt(Unparsed, i) <=> IsHeaderAt(i)
  BY InBuffer, LanesNat
<1>2. Found(start) = IF good = {} THEN 0 ELSE Min(good)
  BY DEF Found
<1>3. \A i : i \in good <=> i \in start..Len(buf) /\ buf[i] = Magic /\ i + Lanes - 1 <= Len(buf) /\ IsHeaderAt(i)
  BY DEF Magics
<1> HIDE DEF good
<1>4. ASSUME NEW i \in start..Len(buf), i + Lanes - 1 <= Len(buf)
      PROVE  i \in good <=> HeaderAt(Unparsed, i)
  <2>1. i \in 1..Len(buf) - 1
    BY <1>1, <1>4
  <2> QED
    BY <1>1, <1>3, <1>4, <2>1 DEF IsHeaderAt
<1>5. CASE good = {}
  BY <1>2, <1>4, <1>5
<1>6. CASE good # {}
  <2>1. good \subseteq Nat
    BY <1>1, <1>3
  <2>2. Found(start) \in good /\ \A y \in good : Found(start) <= y
    BY <1>2, <1>6, <2>1, MinTells
  <2>3. Found(start) \in start..Len(buf) /\ Found(start) + Lanes - 1 <= Len(buf)
    BY <1>3, <2>2
  <2>4. HeaderAt(Unparsed, Found(start))
    BY <1>4, <2>2, <2>3
  <2> DEFINE F == Found(start)
  <2> HIDE DEF F
  <2>5. F \in start..Len(buf) /\ F + Lanes - 1 <= Len(buf) /\ \A y \in good : F <= y
    BY <2>2, <2>3 DEF F
  <2>6. ASSUME NEW i \in start..F - 1, HeaderAt(Unparsed, i) PROVE FALSE
    <3>1. i \in start..Len(buf) /\ i + Lanes - 1 <= Len(buf) /\ i < F /\ i \in Nat /\ F \in Nat
      BY <1>1, <2>5
    <3>2. i \in good
      BY <1>4, <2>6, <3>1
    <3> QED
      BY <2>5, <3>1, <3>2
  <2>7. Found(start) # 0
    BY <2>3
  <2> QED
    BY <2>3, <2>4, <2>6, <2>7 DEF F
<1> QED
  BY <1>5, <1>6

-----------------------------------------------------------------------------
(* The parser's steps *)

LEMMA FeedStep ==
    ASSUME StreamInv, NEW k \in 1..Len(wire), Feed(k)
    PROVE  StreamInv' /\ (KeptInv => KeptInv')
<1>1. buf \in Seq(Word) /\ wire \in Seq(Word) /\ Len(wire) \in Nat /\ k \in Nat /\ k <= Len(wire)
  BY LenProperties DEF StreamInv
<1> DEFINE x == SubSeq(wire, 1, k)
           y == SubSeq(wire, k + 1, Len(wire))
<1>2. x \in Seq(Word) /\ Len(x) = k /\ \A i \in 1..k : x[i] = wire[i]
  <2>1. \A i \in 1..k : wire[i] \in Word
    BY <1>1, ElementOfSeq
  <2>2. x \in Seq(Word) /\ Len(x) = IF 1 <= k THEN k - 1 + 1 ELSE 0
    BY <1>1, <2>1, SubSeqProperties
  <2>3. ASSUME NEW i \in 1..k PROVE x[i] = wire[i]
    <3>1. x[i] = wire[1 + i - 1]
      BY <1>1, SubSeqProperties
    <3> QED
      BY <1>1, <3>1
  <2> QED
    BY <1>1, <2>2, <2>3
<1>3. y \in Seq(Word) /\ Len(y) = Len(wire) - k /\ \A i \in 1..Len(wire) - k : y[i] = wire[i + k]
  <2>1. k \in 0..Len(wire) /\ y = Behind(wire, k)
    BY <1>1 DEF Behind
  <2> QED
    BY <1>1, <2>1, BehindAt
<1>4. buf' = buf \o x /\ wire' = y /\ UNCHANGED <<last, filled, complete, got>>
  BY DEF Feed, card
<1> HIDE DEF x, y
<1>5. x \o y = wire
  <2>0. x \in Seq(Word) /\ y \in Seq(Word)
    BY <1>2, <1>3
  <2>1. /\ x \o y \in Seq(Word) /\ Len(x \o y) = Len(x) + Len(y)
        /\ \A i \in 1..Len(x) + Len(y) : (x \o y)[i] = IF i <= Len(x) THEN x[i] ELSE y[i - Len(x)]
    BY <2>0, ConcatProperties
  <2>2. Len(x \o y) = Len(wire)
    BY <1>1, <1>2, <1>3, <2>1
  <2>3. ASSUME NEW i \in 1..Len(x \o y) PROVE (x \o y)[i] = wire[i]
    <3>1. i \in 1..Len(x) + Len(y)
      BY <2>1
    <3>2. CASE i <= k
      BY <1>1, <1>2, <2>1, <3>1, <3>2
    <3>3. CASE ~(i <= k)
      <4>1. i - k \in 1..Len(wire) - k /\ (i - k) + k = i
        BY <1>1, <2>2, <3>3
      <4> QED
        BY <1>2, <1>3, <2>1, <3>1, <3>3, <4>1
    <3> QED
      BY <3>2, <3>3
  <2> QED
    BY <1>1, <2>1, <2>2, <2>3, SeqEqual
<1>6. (buf \o x) \o y = buf \o (x \o y)
  BY <1>1, <1>2, <1>3, ConcatTwice
<1>7. Unparsed' = Unparsed
  BY <1>4, <1>5, <1>6 DEF Unparsed
<1>8. buf' \in Seq(Word) /\ wire' \in Seq(Word)
  BY <1>1, <1>2, <1>3, <1>4, ConcatProperties
<1>9. StreamInv'
  BY <1>4, <1>7, <1>8 DEF StreamInv, CardOK, Ahead, PlausibleSizes
<1>10. KeptInv => KeptInv'
  BY <1>4, <1>7 DEF KeptInv
<1> QED
  BY <1>9, <1>10

\* Headers stand a whole number of beats apart.
LEMMA Aligned ==
    ASSUME NEW s \in Seq(Word), Framed(s), HeaderAt(s, 1), NEW i \in 1..Len(s), HeaderAt(s, i)
    PROVE  /\ i = 1 \/ i >= Lanes + 1
           /\ \A q \in Nat : i <= Lanes * q => i + Lanes - 1 <= Lanes * q
<1>1. Len(s) \in Nat /\ Lanes \in Nat /\ Lanes > 1 /\ 1 \in 1..Len(s)
  BY LenProperties, LanesNat
<1>2. PICK m \in Nat : Len(s) = (1 - 1) + Lanes * m
  BY <1>1 DEF Framed
<1>3. PICK r \in Nat : Len(s) = (i - 1) + Lanes * r
  BY DEF Framed
<1> DEFINE c == m - r
<1>4. c \in Int /\ i - 1 = Lanes * c
  BY <1>1, <1>2, <1>3
<1> HIDE DEF c
<1>5. c \in Nat
  <2> SUFFICES ASSUME c <= -1 PROVE FALSE
    BY <1>4
  <2>1. Lanes * c <= -Lanes
    BY <1>1, <1>4
  <2> QED
    BY <1>1, <1>4, <2>1
<1>6. c = 0 \/ Lanes * c >= Lanes
  <2>1. ASSUME c >= 1 PROVE Lanes * c >= Lanes * 1
    BY <1>1, <1>5, <2>1
  <2> QED
    BY <1>1, <1>5, <2>1
<1>7. i = 1 \/ i >= Lanes + 1
  BY <1>1, <1>4, <1>6
<1>8. ASSUME NEW q \in Nat, i <= Lanes * q PROVE i + Lanes - 1 <= Lanes * q
  <2>1. Lanes * c < Lanes * q
    BY <1>1, <1>4, <1>5, <1>8
  <2>2. c < q
    <3> SUFFICES ASSUME q <= c PROVE FALSE
      BY <1>5
    <3>1. Lanes * q <= Lanes * c
      BY <1>1, <1>5
    <3>2. Lanes * q \in Nat /\ Lanes * c \in Nat
      BY <1>1, <1>5
    <3> QED
      BY <2>1, <3>1, <3>2
  <2>3. Lanes * (c + 1) <= Lanes * q
    BY <1>1, <1>5, <2>2
  <2>4. Lanes * (c + 1) = Lanes * c + Lanes
    BY <1>1, <1>5
  <2>5. Lanes * q \in Nat /\ Lanes * c \in Nat
    BY <1>1, <1>5
  <2> QED
    BY <1>1, <1>4, <2>3, <2>4, <2>5
<1> QED
  BY <1>7, <1>8

\* The header at the front of the buffer, and the frame it announces.
LEMMA AtFront ==
    ASSUME StreamInv, Plausible
    PROVE  /\ Unparsed \in Seq(Word) /\ 1 \in 1..Len(Unparsed) /\ Len(buf) >= Lanes
           /\ HeaderAt(Unparsed, 1) /\ NumberAt(Unparsed, 1) = buf[2][4] /\ buf[2][4] \in Nat
           /\ Width \in Nat /\ Height \in Nat
           /\ EndAt(Unparsed, 1) = Need(Width, Height) /\ Need(Width, Height) \in Nat
           /\ Beats(Width, Height) \in Nat /\ Need(Width, Height) = Lanes * (Beats(Width, Height) + 1)
           /\ Width * Height \in Nat /\ Lanes + Width * Height <= Need(Width, Height)
<1>1. Len(buf) >= Lanes /\ IsHeaderAt(1) /\ Len(buf) \in Nat /\ Lanes \in Nat /\ Lanes > 1
  BY InBuffer, LanesNat DEF Plausible, AtHeader
<1>2. 1 \in 1..Len(buf) - 1 /\ 1 \in 1..Len(buf) /\ 1 + 1 = 2
  BY <1>1
<1>3. Unparsed \in Seq(Word) /\ 1 \in 1..Len(Unparsed) /\ HeaderAt(Unparsed, 1) /\ Unparsed[2] = buf[2]
  BY <1>1, <1>2, InBuffer, UnparsedSeq
<1>4. /\ Unparsed[1 + 1][2] \in Nat /\ Unparsed[1 + 1][3] \in Nat
      /\ NumberAt(Unparsed, 1) \in Nat /\ EndAt(Unparsed, 1) \in Nat
  BY <1>3, HeaderFields
<1>5. Width \in Nat /\ Height \in Nat /\ NumberAt(Unparsed, 1) = buf[2][4] /\ buf[2][4] \in Nat
  BY <1>3, <1>4 DEF Width, Height, NumberAt
<1>6. /\ Beats(Width, Height) \in Nat /\ Need(Width, Height) = Lanes * (Beats(Width, Height) + 1)
      /\ Need(Width, Height) \in Nat /\ Width * Height <= Lanes * Beats(Width, Height)
  BY <1>5, NeedNat
<1>7. EndAt(Unparsed, 1) = (1 - 1) + Need(Width, Height)
  BY <1>3 DEF EndAt, Width, Height
<1>8. Width * Height \in Nat
  BY <1>5
<1>9. Lanes + Width * Height <= Need(Width, Height)
  <2> DEFINE z == Width * Height
             q == Beats(Width, Height)
  <2>1. z \in Nat /\ q \in Nat /\ z <= Lanes * q /\ Lanes * q \in Nat
    BY <1>1, <1>6, <1>8
  <2> HIDE DEF z, q
  <2>2. Lanes + z <= Lanes * (q + 1)
    BY <1>1, <2>1
  <2> QED
    BY <1>6, <2>2 DEF z, q
<1> QED
  BY <1>1, <1>3, <1>4, <1>5, <1>6, <1>7, <1>8, <1>9

LEMMA SearchStep ==
    ASSUME StreamInv, Search
    PROVE  StreamInv' /\ (KeptInv => KeptInv')
<1> DEFINE i == Found(1)
           n == IF i # 0 THEN i - 1 ELSE Len(buf) - kept
<1>1. DropWords(n) /\ UNCHANGED <<card, wire, got>>
  BY DEF Search
<1>2. Len(buf) \in Nat /\ Lanes \in Nat /\ Lanes > 1
  BY InBuffer, LanesNat
<1>3. /\ i = 0 => \A j \in 1..Len(buf) : j + Lanes - 1 <= Len(buf) => ~HeaderAt(Unparsed, j)
      /\ i # 0 => i \in 1..Len(buf) /\ \A j \in 1..i - 1 : ~HeaderAt(Unparsed, j)
  BY FoundTells
<1> HIDE DEF i
<1>4. n \in 0..Len(buf) /\ \A j \in 1..n : ~HeaderAt(Unparsed, j)
  <2>1. CASE i # 0
    BY <1>2, <1>3, <2>1
  <2>2. CASE i = 0 /\ Len(buf) < Lanes
    BY <1>2, <2>2 DEF kept
  <2>3. CASE i = 0 /\ Len(buf) >= Lanes
    <3>1. n = Len(buf) - (Lanes - 1)
      <4>1. n = Len(buf) - kept
        BY <2>3
      <4>2. kept = Lanes - 1
        BY <1>2, <2>3 DEF kept
      <4> QED
        BY <4>1, <4>2
    <3>2. \A j \in 1..n : j \in 1..Len(buf) /\ j + Lanes - 1 <= Len(buf)
      BY <1>2, <2>3, <3>1
    <3> QED
      BY <1>2, <1>3, <2>3, <3>1, <3>2
  <2> QED
    BY <1>2, <2>1, <2>2, <2>3
<1> HIDE DEF n
<1>5. Drops(n)
  BY <1>1, <1>4 DEF Drops
<1> QED
  BY <1>5, DropStep

LEMMA BadHeaderStep ==
    ASSUME StreamInv, BadHeader
    PROVE  StreamInv' /\ (KeptInv => KeptInv')
<1>1. DropWords(1) /\ UNCHANGED <<card, wire, got>> /\ Len(buf) >= Lanes /\ ~IsHeaderAt(1)
  BY DEF BadHeader, AtHeader
<1>2. Len(buf) \in Nat /\ Lanes \in Nat /\ Lanes > 1
  BY InBuffer, LanesNat
<1>3. 1 \in 0..Len(buf) /\ 1 \in 1..Len(buf) - 1
  BY <1>1, <1>2
<1>4. ~HeaderAt(Unparsed, 1)
  BY <1>1, <1>3, InBuffer
<1>5. Drops(1)
  BY <1>1, <1>3, <1>4 DEF Drops
<1> QED
  BY <1>5, DropStep

\* No header stands in the rest of the beat of another.
LEMMA FirstBehind ==
    ASSUME StreamInv, Plausible, NEW c \in Nat,
           \A i \in Lanes + 1..c : ~HeaderAt(Unparsed, i)
    PROVE  \A i \in 2..c : i \in 1..Len(Unparsed) => ~HeaderAt(Unparsed, i)
<1> SUFFICES ASSUME NEW i \in 2..c, i \in 1..Len(Unparsed), HeaderAt(Unparsed, i) PROVE FALSE
  OBVIOUS
<1>1. i = 1 \/ i >= Lanes + 1
  BY AtFront, Aligned DEF StreamInv
<1>2. i \in Lanes + 1..c
  BY <1>1, LanesNat
<1> QED
  BY <1>2

\* The frame at the front was cut short by the header found: it was never
\* complete, and a newer one has been begun.
LEMMA CutShortStep ==
    ASSUME StreamInv, CutShort
    PROVE  StreamInv' /\ (KeptInv => KeptInv')
<1> DEFINE c == CutAt
           s == Unparsed
           need == Need(Width, Height)
<1>1. Plausible /\ Len(buf) >= need /\ c # 0 /\ DropWords(c - 1) /\ UNCHANGED <<card, wire, got>>
  BY DEF CutShort, Whole
<1>2. Len(buf) \in Nat /\ Lanes \in Nat /\ Lanes > 1
  BY InBuffer, LanesNat
<1>3. /\ s \in Seq(Word) /\ 1 \in 1..Len(s) /\ HeaderAt(s, 1) /\ NumberAt(s, 1) \in Nat
      /\ EndAt(s, 1) = need /\ need \in Nat
  BY <1>1, AtFront
<1>4. c = Found(Lanes + 1) /\ c \in 1..need
  BY <1>1 DEF CutAt
<1>5. c \in Lanes + 1..Len(buf) /\ HeaderAt(s, c) /\ \A i \in Lanes + 1..c - 1 : ~HeaderAt(s, i)
  <2>1. Lanes + 1 \in Nat \ {0} /\ Found(Lanes + 1) # 0
    BY <1>1, <1>2, <1>4
  <2> QED
    BY <1>4, <2>1, FoundTells
<1> HIDE DEF c, need
<1>6. c \in Nat /\ c - 1 \in Nat /\ c - 1 \in 0..Len(buf) /\ c \in 1..Len(buf) /\ c > 1
  BY <1>2, <1>5
<1>7. \A i \in 2..c - 1 : i \in 1..Len(s) => ~HeaderAt(s, i)
  BY <1>1, <1>5, <1>6, FirstBehind
<1>8. c \in 1..Len(s) /\ c \in 2..need
  BY <1>4, <1>6, InBuffer
<1>9. s[c] = Magic
  BY <1>5 DEF HeaderAt
<1>10. Framed(s) /\ LastIs(s, last) /\ CompleteIs(s, complete)
  BY DEF StreamInv
<1>11. NumberAt(s, 1) \notin complete
  <2> SUFFICES ASSUME NumberAt(s, 1) \in complete PROVE FALSE
    OBVIOUS
  <2>1. NoMagic(s, 1 + 1, need)
    BY <1>3, <1>10 DEF CompleteIs
  <2> QED
    BY <1>8, <1>9, <2>1 DEF NoMagic
<1>12. NumberAt(s, 1) # Stream!FrameOf(last)
  <2>1. Len(s) \in Nat
    BY <1>3, LenProperties
  <2>2. c \in 1 + 1..Len(s)
    BY <1>6, <1>8, <2>1
  <2>3. NumberAt(s, 1) < NumberAt(s, c)
    BY <1>3, <1>9, <1>10, <2>2 DEF Framed
  <2>4. NumberAt(s, c) <= Stream!FrameOf(last) /\ last # Stream!NoBeat
    BY <1>5, <1>8, <1>10 DEF LastIs
  <2>5. NumberAt(s, c) \in Nat
    BY <1>3, <1>5, <1>8, HeaderFields
  <2> QED
    BY <1>3, <2>3, <2>4, <2>5
<1>13. ASSUME NEW i \in 1..c - 1, HeaderAt(s, i) PROVE i = 1
  <2>1. i = 1 \/ i \in 2..c - 1
    BY <1>6
  <2>2. i \in 1..Len(s)
    <3>1. i \in 1..Len(buf)
      BY <1>2, <1>6
    <3> QED
      BY <3>1, InBuffer
  <2> QED
    BY <1>7, <1>13, <2>1, <2>2
<1>14. Drops(c - 1)
  <2>1. c - 1 \in 0..Len(buf) /\ DropWords(c - 1) /\ UNCHANGED <<card, wire>> /\ got' = got
    BY <1>1, <1>6 DEF c
  <2>2. \A i \in 1..c - 1 : HeaderAt(s, i) => NumberAt(s, i) \notin complete /\ NumberAt(s, i) # Stream!FrameOf(last)
    BY <1>11, <1>12, <1>13
  <2> QED
    BY <2>1, <2>2 DEF Drops
<1> QED
  BY <1>14, DropStep

\* Once the payload was searched in vain, the words of the frame hold no magic.
LEMMA NothingInside ==
    ASSUME StreamInv, Whole, CutAt = 0
    PROVE  /\ \A i \in 2..Need(Width, Height) : ~HeaderAt(Unparsed, i)
           /\ NoMagic(Unparsed, 2, Need(Width, Height))
           /\ Need(Width, Height) \in 0..Len(buf)
<1> DEFINE s == Unparsed
           need == Need(Width, Height)
           beats == Beats(Width, Height)
           j == Found(Lanes + 1)
<1>1. /\ Len(buf) \in Nat /\ Lanes \in Nat /\ Lanes > 1
      /\ \A i \in 1..Len(buf) : i \in 1..Len(s)
  BY InBuffer, LanesNat
<1>2. Plausible /\ Len(buf) >= need
  BY DEF Whole
<1>3. /\ s \in Seq(Word) /\ 1 \in 1..Len(s) /\ HeaderAt(s, 1)
      /\ need \in Nat /\ beats \in Nat /\ need = Lanes * (beats + 1)
  BY <1>2, AtFront
<1>4. /\ j = 0 => \A i \in Lanes + 1..Len(buf) : i + Lanes - 1 <= Len(buf) => ~HeaderAt(s, i)
      /\ j # 0 => j \in Lanes + 1..Len(buf) /\ \A i \in Lanes + 1..j - 1 : ~HeaderAt(s, i)
  <2>1. Lanes + 1 \in Nat \ {0}
    BY <1>1
  <2> QED
    BY <2>1, FoundTells
<1>5. j \notin 1..need \/ j = 0
  BY DEF CutAt
<1>6. Framed(s)
  BY DEF StreamInv
<1> HIDE DEF s, need, beats, j
<1>7. need \in 0..Len(buf)
  BY <1>1, <1>2, <1>3
<1>8. ASSUME NEW i \in 2..need, HeaderAt(s, i) PROVE FALSE
  <2>1. i \in 1..Len(s) /\ beats + 1 \in Nat /\ i <= Lanes * (beats + 1)
    BY <1>1, <1>2, <1>3
  <2>2. i = 1 \/ i >= Lanes + 1
    BY <1>3, <1>6, <1>8, <2>1, Aligned
  <2>3. i + Lanes - 1 <= need
    BY <1>3, <1>6, <1>8, <2>1, Aligned
  <2>4. i \in Lanes + 1..Len(buf) /\ i + Lanes - 1 <= Len(buf)
    BY <1>1, <1>2, <1>3, <2>2, <2>3
  <2>5. j # 0 /\ j > need
    BY <1>1, <1>3, <1>4, <1>5, <1>8, <2>4
  <2>6. i \in Lanes + 1..j - 1
    BY <1>1, <1>3, <1>4, <2>4, <2>5
  <2> QED
    BY <1>4, <1>8, <2>5, <2>6
<1>9. NoMagic(s, 2, need)
  <2> SUFFICES ASSUME NEW i \in 2..need, s[i] = Magic PROVE FALSE
    BY DEF NoMagic
  <2>1. i \in 1 + 1..Len(s)
    <3>1. i \in 1..Len(buf)
      BY <1>1, <1>2, <1>3
    <3> QED
      BY <1>1, <3>1
  <2> QED
    BY <1>3, <1>6, <1>8, <2>1 DEF Framed
<1> QED
  BY <1>7, <1>8, <1>9 DEF s, need

LEMMA DeliverStep ==
    ASSUME StreamInv, Deliver
    PROVE  StreamInv' /\ (KeptInv => KeptInv')
<1> DEFINE s == Unparsed
           need == Need(Width, Height)
           n == NumberAt(Unparsed, 1)
<1>1. Whole /\ CutAt = 0 /\ Plausible /\ DropWords(need) /\ UNCHANGED <<card, wire>>
  BY DEF Deliver, Whole
<1>2. got' = got \cup {n}
  BY <1>1, AtFront DEF Deliver, Frame
<1>3. s \in Seq(Word) /\ 1 \in 1..Len(s) /\ HeaderAt(s, 1) /\ n \in Nat /\ Len(s) \in Nat /\ need \in Nat
  BY <1>1, AtFront, UnparsedSeq
<1>4. need \in 0..Len(buf) /\ \A i \in 2..need : ~HeaderAt(s, i)
  BY <1>1, NothingInside
<1>5. last # Stream!NoBeat /\ n <= Stream!FrameOf(last)
  BY <1>3 DEF StreamInv, LastIs
<1> HIDE DEF need
<1>6. ASSUME NEW i \in need + 1..Len(s), HeaderAt(s, i) PROVE i = 1 \/ n < NumberAt(s, i)
  <2>1. i = 1 \/ i \in 1 + 1..Len(s)
    BY <1>3
  <2>2. s[i] = Magic
    BY <1>6 DEF HeaderAt
  <2> QED
    BY <1>3, <2>1, <2>2 DEF StreamInv, Framed
<1>7. need >= 1
  <2>1. need = Lanes * (Beats(Width, Height) + 1) /\ Beats(Width, Height) \in Nat
    BY <1>1, AtFront DEF need
  <2> DEFINE q == Beats(Width, Height)
  <2>2. q \in Nat /\ need = Lanes * (q + 1)
    BY <2>1
  <2> HIDE DEF q
  <2> QED
    BY <2>2, LanesNat
<1>8. \A i \in 1..need : HeaderAt(s, i) => NumberAt(s, i) \in got'
  <2>1. \A i \in 1..need : i = 1 \/ i \in 2..need
    BY <1>3
  <2> QED
    BY <1>2, <1>4, <2>1
<1>9. \A i \in need + 1..Len(s) : HeaderAt(s, i) => n < NumberAt(s, i)
  <2>1. \A i \in need + 1..Len(s) : i # 1
    BY <1>3, <1>7
  <2> QED
    BY <1>6, <2>1
<1>10. Drops(need)
  <2>1. \A y \in got' \ got : y = n
    BY <1>2
  <2>2. got \subseteq got' /\ DropWords(need)
    BY <1>1, <1>2 DEF need
  <2> QED
    BY <1>1, <1>3, <1>4, <1>5, <1>8, <1>9, <2>1, <2>2 DEF Drops
<1> QED
  BY <1>10, DropStep

\* The frame delivered is what stands behind its header.
LEMMA DeliverUnmixed ==
    ASSUME StreamInv, Deliver
    PROVE  NoMix'
<1> DEFINE s == Unparsed
           size == Width * Height
           need == Need(Width, Height)
           px == SubSeq(buf, Lanes + 1, Lanes + size)
<1>1. Whole /\ CutAt = 0 /\ Plausible
  BY DEF Deliver, Whole
<1>2. shown'.frame = NumberAt(s, 1) /\ shown'.pixels = px
  BY <1>1, AtFront DEF Deliver, Frame
<1>3. /\ s \in Seq(Word) /\ 1 \in 1..Len(s) /\ HeaderAt(s, 1)
      /\ need \in Nat /\ size \in Nat /\ Lanes + size <= need
  BY <1>1, AtFront
<1>4. NoMagic(s, 2, need) /\ need \in 0..Len(buf)
  BY <1>1, NothingInside
<1>5. /\ Len(buf) \in Nat /\ buf \in Seq(Word) /\ Lanes \in Nat /\ Lanes > 1
      /\ \A i \in 1..Len(buf) : s[i] = buf[i] /\ i \in 1..Len(s)
  BY InBuffer, LanesNat
<1> HIDE DEF s, size, need
<1>6. Len(px) = size /\ DOMAIN px = 1..size /\ \A i \in 1..size : px[i] = s[Lanes + i]
  <2>1. \A i \in Lanes + 1..Lanes + size : i \in 1..Len(buf) /\ buf[i] \in Word
    <3> SUFFICES ASSUME NEW i \in Lanes + 1..Lanes + size PROVE i \in 1..Len(buf) /\ buf[i] \in Word
      OBVIOUS
    <3>1. i \in 1..Len(buf)
      BY <1>3, <1>4, <1>5
    <3> QED
      BY <1>5, <3>1, ElementOfSeq
  <2>2. Len(px) = IF Lanes + 1 <= Lanes + size THEN (Lanes + size) - (Lanes + 1) + 1 ELSE 0
    BY <1>3, <1>5, <2>1, SubSeqProperties
  <2>3. px \in Seq(Word)
    BY <1>3, <1>5, <2>1, SubSeqProperties
  <2>4. Len(px) = size
    BY <1>3, <1>5, <2>2
  <2>5. DOMAIN px = 1..size
    BY <2>3, <2>4, LenProperties
  <2>6. ASSUME NEW i \in 1..size PROVE px[i] = s[Lanes + i]
    <3>1. px[i] = buf[Lanes + 1 + i - 1]
      <4>1. i \in 1..(Lanes + size) - (Lanes + 1) + 1
        BY <1>3, <1>5
      <4> QED
        BY <1>3, <1>5, <2>1, <4>1, SubSeqProperties
    <3>2. Lanes + 1 + i - 1 = Lanes + i /\ Lanes + i \in 1..Len(buf)
      BY <1>3, <1>4, <1>5
    <3> QED
      BY <1>5, <3>1, <3>2
  <2> QED
    BY <2>4, <2>5, <2>6
<1> HIDE DEF px
<1>7. ASSUME NEW j \in Lanes + 1..need PROVE Segment(s, 1, j)
  <2>1. j \in 1..Len(buf)
    BY <1>3, <1>4, <1>5
  <2>2. j \in 1 + 1..Len(s)
    BY <1>5, <2>1
  <2>3. NoMagic(s, 1 + 1, j)
    <3>1. \A k \in 1 + 1..j : k \in 2..need
      BY <1>3, <1>5
    <3> QED
      BY <1>4, <3>1 DEF NoMagic
  <2> QED
    BY <1>3, <2>2, <2>3 DEF StreamInv, Framed, s
<1>8. ASSUME NEW i \in 1..size, px[i] # Pad
      PROVE  /\ px[i][1] = "px" /\ px[i][2] = NumberAt(s, 1)
             /\ IF i = 1 THEN px[i][3] = <<0, 0>>
                ELSE px[i - 1] # Pad /\ Stream!Follows(px[i - 1][3], px[i][3])
  <2>1. /\ Lanes + i \in Lanes + 1..need /\ Lanes + i >= 1 + Lanes
        /\ (Lanes + i = 1 + Lanes <=> i = 1) /\ (Lanes + i) - 1 = Lanes + (i - 1)
        /\ (i # 1 => i - 1 \in 1..size)
    BY <1>3, <1>5
  <2>2. Segment(s, 1, Lanes + i)
    BY <1>7, <2>1
  <2>3. px[i] = s[Lanes + i] /\ (i # 1 => px[i - 1] = s[Lanes + (i - 1)])
    BY <1>6, <2>1
  <2> QED
    BY <1>8, <2>1, <2>2, <2>3 DEF Segment
<1>9. \A i \in DOMAIN px : px[i] # Pad =>
          /\ px[i][1] = "px" /\ px[i][2] = NumberAt(s, 1)
          /\ IF i = 1 THEN px[i][3] = <<0, 0>>
             ELSE px[i - 1] # Pad /\ Stream!Follows(px[i - 1][3], px[i][3])
  BY <1>6, <1>8
<1> QED
  BY <1>2, <1>9 DEF NoMix

-----------------------------------------------------------------------------
(* The theorems *)

LEMMA StreamNext == StreamInv /\ [Next]_vars => StreamInv' /\ (KeptInv => KeptInv') /\ (NoMix => NoMix')
<1> SUFFICES ASSUME StreamInv, [Next]_vars
             PROVE  StreamInv' /\ (KeptInv => KeptInv') /\ (NoMix => NoMix')
  OBVIOUS
<1> DEFINE Quiet == UNCHANGED shown
<1>1. UNCHANGED shown => (NoMix => NoMix')
  BY DEF NoMix
<1>2. CASE \E b \in NextHeaders \cup NextPixels : Emit(b)
  <2>1. PICK b \in NextHeaders \cup NextPixels : Emit(b)
    BY <1>2
  <2>2. UNCHANGED shown
    BY <2>1 DEF Emit
  <2>3. CASE b \in NextHeaders
    BY <1>1, <2>1, <2>2, <2>3, EmitHeader
  <2>4. CASE b \in NextPixels
    BY <1>1, <2>1, <2>2, <2>4, EmitPixels
  <2> QED
    BY <2>3, <2>4
<1>3. CASE \E k \in 1..Len(wire) : Feed(k)
  <2>1. PICK k \in 1..Len(wire) : Feed(k)
    BY <1>3
  <2>2. UNCHANGED shown
    BY <2>1 DEF Feed
  <2> QED
    BY <1>1, <2>1, <2>2, FeedStep
<1>4. CASE Search
  <2>1. UNCHANGED shown
    BY <1>4 DEF Search
  <2> QED
    BY <1>1, <1>4, <2>1, SearchStep
<1>5. CASE NeedMore
  <2>1. UNCHANGED <<card, wire, buf, got, shown>>
    BY <1>5 DEF NeedMore
  <2>2. StreamInv'
    BY <2>1 DEF StreamInv, Unparsed, CardOK, Ahead, card, PlausibleSizes
  <2>3. KeptInv => KeptInv'
    BY <2>1 DEF KeptInv, Unparsed, card
  <2> QED
    BY <1>1, <2>1, <2>2, <2>3
<1>6. CASE BadHeader
  <2>1. UNCHANGED shown
    BY <1>6 DEF BadHeader
  <2> QED
    BY <1>1, <1>6, <2>1, BadHeaderStep
<1>7. CASE CutShort
  <2>1. UNCHANGED shown
    BY <1>7 DEF CutShort
  <2> QED
    BY <1>1, <1>7, <2>1, CutShortStep
<1>8. CASE Deliver
  BY <1>8, DeliverStep, DeliverUnmixed
<1>9. CASE UNCHANGED vars
  <2>1. UNCHANGED <<card, wire, buf, got, shown>>
    BY <1>9 DEF vars
  <2>2. StreamInv'
    BY <2>1 DEF StreamInv, Unparsed, CardOK, Ahead, card, PlausibleSizes
  <2>3. KeptInv => KeptInv'
    BY <2>1 DEF KeptInv, Unparsed, card
  <2> QED
    BY <1>1, <2>1, <2>2, <2>3
<1> QED
  BY <1>2, <1>3, <1>4, <1>5, <1>6, <1>7, <1>8, <1>9 DEF Next, Parse

LEMMA StreamAlways == PlausibleSizes /\ Spec => [](StreamInv /\ KeptInv /\ NoMix)
<1>1. Init /\ PlausibleSizes => StreamInv /\ KeptInv
  BY StreamInit
<1>2. Init => NoMix
  BY DEF Init, NoMix
<1>3. StreamInv /\ KeptInv /\ NoMix /\ [Next]_vars => (StreamInv /\ KeptInv /\ NoMix)'
  BY StreamNext
<1> QED
  BY <1>1, <1>2, <1>3, PTL DEF Spec

\* Whatever the chunks, and however frames were lost, cut short or announced
\* with a size that is not theirs: a frame the parser delivers holds pixels of
\* no other frame, in the order in which they were shown (_next of stream.py).
THEOREM FramesAreNotMixed == PlausibleSizes /\ Spec => []NoMix
  BY StreamAlways, PTL

\* A header in the stream is in the buffer or on the wire.
LEMMA HeaderHeld ==
    ASSUME StreamInv, NEW n, HasHeader(Unparsed, n)
    PROVE  HoldsHeaderOf(n, buf) \/ HoldsHeaderOf(n, wire)
<1>1. buf \in Seq(Word) /\ wire \in Seq(Word) /\ Len(buf) \in Nat /\ Len(wire) \in Nat
  BY LenProperties DEF StreamInv
<1>2. Len(Unparsed) = Len(buf) + Len(wire)
  BY UnparsedSeq
<1>3. \A i \in 1..Len(buf) + Len(wire) : Unparsed[i] = IF i <= Len(buf) THEN buf[i] ELSE wire[i - Len(buf)]
  BY <1>1, ConcatProperties DEF Unparsed
<1>4. DOMAIN buf = 1..Len(buf) /\ DOMAIN wire = 1..Len(wire)
  BY <1>1, LenProperties
<1>5. PICK i \in 1..Len(Unparsed) : HeaderAt(Unparsed, i) /\ NumberAt(Unparsed, i) = n
  BY DEF HasHeader
<1> DEFINE k == i + 1
<1>6. /\ k \in 1..Len(buf) + Len(wire) /\ Unparsed[k][1] = "info" /\ Unparsed[k][4] = n
      /\ i \in 1..Len(Unparsed) - 1
  BY <1>1, <1>2, <1>5 DEF HeaderAt, NumberAt
<1> HIDE DEF k
<1>7. CASE k <= Len(buf)
  <2>1. k \in DOMAIN buf /\ Unparsed[k] = buf[k]
    BY <1>1, <1>3, <1>4, <1>6, <1>7
  <2> QED
    BY <1>6, <2>1 DEF HoldsHeaderOf
<1>8. CASE ~(k <= Len(buf))
  <2>1. k - Len(buf) \in DOMAIN wire /\ Unparsed[k] = wire[k - Len(buf)]
    BY <1>1, <1>3, <1>4, <1>6, <1>8
  <2> QED
    BY <1>6, <2>1 DEF HoldsHeaderOf
<1> QED
  BY <1>7, <1>8

\* A frame that the card sent whole, under a plausible header, is not thrown
\* away with what the parser skips: it is delivered or still to be parsed.
THEOREM CompleteFramesAreKept == PlausibleSizes /\ Spec => []NoneLost
<1>1. StreamInv /\ KeptInv => NoneLost
  BY HeaderHeld DEF KeptInv, NoneLost
<1> QED
  BY <1>1, StreamAlways, PTL

-----------------------------------------------------------------------------
(* Between chunks *)

\* When frames() has returned, there is less than a header in the buffer, or
\* less than the frame that the header at its front announces.
IdleInv == ~busy => Len(buf) < Lanes \/ (IsHeaderAt(1) /\ Len(buf) < Need(Width, Height))

LEMMA IdleInit == Init => IdleInv
<1> SUFFICES ASSUME Init PROVE Len(buf) < Lanes
  BY DEF IdleInv
<1>1. buf = <<>>
  BY DEF Init
<1> QED
  BY <1>1, LanesNat

LEMMA IdleNext == StreamInv /\ IdleInv /\ [Next]_vars => IdleInv'
<1> SUFFICES ASSUME StreamInv, IdleInv, [Next]_vars, ~busy'
             PROVE  Len(buf') < Lanes \/ (IsHeaderAt(1)' /\ Len(buf') < Need(Width, Height)')
  BY DEF IdleInv
<1>1. CASE UNCHANGED <<buf, busy>>
  BY <1>1 DEF IdleInv, IsHeaderAt, header_ok, Width, Height
<1>2. CASE Search
  <2> DEFINE d == Len(buf) - kept
  <2>1. Len(buf) \in Nat /\ Lanes \in Nat /\ Lanes > 1
    BY InBuffer, LanesNat
  <2>2. DropWords(d) /\ UNCHANGED wire
    BY <1>2 DEF Search
  <2>3. kept \in 0..Len(buf) /\ kept < Lanes
    BY <2>1 DEF kept
  <2>4. d \in 0..Len(buf) /\ Len(buf) - d = kept
    BY <2>1, <2>3
  <2> HIDE DEF d
  <2>5. buf' = Behind(buf, d) /\ buf \in Seq(Word)
    BY <2>2, <2>4, DroppedUnparsed DEF StreamInv
  <2>6. Len(buf') = kept
    BY <2>4, <2>5, BehindAt
  <2> QED
    BY <2>3, <2>6
<1>3. CASE NeedMore
  <2>1. UNCHANGED buf
    BY <1>3 DEF NeedMore
  <2>2. Len(buf) \in Nat /\ Lanes \in Nat
    BY InBuffer, LanesNat
  <2>3. CASE Len(buf) < Lanes
    BY <2>1, <2>3
  <2>4. CASE Plausible /\ ~Whole
    <3>1. IsHeaderAt(1) /\ ~(Len(buf) >= Need(Width, Height)) /\ Need(Width, Height) \in Nat
      BY <2>4, AtFront DEF Plausible, Whole
    <3>2. Len(buf) < Need(Width, Height)
      BY <2>2, <3>1
    <3>3. IsHeaderAt(1)' /\ Need(Width, Height)' = Need(Width, Height)
      BY <2>1, <3>1 DEF IsHeaderAt, header_ok, Width, Height
    <3> QED
      BY <2>1, <3>2, <3>3
  <2> QED
    BY <1>3, <2>3, <2>4 DEF NeedMore
<1>4. ~(BadHeader \/ CutShort \/ Deliver)
  BY DEF BadHeader, CutShort, Deliver, Whole, Plausible, AtHeader
<1>5. ASSUME NEW k \in 1..Len(wire), Feed(k) PROVE FALSE
  BY <1>5 DEF Feed
<1>6. ASSUME NEW b, Emit(b) PROVE UNCHANGED <<buf, busy>>
  BY <1>6 DEF Emit
<1> QED
  BY <1>1, <1>2, <1>3, <1>4, <1>5, <1>6 DEF Next, Parse, vars

\* A frame that just became complete is not waited for: when everything sent was
\* fed and parsed it has been delivered, unless it stands behind a frame that
\* announced more pixels than it has.
THEOREM DeliveredAtOnce == PlausibleSizes /\ Spec => []Prompt
<1>1. StreamInv /\ KeptInv /\ IdleInv => Prompt
  <2> DEFINE s == Unparsed
             n == Stream!FrameOf(last)
  <2> SUFFICES ASSUME StreamInv, KeptInv, IdleInv,
                      ~busy, wire = <<>>, last # Stream!NoBeat, n \in complete, n \notin got
               PROVE  IsHeaderAt(1) /\ buf[2][4] < n /\ Need(Width, Height) > Len(buf)
    BY DEF Prompt
  <2>1. HasHeader(s, n)
    BY DEF KeptInv
  <2>2. PICK i \in 1..Len(s) : HeaderAt(s, i) /\ NumberAt(s, i) = n
    BY <2>1 DEF HasHeader
  <2>3. buf \in Seq(Word) /\ Len(buf) \in Nat /\ Lanes \in Nat /\ Lanes > 1
    BY InBuffer, LanesNat
  <2>4. s = buf
    BY <2>3, ConcatEmptySeq DEF Unparsed
  <2>5. Len(s) >= EndAt(s, i) /\ NoMagic(s, i + 1, EndAt(s, i))
    BY <2>2 DEF StreamInv, CompleteIs
  <2>6. Len(buf) >= Lanes
    <3>1. s[i + 1][2] \in Nat /\ s[i + 1][3] \in Nat /\ EndAt(s, i) \in Nat
      BY <2>2, <2>3, <2>4, HeaderFields
    <3> DEFINE q == Beats(s[i + 1][2], s[i + 1][3])
               z == Need(s[i + 1][2], s[i + 1][3])
    <3>2. q \in Nat /\ z = Lanes * (q + 1) /\ z \in Nat
      BY <3>1, NeedNat
    <3>3. EndAt(s, i) = (i - 1) + z
      BY DEF EndAt
    <3> HIDE DEF q, z
    <3>4. z >= Lanes
      BY <2>3, <3>2
    <3>5. i - 1 >= 0 /\ i \in Nat
      BY <2>2
    <3> QED
      BY <2>3, <2>4, <2>5, <3>2, <3>3, <3>4, <3>5
  <2>7. IsHeaderAt(1) /\ Len(buf) < Need(Width, Height)
    BY <2>3, <2>6 DEF IdleInv
  <2>8. 1 \in 1..Len(buf) - 1 /\ 1 \in 1..Len(s)
    BY <2>3, <2>4, <2>6
  <2>9. HeaderAt(s, 1) /\ NumberAt(s, 1) = buf[2][4] /\ EndAt(s, 1) = (1 - 1) + Need(Width, Height)
    BY <2>4, <2>7, <2>8 DEF HeaderAt, IsHeaderAt, NumberAt, EndAt, Width, Height
  <2>10. Need(Width, Height) \in Nat
    <3>1. s[1 + 1][2] \in Nat /\ s[1 + 1][3] \in Nat
      BY <2>3, <2>4, <2>8, <2>9, HeaderFields
    <3>2. Width \in Nat /\ Height \in Nat
      BY <2>4, <3>1 DEF Width, Height
    <3> QED
      BY <3>2, NeedNat
  <2>11. i # 1
    BY <2>3, <2>4, <2>5, <2>7, <2>9, <2>10
  <2>12. i \in 1 + 1..Len(s) /\ s[i] = Magic
    BY <2>2, <2>11 DEF HeaderAt
  <2>13. NumberAt(s, 1) < NumberAt(s, i)
    BY <2>8, <2>9, <2>12 DEF StreamInv, Framed
  <2> QED
    BY <2>2, <2>3, <2>7, <2>9, <2>10, <2>13
<1>2. Init => IdleInv
  BY IdleInit
<1>3. StreamInv /\ IdleInv /\ [Next]_vars => IdleInv'
  BY IdleNext
<1> QED
  BY <1>1, <1>2, <1>3, StreamAlways, PTL DEF Spec

-----------------------------------------------------------------------------
(* What is counted *)

\* In a session the card shows at most half as many frames as its numbers can
\* tell apart: _next takes a larger gap for numbers that run backwards.
NumbersApart == MaxFrames <= NumMod \div 2

\* Every frame from the oldest delivered to the newest is delivered or dropped.
CountInv ==
    /\ NumbersApart
    /\ frames \in Nat /\ dropped \in Nat
    /\ last # Stream!NoBeat => Stream!FrameOf(last) <= MaxFrames
    /\ got = {} => last_number = <<>> /\ frames = 0 /\ dropped = 0
    /\ got # {} => \E lo, hi \in got :
                      /\ \A y \in got : lo <= y /\ y <= hi
                      /\ last_number = <<OnWire(hi)>>
                      /\ frames + dropped = (hi - lo) + 1

LEMMA ModIs ==
    ASSUME NEW m \in Nat \ {0}, NEW k \in Int, NEW d \in 0..m - 1, NEW x \in Nat, x = m * k + d
    PROVE  x % m = d
<1> DEFINE q == x \div m
           r == x % m
<1>1. q \in Nat /\ r \in 0..m - 1 /\ x = m * q + r
  OBVIOUS
<1> HIDE DEF q, r
<1>2. m * (q - k) = d - r
  BY <1>1
<1> DEFINE e == q - k
<1>3. e \in Int /\ m * e = d - r
  BY <1>1, <1>2
<1> HIDE DEF e
<1>4. e >= 1 => m * e >= m
  <2> SUFFICES ASSUME e >= 1 PROVE m * e >= m
    OBVIOUS
  <2>1. m * e >= m * 1
    BY <1>3
  <2> QED
    BY <2>1
<1>5. e <= -1 => m * e <= -m
  <2> SUFFICES ASSUME e <= -1 PROVE m * e <= -m
    OBVIOUS
  <2>1. m * e <= m * (-1)
    BY <1>3
  <2> QED
    BY <2>1
<1>6. e = 0
  BY <1>1, <1>3, <1>4, <1>5
<1>7. m * 0 = 0
  OBVIOUS
<1>8. d = r
  BY <1>1, <1>3, <1>6, <1>7
<1> QED
  BY <1>8 DEF r

\* The distance of two numbers, taken modulo their width.
LEMMA GapIs ==
    ASSUME NEW m \in Nat \ {0}, NEW a \in Nat, NEW b \in Nat, a < b, (b - a) - 1 < m
    PROVE  ((b % m) + m - (a % m) - 1) % m = (b - a) - 1
<1> DEFINE q1 == b \div m
           r1 == b % m
           q2 == a \div m
           r2 == a % m
           d == (b - a) - 1
           x == r1 + m - r2 - 1
           k == (q2 - q1) + 1
<1>1. q1 \in Nat /\ r1 \in 0..m - 1 /\ b = m * q1 + r1
  OBVIOUS
<1>2. q2 \in Nat /\ r2 \in 0..m - 1 /\ a = m * q2 + r2
  OBVIOUS
<1>3. d \in 0..m - 1
  OBVIOUS
<1> HIDE DEF q1, r1, q2, r2
<1>4. x \in Nat /\ k \in Int
  BY <1>1, <1>2
<1>5. m * k = m * q2 - m * q1 + m
  BY <1>1, <1>2
<1>6. x = m * k + d
  BY <1>1, <1>2, <1>5
<1> HIDE DEF x, k, d
<1>7. x % m = d
  BY <1>3, <1>4, <1>6, ModIs
<1> QED
  BY <1>7 DEF x, d, r1, r2

LEMMA CountDelivered ==
    ASSUME StreamInv, CountInv, Deliver
    PROVE  CountInv'
<1> DEFINE n == NumberAt(Unparsed, 1)
<1>1. Plausible
  BY DEF Deliver, Whole
<1>2. /\ Unparsed \in Seq(Word) /\ 1 \in 1..Len(Unparsed) /\ HeaderAt(Unparsed, 1)
      /\ n = buf[2][4] /\ n \in Nat
  BY <1>1, AtFront
<1>3. got' = got \cup {n} /\ last_number' = <<OnWire(n)>> /\ frames' = frames + 1 /\ dropped' = dropped + Gap
      /\ UNCHANGED last
  BY <1>2 DEF Deliver, Frame, number, card
<1>4. last # Stream!NoBeat /\ n <= Stream!FrameOf(last) /\ Stream!FrameOf(last) \in Nat
  BY <1>2 DEF StreamInv, LastIs, CardOK
<1>5. n <= MaxFrames /\ MaxFrames \in Nat /\ NumMod \in Nat \ {0} /\ FirstNumber \in Nat
  BY <1>2, <1>4, ParserAssumption DEF CountInv
<1>6. got \subseteq Nat /\ \A y \in got : y < n
  BY <1>2 DEF StreamInv, CardOK, Ahead
<1>7. number = OnWire(n)
  BY <1>2 DEF number
<1> HIDE DEF n
<1>10. MaxFrames <= NumMod \div 2
  BY DEF CountInv, NumbersApart
<1>8. CASE got = {}
  <2>1. last_number = <<>> /\ frames = 0 /\ dropped = 0
    BY <1>8 DEF CountInv
  <2>2. Gap = 0
    BY <2>1 DEF Gap
  <2>3. got' = {n} /\ frames' = 1 /\ dropped' = 0
    BY <1>3, <1>8, <2>1, <2>2
  <2>4. frames' + dropped' = (n - n) + 1 /\ n <= n
    BY <1>2, <2>3
  <2>5. \E lo, hi \in got' : /\ \A y \in got' : lo <= y /\ y <= hi
                             /\ last_number' = <<OnWire(hi)>>
                             /\ frames' + dropped' = (hi - lo) + 1
    BY <1>3, <2>3, <2>4
  <2> QED
    BY <1>3, <2>3, <2>5 DEF CountInv, OnWire, NumbersApart
<1>9. CASE got # {}
  <2>1. PICK lo \in got, hi \in got : /\ \A y \in got : lo <= y /\ y <= hi
                                      /\ last_number = <<OnWire(hi)>>
                                      /\ frames + dropped = (hi - lo) + 1
    BY <1>9 DEF CountInv
  <2>2. lo \in Nat /\ hi \in Nat /\ lo <= hi /\ hi < n /\ lo < n
    BY <1>6, <2>1
  <2> DEFINE gap == (number + NumMod - last_number[1] - 1) % NumMod
  <2>3. last_number # <<>> /\ last_number[1] = OnWire(hi)
    BY <2>1
  <2>4. gap = (n - hi) - 1
    <3> DEFINE a == FirstNumber + hi
               b == FirstNumber + n
    <3>0. NumMod \div 2 \in Nat /\ NumMod \div 2 <= NumMod /\ (n - hi) - 1 < NumMod \div 2
      BY <1>2, <1>5, <1>10, <2>2
    <3>1. a \in Nat /\ b \in Nat /\ a < b /\ (b - a) - 1 = (n - hi) - 1 /\ (b - a) - 1 < NumMod
      <4>1. FirstNumber \in Nat /\ hi \in Nat /\ n \in Nat /\ hi < n
        BY <1>2, <1>5, <2>2
      <4>2. a \in Nat /\ b \in Nat /\ a < b
        BY <4>1
      <4>3. (b - a) - 1 = (n - hi) - 1
        BY <4>1
      <4>4. (n - hi) - 1 < NumMod
        BY <1>5, <3>0, <4>1
      <4> QED
        BY <4>2, <4>3, <4>4
    <3>2. gap = ((b % NumMod) + NumMod - (a % NumMod) - 1) % NumMod
      BY <1>7, <2>3 DEF OnWire
    <3> HIDE DEF a, b, gap
    <3> QED
      BY <1>5, <3>1, <3>2, GapIs
  <2>5. gap < NumMod \div 2
    BY <1>2, <1>5, <1>10, <2>2, <2>4
  <2>6. Gap = gap
    BY <2>3, <2>5 DEF Gap
  <2> HIDE DEF gap
  <2>7. frames \in Nat /\ dropped \in Nat
    BY DEF CountInv
  <2>8. frames' \in Nat /\ dropped' \in Nat /\ frames' + dropped' = (n - lo) + 1
    <3>1. dropped' = dropped + ((n - hi) - 1) /\ frames' = frames + 1
      BY <1>3, <2>4, <2>6
    <3>2. frames + dropped = (hi - lo) + 1
      BY <2>1
    <3>3. lo \in Nat /\ hi \in Nat /\ n \in Nat /\ hi < n /\ lo <= hi
      BY <1>2, <2>2
    <3>4. (n - hi) - 1 \in Nat
      BY <3>3
    <3>5. frames' \in Nat /\ dropped' \in Nat
      BY <2>7, <3>1, <3>4
    <3>6. frames' + dropped' = (n - lo) + 1
      BY <2>7, <3>1, <3>2, <3>3
    <3> QED
      BY <3>5, <3>6
  <2>9. lo \in got' /\ n \in got' /\ \A y \in got' : lo <= y /\ y <= n
    <3>1. ASSUME NEW y \in got' PROVE lo <= y /\ y <= n
      <4>1. CASE y \in got
        BY <1>2, <1>6, <2>1, <2>2, <4>1
      <4>2. CASE y = n
        BY <1>2, <2>2, <4>2
      <4> QED
        BY <1>3, <3>1, <4>1, <4>2
    <3> QED
      BY <1>3, <3>1
  <2>10. \E x, z \in got' : /\ \A y \in got' : x <= y /\ y <= z
                            /\ last_number' = <<OnWire(z)>>
                            /\ frames' + dropped' = (z - x) + 1
    BY <1>3, <2>8, <2>9
  <2>11. /\ last' # Stream!NoBeat => Stream!FrameOf(last') <= MaxFrames
         /\ got' # {}
    BY <1>3, <2>9 DEF CountInv
  <2> QED
    BY <2>8, <2>10, <2>11 DEF CountInv, OnWire, NumbersApart
<1> QED
  BY <1>8, <1>9

LEMMA CountNext == StreamInv /\ CountInv /\ [Next]_vars => CountInv'
<1> SUFFICES ASSUME StreamInv, CountInv, [Next]_vars PROVE CountInv'
  OBVIOUS
<1> DEFINE Newest == last' # Stream!NoBeat => Stream!FrameOf(last') <= MaxFrames
           counted == <<frames, dropped, last_number, got>>
<1>1. Newest /\ UNCHANGED counted => CountInv'
  BY DEF CountInv, OnWire, NumbersApart
<1>2. UNCHANGED last => Newest
  BY DEF CountInv
<1> HIDE DEF Newest
<1>3. CASE \E b \in NextHeaders \cup NextPixels : Emit(b)
  <2>1. PICK b \in NextHeaders \cup NextPixels : Emit(b)
    BY <1>3
  <2>2. UNCHANGED counted /\ last' = b
    BY <2>1 DEF Emit, stats
  <2>3. Stream!FrameOf(b) <= MaxFrames
    <3>1. CASE b \in NextHeaders
      <4>1. PICK sz \in Sizes, k \in 1..MaxFrames : b = Stream!Header(sz[1], sz[2], k)
        BY <3>1 DEF NextHeaders
      <4>2. Stream!FrameOf(b) = k
        BY <4>1 DEF Stream!Header, Stream!FrameOf, Stream!IsHeader
      <4> QED
        BY <4>1, <4>2, ParserAssumption
    <3>2. CASE b \in NextPixels
      <4>1. last # Stream!NoBeat
        BY <3>2, PixelsNext
      <4>2. PICK m \in 1..Lanes : \E ps \in [1..m -> Nat \X Nat] : b = Stream!Pixels(Stream!FrameOf(last), ps)
        BY <3>2, PixelsNext
      <4>3. Stream!FrameOf(b) = Stream!FrameOf(last)
        BY <4>2 DEF Stream!Pixels, Stream!FrameOf, Stream!IsHeader
      <4> QED
        BY <4>1, <4>3 DEF CountInv
    <3> QED
      BY <3>1, <3>2
  <2> QED
    BY <1>1, <2>2, <2>3 DEF Newest
<1>4. CASE \E k \in 1..Len(wire) : Feed(k)
  BY <1>1, <1>2, <1>4 DEF Feed, stats, card
<1>5. CASE Search
  BY <1>1, <1>2, <1>5 DEF Search, stats, card
<1>6. CASE NeedMore
  BY <1>1, <1>2, <1>6 DEF NeedMore, stats, card
<1>7. CASE BadHeader
  BY <1>1, <1>2, <1>7 DEF BadHeader, stats, card
<1>8. CASE CutShort
  BY <1>1, <1>2, <1>8 DEF CutShort, stats, card
<1>9. CASE Deliver
  BY <1>9, CountDelivered
<1>10. CASE UNCHANGED vars
  BY <1>1, <1>2, <1>10 DEF vars, stats, card
<1> QED
  BY <1>3, <1>4, <1>5, <1>6, <1>7, <1>8, <1>9, <1>10 DEF Next, Parse

\* The statistics the viewer shows are right over any session: no frame between
\* the first delivered and the last is forgotten or counted twice, wherever the
\* numbers wrap (the gap computed in _next of stream.py).
THEOREM CountsAddUp == PlausibleSizes /\ NumbersApart /\ Spec => []StatsAddUp
<1>1. StreamInv /\ CountInv => StatsAddUp
  <2> SUFFICES ASSUME StreamInv, CountInv, got # {}
               PROVE  frames + dropped = Max(got) - Min(got) + 1
    BY DEF StatsAddUp
  <2>1. PICK lo \in got, hi \in got : /\ \A y \in got : lo <= y /\ y <= hi
                                      /\ frames + dropped = (hi - lo) + 1
    BY DEF CountInv
  <2>2. got \subseteq Nat
    BY DEF StreamInv, CardOK
  <2>3. Max(got) = hi
    <3>1. \A y \in got : hi >= y
      BY <2>1, <2>2
    <3>2. Max(got) \in got /\ \A y \in got : Max(got) >= y
      BY <3>1 DEF Max
    <3>3. Max(got) >= hi /\ hi >= Max(got) /\ hi \in Nat /\ Max(got) \in Nat
      BY <2>2, <3>1, <3>2
    <3> QED
      BY <3>3
  <2>4. Min(got) = lo
    <3>1. Min(got) \in got /\ \A y \in got : Min(got) <= y
      BY <2>1, <2>2, MinTells
    <3>2. Min(got) <= lo /\ lo <= Min(got) /\ lo \in Nat /\ Min(got) \in Nat
      BY <2>1, <2>2, <3>1
    <3> QED
      BY <3>2
  <2> QED
    BY <2>1, <2>3, <2>4
<1>2. NumbersApart /\ Init => CountInv
  BY DEF Init, CountInv
<1>3. StreamInv /\ CountInv /\ [Next]_vars => CountInv'
  BY CountNext
<1> QED
  BY <1>1, <1>2, <1>3, StreamAlways, PTL DEF Spec
=============================================================================
