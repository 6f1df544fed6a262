----------------------------- MODULE DmaRing_proofs -----------------------------
(***************************************************************************)
(* For every ring and every test pattern: the transport touches the shared *)
(* writer only while it holds the lock, and gives both back; its counts    *)
(* (TransferInv) and the places of the beats in the ring (PlacesInv) make  *)
(* the k-th read return the k-th buffer; and source, ring and frametest    *)
(* follow one run of the pattern (TestInv), so that the verdict is true.   *)
(***************************************************************************)
EXTENDS DmaRing, TLAPS

\* Where the transport has the device open and owns the lock.
Owning == {"locked", "mapped", "stopped"} \cup Reading

\* The lock is the transport's exactly where it thinks so; after a failure, the
\* open device tells whether it is.
LockInv ==
    /\ pc \in {"new", "opened", "raised", "closed"} \cup Owning
    /\ fd <=> pc = "opened" \/ pc \in Owning \/ (pc = "raised" /\ lock = "me")
    /\ lock = "me" <=> pc \in Owning \/ (pc = "raised" /\ fd)
    /\ lock \in {"none", "me", "other"}
    /\ fd \in BOOLEAN

\* The writer runs under a lock, and always under that of another program.
WriterInv ==
    /\ writer \in BOOLEAN
    /\ lock = "none" => ~writer
    /\ lock = "other" => writer
    /\ pc = "stopped" => ~writer

OwnerInv == LockInv /\ WriterInv

LEMMA OwnerInit == Init => OwnerInv
  BY DEF Init, OwnerInv, LockInv, WriterInv, Owning, Reading

\* No step of the card, of the other program or of the transport disturbs it.
LEMMA OwnerStep == OwnerInv /\ [Next]_vars => OwnerInv'
<1> SUFFICES ASSUME OwnerInv, [Next]_vars PROVE OwnerInv'
  OBVIOUS
<1> USE DEF OwnerInv, LockInv, WriterInv, Owning, Reading, driver, counts, history, test, source
<1>1. CASE SetEnable \/ Emit \/ Interrupt
  BY <1>1 DEF SetEnable, Emit, Interrupt
<1>2. CASE OtherTakes \/ OtherLeaves
  <2>1. lock \in {"none", "other"} /\ lock' \in {"none", "other"} /\ pc' = pc /\ fd' = fd
    BY <1>2 DEF OtherTakes, OtherLeaves
  <2>2. LockInv' /\ pc # "stopped"
    BY <2>1
  <2>3. (lock' = "other" /\ writer' = TRUE) \/ (lock' = "none" /\ writer' = FALSE)
    BY <1>2, Zenon DEF OtherTakes, OtherLeaves, DriverWriter
  <2>4. WriterInv'
    BY <2>1, <2>2, <2>3
  <2> QED
    BY <2>2, <2>4
<1>3. CASE Open
  BY <1>3 DEF Open
<1>4. CASE Lock
  BY <1>4 DEF Lock
<1>5. CASE Map
  BY <1>5 DEF Map
<1>6. CASE Start \/ Refresh
  BY <1>6 DEF Start, Refresh, Writer, DriverWriter
<1>7. CASE Poll \/ HandBack \/ CopyFront \/ CopyBack
  BY <1>7 DEF Poll, HandBack, CopyFront, CopyBack
<1>8. CASE CloseUnopened
  BY <1>8 DEF CloseUnopened
<1>9. CASE StopWriter
  BY <1>9 DEF StopWriter, DriverWriter
<1>10. CASE Release
  BY <1>10 DEF Release
<1>11. CASE UNCHANGED vars
  BY <1>11 DEF vars
<1> QED
  BY <1>1, <1>2, <1>3, <1>4, <1>5, <1>6, <1>7, <1>8, <1>9, <1>10, <1>11 DEF Next, Card, Read, Close

\* The lock and the transport's idea of it agree in every reachable state.
THEOREM OwnerCorrect == Spec => []OwnerInv
<1>1. Init => OwnerInv
  BY OwnerInit
<1>2. OwnerInv /\ [Next]_vars => OwnerInv'
  BY OwnerStep
<1> QED
  BY <1>1, <1>2, PTL DEF Spec

\* Closing leaves the writer stopped and free, however far opening came.
THEOREM ClosingReleases == Spec => []NothingLeftBehind
<1>1. OwnerInv => NothingLeftBehind
  BY DEF OwnerInv, LockInv, WriterInv, Owning, Reading, NothingLeftBehind
<1> QED
  BY <1>1, OwnerCorrect, PTL

\* No call of the transport disturbs a program that holds the lock.
THEOREM OthersKeepTheWriter == Spec => OthersUndisturbed
<1>1. OwnerInv /\ [Next]_vars => (lock = "other" /\ pc' # pc => writer' /\ lock' = "other")
  <2> SUFFICES ASSUME OwnerInv, Next, lock = "other", pc' # pc
               PROVE  writer' /\ lock' = "other"
    BY DEF vars
  <2> USE DEF OwnerInv, LockInv, WriterInv, Owning, Reading, driver
  <2>1. pc \in {"new", "opened"} \/ (pc = "raised" /\ ~fd)
    <3>1. CASE Card
      BY <3>1 DEF Card, SetEnable, Emit, Interrupt, OtherTakes, OtherLeaves
    <3>2. CASE Open \/ Lock \/ Map \/ Start \/ Read \/ Close
      BY <3>2 DEF Open, Lock, Map, Start, Read, Refresh, Poll, HandBack, CopyFront, CopyBack,
                  Close, CloseUnopened, StopWriter, Release
    <3> QED
      BY <3>1, <3>2 DEF Next
  <2>2. Open \/ Lock \/ CloseUnopened
    BY <2>1 DEF Next, Card, SetEnable, Emit, Interrupt, OtherTakes, OtherLeaves, Map, Start,
                Read, Refresh, Poll, HandBack, CopyFront, CopyBack, Close, StopWriter, Release
  <2> QED
    BY <2>2 DEF Open, Lock, CloseUnopened
<1> QED
  BY <1>1, OwnerCorrect, PTL DEF Spec, OthersUndisturbed

-----------------------------------------------------------------------------
(* Arithmetic of the ring *)

LEMMA DivMod ==
    ASSUME NEW b \in Nat \ {0}, NEW n \in Nat
    PROVE  n = b * (n \div b) + (n % b) /\ n % b \in 0..b - 1 /\ n \div b \in Nat
  OBVIOUS

LEMMA ModUnique ==
    ASSUME NEW b \in Nat \ {0}, NEW q \in Nat, NEW r \in 0..b - 1
    PROVE  (b * q + r) % b = r
  OBVIOUS

LEMMA DivUnique ==
    ASSUME NEW b \in Nat \ {0}, NEW q \in Nat, NEW r \in 0..b - 1
    PROVE  (b * q + r) \div b = q
  OBVIOUS

LEMMA ModZero ==
    ASSUME NEW b \in Nat \ {0}, NEW m \in Nat
    PROVE  (2 * (m * b)) % (2 * b) = 0
<1> DEFINE c == 2 * b
<1>1. c \in Nat \ {0} /\ 0 \in 0..c - 1 /\ 2 * (m * b) = c * m + 0
  OBVIOUS
<1> HIDE DEF c
<1>2. (c * m + 0) % c = 0
  BY <1>1, ModUnique
<1> QED
  BY <1>1, <1>2 DEF c

\* Two counts that name the same buffer are some number of rounds apart.
LEMMA ModSame ==
    ASSUME NEW b \in Nat \ {0}, NEW k \in Nat, NEW n \in Nat, k <= n, k % b = n % b
    PROVE  \E m \in Nat : n = k + m * b
<1> DEFINE m == (n \div b) - (k \div b)
<1>1. n = b * (n \div b) + (n % b) /\ k = b * (k \div b) + (k % b) /\ n \div b \in Nat /\ k \div b \in Nat
  BY DivMod
<1>2. n - k = b * (n \div b) - b * (k \div b)
  BY <1>1
<1>3. n - k = b * m
  BY <1>1, <1>2
<1>4. m \in Int /\ m >= 0
  BY <1>1, <1>3
<1> QED
  BY <1>1, <1>3, <1>4

LEMMA ModSucc ==
    ASSUME NEW b \in Nat \ {0}, NEW k \in Nat
    PROVE  ((k % b) + 1) % b = (k + 1) % b
<1> DEFINE q == k \div b
           r == k % b
<1>1. k = b * q + r /\ r \in 0..b - 1 /\ q \in Nat
  BY DivMod
<1> HIDE DEF q, r
<1>2. CASE r + 1 < b
  <2>1. r + 1 \in 0..b - 1 /\ k + 1 = b * q + (r + 1)
    BY <1>1, <1>2
  <2>2. (k + 1) % b = r + 1
    BY <1>1, <2>1, ModUnique
  <2>3. (r + 1) % b = r + 1
    BY <2>1
  <2> QED
    BY <2>2, <2>3 DEF r
<1>3. CASE r + 1 = b
  <2>1. 0 \in 0..b - 1 /\ k + 1 = b * (q + 1) + 0 /\ q + 1 \in Nat
    BY <1>1, <1>3
  <2>2. (k + 1) % b = 0
    BY <1>1, <2>1, ModUnique
  <2>3. (r + 1) % b = 0
    BY <1>3
  <2> QED
    BY <2>2, <2>3 DEF r
<1> QED
  BY <1>1, <1>2, <1>3

-----------------------------------------------------------------------------
(* Counts *)

\* The transport's counts and the driver's: what has been handed back is what
\* was returned and what is still to be copied, and never ahead of the card.
TransferInv ==
    /\ {beats, hw, sw, hw_count, sw_count, avail, copied} \subseteq Nat
    /\ hw <= beats \div 2
    /\ pc \in {"locked", "mapped"} => ~writer
    /\ pc \in {"new", "opened", "locked", "mapped"} => copied = 0 /\ avail = 0 /\ ~blank
    /\ pc \in Reading =>
          /\ writer
          /\ sw = copied + avail /\ sw <= hw /\ hw_count <= hw
          /\ avail > 0 => offset = copied % Buffers
          /\ pc \in {"copy", "copying"} => avail > 0
          /\ pc \in {"poll", "woken"} => avail = 0 /\ sw_count = sw /\ sw_count <= hw_count
          /\ pc = "woken" => hw > sw
          /\ blank => avail = 0
          /\ blank /\ pc = "ready" => hw > sw
          /\ blank /\ pc \in {"poll", "woken"} => hw_count > sw_count

LEMMA TransferInit == Init => TransferInv
  BY DEF Init, TransferInv, Reading

LEMMA CardKeepsTransfer == OwnerInv /\ TransferInv /\ Card => TransferInv'
<1> SUFFICES ASSUME OwnerInv, TransferInv, Card PROVE TransferInv'
  OBVIOUS
<1> USE DEF TransferInv, Reading, counts, driver, history
<1>1. CASE SetEnable
  BY <1>1 DEF SetEnable
<1>2. CASE Emit
  BY <1>2 DEF Emit
<1>3. CASE Interrupt
  BY <1>3 DEF Interrupt
<1>4. CASE OtherTakes \/ OtherLeaves
  <2>1. pc \notin Reading /\ pc \notin {"locked", "mapped"} /\ pc' = pc
    BY <1>4 DEF OtherTakes, OtherLeaves, OwnerInv, LockInv, Owning
  <2>2. {beats', hw', sw'} \subseteq Nat /\ hw' <= beats' \div 2
    BY <1>4 DEF OtherTakes, OtherLeaves, DriverWriter
  <2>3. UNCHANGED <<counts, copied, blank>>
    BY <1>4 DEF OtherTakes, OtherLeaves
  <2> QED
    BY <2>1, <2>2, <2>3
<1> QED
  BY <1>1, <1>2, <1>3, <1>4 DEF Card

LEMMA OpenCloseKeepTransfer ==
    OwnerInv /\ TransferInv /\ (Open \/ Lock \/ Map \/ Start \/ Close) => TransferInv'
<1> SUFFICES ASSUME OwnerInv, TransferInv, Open \/ Lock \/ Map \/ Start \/ Close PROVE TransferInv'
  OBVIOUS
<1> USE DEF TransferInv, Reading, counts, driver, history
<1>1. CASE Open \/ Map
  BY <1>1 DEF Open, Map
<1>2. CASE Lock
  <2>1. UNCHANGED <<beats, hw, sw, writer, counts, copied, blank>> /\ pc' \in {"locked", "raised"} /\ pc = "opened"
    BY <1>2 DEF Lock
  <2>2. pc' = "locked" => ~writer
    BY <1>2 DEF Lock, OwnerInv, WriterInv
  <2> QED
    BY <2>1, <2>2
<1>3. CASE Start
  <2>1. ~writer /\ pc = "mapped" /\ copied = 0 /\ avail = 0 /\ ~blank
    BY <1>3 DEF Start
  <2>2. /\ writer' = TRUE /\ beats' = 0 /\ hw' = 0 /\ sw' = 0 /\ hw_count' = 0 /\ sw_count' = 0
        /\ pc' = "ready" /\ UNCHANGED <<avail, copied, blank>>
    BY <1>3, <2>1 DEF Start, Writer, DriverWriter
  <2> QED
    BY <2>1, <2>2
<1>4. CASE Close
  <2>1. UNCHANGED <<beats, hw, sw, counts, copied, blank>> /\ pc' \in {"stopped", "closed"}
    BY <1>4 DEF Close, CloseUnopened, StopWriter, Release, DriverWriter
  <2> QED
    BY <2>1
<1> QED
  BY <1>1, <1>2, <1>3, <1>4

LEMMA ReadKeepsTransfer == OwnerInv /\ TransferInv /\ Read => TransferInv'
<1> SUFFICES ASSUME OwnerInv, TransferInv, Read PROVE TransferInv'
  OBVIOUS
<1>0. pc \in Reading
  BY DEF Read, Refresh, Poll, HandBack, CopyFront, CopyBack, Reading
<1> USE RingAssumption DEF TransferInv, Reading, counts, driver, history
<1>1. CASE Refresh
  <2>1. writer /\ avail = 0 /\ pc = "ready"
    BY <1>0, <1>1 DEF Refresh
  <2>2. /\ writer' = TRUE /\ UNCHANGED <<beats, hw, sw, avail, offset, copied, blank>>
        /\ hw_count' = hw /\ sw_count' = sw /\ pc' = "poll"
    BY <1>1, <2>1 DEF Refresh, Writer, DriverWriter
  <2> QED
    BY <2>1, <2>2
<1>2. CASE Poll
  BY <1>2 DEF Poll
<1>3. CASE HandBack
  <2>1. /\ pc = "woken" /\ avail' = hw_count - sw_count /\ offset' = sw_count % Buffers
        /\ sw' = sw_count + avail' /\ UNCHANGED <<beats, writer, hw, hw_count, sw_count, copied>>
        /\ pc' \in {"ready", "copy"} /\ (pc' = "ready" <=> avail' = 0)
    BY <1>3 DEF HandBack
  <2>2. blank' <=> avail' = 0
    BY <1>3 DEF HandBack
  <2>3. /\ avail = 0 /\ sw_count = sw /\ sw_count <= hw_count /\ hw > sw /\ sw = copied /\ hw_count <= hw
        /\ {beats, hw, sw, hw_count, sw_count, copied} \subseteq Nat
    BY <1>0, <2>1
  <2>4. avail' \in Nat /\ sw' = hw_count
    BY <2>1, <2>3
  <2> QED
    BY <1>0, <2>1, <2>2, <2>3, <2>4
<1>4. CASE CopyFront
  BY <1>4 DEF CopyFront
<1>5. CASE CopyBack
  <2>1. /\ pc = "copying" /\ avail > 0 /\ avail \in Nat /\ copied \in Nat /\ offset = copied % Buffers
        /\ avail' = avail - 1 /\ copied' = copied + 1 /\ offset' = (offset + 1) % Buffers
        /\ UNCHANGED <<beats, writer, hw, sw, hw_count, sw_count>> /\ pc' = "ready" /\ blank' = FALSE
    BY <1>5 DEF CopyBack
  <2>2. offset' = copied' % Buffers
    BY <2>1, ModSucc
  <2> QED
    BY <1>0, <2>1, <2>2
<1> QED
  BY <1>1, <1>2, <1>3, <1>4, <1>5 DEF Read

LEMMA TransferInvariant == Spec => []TransferInv
<1>1. TransferInv /\ UNCHANGED vars => TransferInv'
  BY DEF TransferInv, vars, Reading, counts, driver, history
<1>2. OwnerInv /\ TransferInv /\ [Next]_vars => TransferInv'
  BY <1>1, CardKeepsTransfer, OpenCloseKeepTransfer, ReadKeepsTransfer DEF Next
<1> QED
  BY <1>2, TransferInit, OwnerCorrect, PTL DEF Spec

\* A woken read finds nothing only when buffers came after the counts were read,
\* and between two of them a buffer is returned.
THEOREM DataFollowsBlank == Spec => BlankThenData
<1>1. OwnerInv /\ TransferInv /\ [Next]_vars =>
        [pc = "woken" /\ pc' = "ready" => hw > hw_count /\ ~blank]_vars
  <2> SUFFICES ASSUME OwnerInv, TransferInv, Next, pc = "woken", pc' = "ready"
               PROVE  hw > hw_count /\ ~blank
    OBVIOUS
  <2>1. HandBack
    BY DEF Next, Card, SetEnable, Emit, Interrupt, OtherTakes, OtherLeaves, Open, Lock, Map, Start,
           Read, Refresh, Poll, CopyFront, CopyBack, Close, CloseUnopened, StopWriter, Release
  <2>2. hw_count = sw_count
    BY <2>1 DEF HandBack, TransferInv, Reading
  <2> QED
    BY <2>2 DEF TransferInv, Reading
<1> QED
  BY <1>1, OwnerCorrect, TransferInvariant, PTL DEF Spec, BlankThenData

-----------------------------------------------------------------------------
(* Places *)

Beat == [beat : Int, word : Int \X Int]

\* The beat in the place of beat n is n, or a beat of a later round.
InPlaceOf(c, n) == \E m \in Nat : c = n + 2 * (m * Buffers) /\ c < beats

\* Every beat since the writer was started is in its place, or overwritten.
PlacesInv ==
    /\ slots \in [Ring -> [Half -> Beat]]
    /\ front \in Beat
    /\ frame_no \in Int /\ idx \in Int
    /\ \A k \in Nat, h \in Half :
          2 * k + h < beats => InPlaceOf(slots[k % Buffers][h].beat, 2 * k + h)
    /\ pc = "copying" => InPlaceOf(front.beat, 2 * copied)

LEMMA PlacesInit == Init => PlacesInv
<1> SUFFICES ASSUME Init PROVE PlacesInv
  OBVIOUS
<1>1. Nothing \in Beat
  BY DEF Nothing, Beat
<1>2. beats = 0 /\ front \in Beat /\ pc = "new" /\ slots \in [Ring -> [Half -> Beat]]
  BY <1>1, RingAssumption DEF Init, Nothing, Beat
<1>3. frame_no \in Int /\ idx \in Int
  BY RingAssumption DEF Init
<1> QED
  BY <1>2, <1>3 DEF PlacesInv, Half

LEMMA EmitKeepsPlaces == TransferInv /\ PlacesInv /\ Emit => PlacesInv'
<1> SUFFICES ASSUME TransferInv, PlacesInv, Emit PROVE PlacesInv'
  OBVIOUS
<1> DEFINE new == [beat |-> beats, word |-> <<frame_no, idx>>]
           K == beats \div 2
           H == beats % 2
<1>1. /\ beats \in Nat /\ beats' = beats + 1 /\ UNCHANGED <<front, pc, copied>>
      /\ slots' = [slots EXCEPT ![K % Buffers][H] = new]
  BY DEF TransferInv, Emit, counts, history
<1>2. new \in Beat /\ new.beat = beats
  BY <1>1 DEF PlacesInv, Beat
<1>3. K \in Nat /\ H \in Half /\ beats = 2 * K + H /\ K % Buffers \in Ring
  BY <1>1, RingAssumption DEF Half, Ring
<1> HIDE DEF new, K, H
<1>4. slots' \in [Ring -> [Half -> Beat]]
  BY <1>1, <1>2, <1>3 DEF PlacesInv
<1>5. frame_no' \in Int /\ idx' \in Int
  BY RingAssumption DEF Emit, Pattern, PlacesInv
<1>6. ASSUME NEW k \in Nat, NEW h \in Half, 2 * k + h < beats'
      PROVE  InPlaceOf(slots[k % Buffers][h].beat, 2 * k + h)'
  <2>1. k % Buffers \in Ring /\ k <= K
    BY <1>1, <1>3, <1>6, RingAssumption DEF Half, Ring
  <2>2. CASE k % Buffers = K % Buffers /\ h = H
    <3>1. slots'[k % Buffers][h].beat = beats
      BY <1>1, <1>2, <1>3, <2>1, <2>2 DEF PlacesInv
    <3>2. PICK m \in Nat : K = k + m * Buffers
      BY <1>3, <2>1, <2>2, ModSame, RingAssumption
    <3>3. beats = (2 * k + h) + 2 * (m * Buffers)
      BY <1>3, <2>2, <3>2, RingAssumption DEF Half
    <3> QED
      BY <1>1, <3>1, <3>3 DEF InPlaceOf
  <2>3. CASE ~(k % Buffers = K % Buffers /\ h = H)
    <3>1. slots'[k % Buffers][h] = slots[k % Buffers][h]
      BY <1>1, <1>3, <2>1, <2>3 DEF PlacesInv
    <3>2. 2 * k + h < beats
      <4>1. h \in {0, 1} /\ H \in {0, 1} /\ k \in Nat /\ K \in Nat /\ 2 * k + h < 2 * K + H + 1
        BY <1>1, <1>3, <1>6 DEF Half
      <4>2. k < K \/ (k = K /\ h # H)
        BY <2>1, <2>3, <4>1
      <4>3. 2 * k + h < 2 * K + H
        BY <4>1, <4>2
      <4> QED
        BY <1>3, <4>3
    <3>3. InPlaceOf(slots[k % Buffers][h].beat, 2 * k + h)
      BY <3>2 DEF PlacesInv
    <3> QED
      BY <1>1, <3>1, <3>3, RingAssumption DEF InPlaceOf, Half
  <2> QED
    BY <2>2, <2>3
<1>7. pc' = "copying" => InPlaceOf(front.beat, 2 * copied)'
  BY <1>1, RingAssumption DEF PlacesInv, TransferInv, InPlaceOf, Beat
<1> QED
  BY <1>1, <1>4, <1>5, <1>6, <1>7 DEF PlacesInv

\* Starting the writer empties the ring; every other step but Emit leaves it.
LEMMA OthersKeepPlaces ==
    OwnerInv /\ TransferInv /\ PlacesInv /\ [Next]_vars /\ ~Emit => PlacesInv'
<1> SUFFICES ASSUME OwnerInv, TransferInv, PlacesInv, [Next]_vars, ~Emit PROVE PlacesInv'
  OBVIOUS
<1> USE DEF driver, counts, history, source, test, Reading
<1>1. CASE Start \/ OtherTakes
  <2>1. /\ UNCHANGED <<slots, front, frame_no, idx>> /\ pc' # "copying"
        /\ beats' = 0 \/ beats' = beats
    BY <1>1 DEF Start, OtherTakes, Writer, DriverWriter, OwnerInv, LockInv, Owning
  <2> QED
    BY <2>1 DEF PlacesInv, InPlaceOf, Half
<1>2. CASE Refresh
  <2>1. UNCHANGED <<slots, front, frame_no, idx, beats>> /\ pc' = "poll"
    BY <1>2 DEF Refresh, Writer, DriverWriter, TransferInv
  <2> QED
    BY <2>1 DEF PlacesInv, InPlaceOf
<1>3. CASE CopyFront
  <2>1. UNCHANGED <<slots, frame_no, idx, beats, copied>> /\ front' = slots[offset][0] /\ pc \in Reading /\ avail > 0
    BY <1>3 DEF CopyFront, TransferInv
  <2>2. /\ offset = copied % Buffers /\ copied < hw /\ copied \in Nat /\ hw \in Nat
        /\ hw <= beats \div 2 /\ beats \in Nat
    BY <2>1 DEF TransferInv
  <2>3. 2 * copied + 0 < beats /\ offset \in Ring
    BY <2>2, RingAssumption DEF Ring
  <2>4. InPlaceOf(slots[offset][0].beat, 2 * copied + 0)
    BY <2>2, <2>3 DEF PlacesInv, Half
  <2>5. InPlaceOf(slots[offset][0].beat, 2 * copied)
    <3>1. 2 * copied + 0 = 2 * copied
      BY <2>2
    <3> QED
      BY <2>4, <3>1
  <2>6. InPlaceOf(front.beat, 2 * copied)'
    BY <2>1, <2>5 DEF InPlaceOf
  <2>7. front' \in Beat
    BY <2>1, <2>3 DEF PlacesInv, Half
  <2> QED
    BY <2>1, <2>6, <2>7 DEF PlacesInv, InPlaceOf
<1>4. CASE CopyBack
  <2>1. UNCHANGED <<slots, frame_no, idx, beats>> /\ front' = Nothing /\ pc' = "ready"
    BY <1>4 DEF CopyBack
  <2>2. front' \in Beat
    BY <2>1 DEF Nothing, Beat
  <2> QED
    BY <2>1, <2>2 DEF PlacesInv, InPlaceOf
<1>5. CASE SetEnable \/ Interrupt \/ UNCHANGED vars
  <2>1. UNCHANGED <<slots, front, frame_no, idx, beats, pc, copied>>
    BY <1>5 DEF SetEnable, Interrupt, vars
  <2> QED
    BY <2>1 DEF PlacesInv, InPlaceOf
<1>6. CASE OtherLeaves \/ Open \/ Lock \/ Map \/ Poll \/ HandBack \/ Close
  <2>1. UNCHANGED <<slots, front, frame_no, idx, beats>> /\ (pc' = "copying" => pc = "copying" /\ copied' = copied)
    BY <1>6 DEF OtherLeaves, DriverWriter, Open, Lock, Map, Poll, HandBack, Close, CloseUnopened, StopWriter, Release
  <2> QED
    BY <2>1 DEF PlacesInv, InPlaceOf
<1> QED
  BY <1>1, <1>2, <1>3, <1>4, <1>5, <1>6 DEF Next, Card, Read

LEMMA PlacesInvariant == Spec => []PlacesInv
<1>1. OwnerInv /\ TransferInv /\ PlacesInv /\ [Next]_vars => PlacesInv'
  BY EmitKeepsPlaces, OthersKeepPlaces
<1> QED
  BY <1>1, PlacesInit, OwnerCorrect, TransferInvariant, PTL DEF Spec

\* What a place of beat n may hold, as the reader sees it.
LEMMA PlaceTells ==
    ASSUME NEW c \in Int, NEW n \in Nat, NEW b \in Nat, NEW m \in Nat,
           c = n + 2 * (m * Buffers), c < b
    PROVE  /\ c >= n /\ (c - n) % (2 * Buffers) = 0
           /\ b <= n + 2 * Buffers => c = n
<1>1. Buffers \in Nat \ {0}
  BY RingAssumption
<1>2. m * Buffers \in Nat /\ c - n = 2 * (m * Buffers)
  BY <1>1
<1>3. c >= n /\ (c - n) % (2 * Buffers) = 0
  BY <1>1, <1>2, ModZero
<1>4. m # 0 => m * Buffers >= Buffers
  BY <1>1
<1>5. b <= n + 2 * Buffers => c = n
  BY <1>1, <1>2, <1>4
<1> QED
  BY <1>3, <1>5

\* The k-th buffer that read() returns is the k-th the card filled, for every
\* size of the ring, unless the card has gone round; then it is one of a later
\* round.
THEOREM ChunksAreRight == Spec => ChunkRight
<1>1. OwnerInv /\ TransferInv /\ PlacesInv /\ [Next]_vars =>
        [copied' # copied =>
           \A h \in Half :
              LET due == 2 * copied + h
              IN  /\ Returned[h] >= due /\ (Returned[h] - due) % (2 * Buffers) = 0
                  /\ beats <= 2 * (copied + Buffers) => Returned[h] = due]_vars
  <2> SUFFICES ASSUME TransferInv, PlacesInv, Next, copied' # copied, NEW h \in Half
               PROVE  /\ Returned[h] >= 2 * copied + h /\ (Returned[h] - (2 * copied + h)) % (2 * Buffers) = 0
                      /\ beats <= 2 * (copied + Buffers) => Returned[h] = 2 * copied + h
    OBVIOUS
  <2>1. CopyBack
    BY DEF Next, Card, SetEnable, Emit, Interrupt, OtherTakes, OtherLeaves, Open, Lock, Map, Start,
           Read, Refresh, Poll, HandBack, CopyFront, Close, CloseUnopened, StopWriter, Release, history
  <2>2. /\ pc = "copying" /\ offset = copied % Buffers /\ copied < hw /\ copied \in Nat /\ hw \in Nat
        /\ hw <= beats \div 2 /\ beats \in Nat /\ Buffers \in Nat \ {0}
    BY <2>1, RingAssumption DEF CopyBack, TransferInv, Reading
  <2>3. 2 * copied + 1 < beats /\ offset \in Ring
    BY <2>2 DEF Ring
  <2>4. InPlaceOf(Returned[h], 2 * copied + h)
    <3>1. CASE h = 0
      <4>1. Returned[h] = front.beat /\ 2 * copied + h = 2 * copied
        BY <2>2, <3>1 DEF Returned, Half
      <4> QED
        BY <2>2, <4>1 DEF PlacesInv
    <3>2. CASE h = 1
      <4>1. Returned[h] = slots[copied % Buffers][1].beat
        BY <2>2, <3>2 DEF Returned, Half
      <4> QED
        BY <2>2, <2>3, <3>2, <4>1 DEF PlacesInv, Half
    <3> QED
      BY <3>1, <3>2 DEF Half
  <2>5. PICK m \in Nat : Returned[h] = (2 * copied + h) + 2 * (m * Buffers) /\ Returned[h] < beats
    BY <2>4 DEF InPlaceOf
  <2>6. 2 * copied + h \in Nat /\ Returned[h] \in Int
    BY <2>2, <2>5 DEF Half
  <2>7. /\ Returned[h] >= 2 * copied + h /\ (Returned[h] - (2 * copied + h)) % (2 * Buffers) = 0
        /\ beats <= (2 * copied + h) + 2 * Buffers => Returned[h] = 2 * copied + h
    <3> DEFINE c == Returned[h]
               n == 2 * copied + h
    <3>1. c \in Int /\ n \in Nat /\ beats \in Nat /\ c = n + 2 * (m * Buffers) /\ c < beats
      BY <2>2, <2>5, <2>6
    <3> HIDE DEF c, n
    <3>2. c >= n /\ (c - n) % (2 * Buffers) = 0 /\ (beats <= n + 2 * Buffers => c = n)
      BY <3>1, PlaceTells
    <3> QED
      BY <3>2 DEF c, n
  <2>8. beats <= 2 * (copied + Buffers) => beats <= (2 * copied + h) + 2 * Buffers
    BY <2>2 DEF Half
  <2> QED
    BY <2>7, <2>8
<1> QED
  BY <1>1, OwnerCorrect, TransferInvariant, PlacesInvariant, PTL DEF Spec, ChunkRight

-----------------------------------------------------------------------------
(* The test pattern *)

\* The n-th word of the pattern, counted from <<0, 0>>.
PatternAt(n) == <<(n \div Npix) % FrameMod, n % Npix>>

LEMMA PatternNext == ASSUME NEW n \in Nat PROVE Expected(PatternAt(n)) = PatternAt(n + 1)
<1> DEFINE q == n \div Npix
           r == n % Npix
<1>0. Npix \in Nat \ {0} /\ FrameMod \in Nat \ {0}
  BY RingAssumption
<1>1. n = Npix * q + r /\ r \in 0..Npix - 1 /\ q \in Nat
  BY <1>0, DivMod
<1>2. PatternAt(n) = <<q % FrameMod, r>>
  BY DEF PatternAt
<1> HIDE DEF q, r
<1>3. CASE r = Npix - 1
  <2>1. n + 1 = Npix * (q + 1) + 0 /\ 0 \in 0..Npix - 1 /\ q + 1 \in Nat
    BY <1>0, <1>1, <1>3
  <2>2. (n + 1) \div Npix = q + 1 /\ (n + 1) % Npix = 0
    BY <1>0, <2>1, DivUnique, ModUnique
  <2>3. ((q % FrameMod) + 1) % FrameMod = (q + 1) % FrameMod
    BY <1>0, <1>1, ModSucc
  <2> QED
    BY <1>2, <1>3, <2>2, <2>3 DEF Expected, PatternAt
<1>4. CASE r # Npix - 1
  <2>1. n + 1 = Npix * q + (r + 1) /\ r + 1 \in 0..Npix - 1
    BY <1>0, <1>1, <1>4
  <2>2. (n + 1) \div Npix = q /\ (n + 1) % Npix = r + 1
    BY <1>0, <1>1, <2>1, DivUnique, ModUnique
  <2> QED
    BY <1>2, <1>4, <2>2 DEF Expected, PatternAt
<1> QED
  BY <1>3, <1>4

\* The pattern repeats after FrameMod frames, not earlier.
LEMMA PatternTells ==
    ASSUME NEW m \in Nat, NEW n \in Nat, m <= n, PatternAt(m) = PatternAt(n), n - m < Npix * FrameMod
    PROVE  m = n
<1> DEFINE p == m \div Npix
           q == n \div Npix
           r == n % Npix
<1>0. Npix \in Nat \ {0} /\ FrameMod \in Nat \ {0}
  BY RingAssumption
<1>1. n = Npix * q + r /\ r \in 0..Npix - 1 /\ q \in Nat
  BY <1>0, DivMod
<1>2. m = Npix * p + (m % Npix) /\ p \in Nat
  BY <1>0, DivMod
<1>3. m % Npix = r /\ p % FrameMod = q % FrameMod
  BY DEF PatternAt
<1> HIDE DEF p, q, r
<1>4. m = Npix * p + r
  BY <1>2, <1>3
<1>5. p <= q
  <2> SUFFICES ASSUME q < p PROVE FALSE
    BY <1>1, <1>2
  <2>1. Npix * q < Npix * p
    BY <1>0, <1>1, <1>2
  <2> QED
    BY <1>0, <1>1, <1>2, <1>4, <2>1
<1>6. PICK j \in Nat : q = p + j * FrameMod
  BY <1>0, <1>1, <1>2, <1>3, <1>5, ModSame
<1>7. n - m = (Npix * FrameMod) * j
  BY <1>0, <1>1, <1>2, <1>4, <1>6
<1>8. j = 0
  <2> DEFINE c == Npix * FrameMod
  <2>1. c \in Nat /\ n - m = c * j /\ n - m < c
    BY <1>0, <1>7
  <2> HIDE DEF c
  <2> QED
    BY <1>6, <2>1
<1> QED
  BY <1>0, <1>7, <1>8

PatternWord == Nat \X Nat

LEMMA PatternIsWord == ASSUME NEW n \in Nat PROVE PatternAt(n) \in PatternWord /\ PatternAt(n) # Nothing.word
<1>1. (n \div Npix) \in Nat /\ n % Npix \in Nat
  BY DivMod, RingAssumption
<1>2. (n \div Npix) % FrameMod \in Nat
  BY <1>1, DivMod, RingAssumption
<1> QED
  BY <1>1, <1>2 DEF PatternAt, PatternWord, Nothing

\* Every place in range begins the pattern somewhere.
LEMMA PatternStarts ==
    ASSUME NEW f \in 0..FrameMod - 1, NEW i \in 0..Npix - 1
    PROVE  \E p \in Nat : <<f, i>> = PatternAt(p)
<1>1. Npix \in Nat \ {0} /\ FrameMod \in Nat \ {0} /\ f \in Nat
  BY RingAssumption
<1>2. (Npix * f + i) \div Npix = f /\ (Npix * f + i) % Npix = i /\ Npix * f + i \in Nat
  BY <1>1, DivUnique, ModUnique
<1>3. f % FrameMod = f
  BY <1>1
<1>4. PatternAt(Npix * f + i) = <<f, i>>
  BY <1>2, <1>3 DEF PatternAt
<1> QED
  BY <1>2, <1>4

\* The ring before the writer is started.
Fresh ==
    /\ frame_no \in 0..FrameMod - 1 /\ idx \in 0..Npix - 1
    /\ \A s \in Ring, h \in Half : slots[s][h].beat < 0
    /\ front.beat < 0
    /\ last = -1 /\ prev = Nothing.word

\* A beat holds the word of the pattern that its number says; beat 0 is word p.
Told(p, b) == b.beat >= 0 => b.word = PatternAt(p + b.beat)

\* Source, ring and test all follow one run of the pattern.
InStep(p) ==
    /\ <<frame_no, idx>> = PatternAt(p + beats)
    /\ \A s \in Ring, h \in Half : Told(p, slots[s][h])
    /\ Told(p, front)
    /\ \/ last = -1 /\ prev = Nothing.word
       \/ last \in Nat /\ last >= 2 * copied - 1 /\ prev = PatternAt(p + last)
    /\ last < beats

TestInv ==
    /\ pc \in {"new", "opened", "locked", "mapped"} => Fresh
    /\ pc \in Reading => \E p \in Nat : InStep(p)

LEMMA TestInit == Init => TestInv
<1> SUFFICES ASSUME Init PROVE TestInv
  OBVIOUS
<1>1. pc = "new" /\ last = -1 /\ prev = Nothing.word /\ front = Nothing /\ slots = [s \in Ring |-> [h \in Half |-> Nothing]]
  BY DEF Init
<1>2. frame_no \in 0..FrameMod - 1 /\ idx \in 0..Npix - 1
  BY RingAssumption DEF Init
<1>3. front.beat < 0 /\ \A s \in Ring, h \in Half : slots[s][h].beat < 0
  BY <1>1 DEF Nothing
<1> QED
  BY <1>1, <1>2, <1>3 DEF TestInv, Fresh, Reading

LEMMA StartKeepsTest == TransferInv /\ PlacesInv /\ TestInv /\ Start => TestInv'
<1> SUFFICES ASSUME TransferInv, PlacesInv, TestInv, Start PROVE TestInv'
  OBVIOUS
<1>1. pc = "mapped" /\ ~writer /\ Fresh /\ copied = 0
  BY DEF Start, TransferInv, TestInv
<1>2. beats' = 0 /\ pc' = "ready" /\ UNCHANGED <<frame_no, idx, slots, front, last, prev, copied>>
  BY <1>1 DEF Start, Writer, DriverWriter, source, test, history
<1>3. PICK p \in Nat : <<frame_no, idx>> = PatternAt(p)
  BY <1>1, PatternStarts DEF Fresh
<1>4. <<frame_no, idx>>' = PatternAt(p + beats')
  BY <1>2, <1>3
<1>5. \A s \in Ring, h \in Half : Told(p, slots'[s][h])
  BY <1>1, <1>2 DEF Fresh, Told, PlacesInv, Beat
<1>6. Told(p, front') /\ last' = -1 /\ prev' = Nothing.word /\ last' < beats'
  BY <1>1, <1>2 DEF Fresh, Told, PlacesInv, Beat
<1>7. InStep(p)'
  BY <1>4, <1>5, <1>6 DEF InStep, Told
<1> QED
  BY <1>2, <1>7 DEF TestInv

LEMMA EmitKeepsTest == OwnerInv /\ TransferInv /\ PlacesInv /\ TestInv /\ Emit => TestInv'
<1> SUFFICES ASSUME OwnerInv, TransferInv, PlacesInv, TestInv, Emit PROVE TestInv'
  OBVIOUS
<1> DEFINE new == [beat |-> beats, word |-> <<frame_no, idx>>]
           K == (beats \div 2) % Buffers
           H == beats % 2
<1>1. /\ beats \in Nat /\ beats' = beats + 1 /\ UNCHANGED <<front, pc, copied, last, prev>>
      /\ slots' = [slots EXCEPT ![K][H] = new]
  BY DEF TransferInv, Emit, counts, history, test
<1>2. pc \notin {"new", "opened", "locked", "mapped"}
  BY DEF Emit, OwnerInv, LockInv, Owning, Reading, TransferInv
<1>3. ASSUME NEW p \in Nat, InStep(p) PROVE InStep(p)'
  <2>1. <<frame_no, idx>> = PatternAt(p + beats) /\ p + beats \in Nat
    BY <1>1, <1>3 DEF InStep
  <2>2. <<frame_no', idx'>> = Expected(<<frame_no, idx>>)
    BY DEF Emit, Pattern, Expected
  <2>3. (p + beats) + 1 = p + beats'
    BY <1>1
  <2>4. <<frame_no', idx'>> = PatternAt(p + beats')
    BY <2>1, <2>2, <2>3, PatternNext
  <2>5. Told(p, new)
    BY <2>1 DEF Told
  <2>6. ASSUME NEW s \in Ring, NEW h \in Half PROVE Told(p, slots'[s][h])
    <3>1. Told(p, slots[s][h])
      BY <1>3 DEF InStep
    <3>2. slots'[s][h] = new \/ slots'[s][h] = slots[s][h]
      <4> HIDE DEF new, K, H
      <4> QED
        BY <1>1 DEF PlacesInv
    <3> QED
      BY <2>5, <3>1, <3>2
  <2>7. last' < beats'
    BY <1>1, <1>3 DEF InStep
  <2>8. Told(p, front')
    BY <1>1, <1>3 DEF InStep
  <2>9. (last = -1 /\ prev = Nothing.word) \/ (last \in Nat /\ last >= 2 * copied - 1 /\ prev = PatternAt(p + last))
    BY <1>3 DEF InStep
  <2> QED
    BY <1>1, <2>4, <2>6, <2>7, <2>8, <2>9 DEF InStep, Told
<1> QED
  BY <1>1, <1>2, <1>3 DEF TestInv

\* The beats that are being returned were written since the writer was started,
\* and not before their turn.
CopyBackSees ==
    /\ offset \in Ring
    /\ front.beat \in Nat /\ front.beat >= 2 * copied /\ front.beat < beats
    /\ slots[offset][1].beat \in Nat /\ slots[offset][1].beat >= 2 * copied + 1
    /\ slots[offset][1].beat < beats

LEMMA CopyBackIsInRange == TransferInv /\ PlacesInv /\ pc = "copying" => CopyBackSees
<1> SUFFICES ASSUME TransferInv, PlacesInv, pc = "copying" PROVE CopyBackSees
  OBVIOUS
<1>0. Buffers \in Nat \ {0}
  BY RingAssumption
<1>1. /\ offset = copied % Buffers /\ copied < hw /\ copied \in Nat /\ hw \in Nat
      /\ hw <= beats \div 2 /\ beats \in Nat
  BY DEF TransferInv, Reading
<1>2. 2 * copied + 1 < beats /\ offset \in Ring
  BY <1>0, <1>1 DEF Ring
<1>3. InPlaceOf(slots[offset][1].beat, 2 * copied + 1) /\ InPlaceOf(front.beat, 2 * copied)
  BY <1>1, <1>2 DEF PlacesInv, Half
<1>4. ASSUME NEW c \in Int, NEW n \in Nat, InPlaceOf(c, n) PROVE c \in Nat /\ c >= n /\ c < beats
  <2>1. PICK m \in Nat : c = n + 2 * (m * Buffers) /\ c < beats
    BY <1>4 DEF InPlaceOf
  <2>2. m * Buffers \in Nat
    BY <1>0
  <2> QED
    BY <2>1, <2>2
<1>5. slots[offset][1].beat \in Int /\ front.beat \in Int
  BY <1>2 DEF PlacesInv, Beat, Half
<1> QED
  BY <1>1, <1>2, <1>3, <1>4, <1>5 DEF CopyBackSees

LEMMA ReadKeepsTest == TransferInv /\ PlacesInv /\ TestInv /\ Read => TestInv'
<1> SUFFICES ASSUME TransferInv, PlacesInv, TestInv, Read PROVE TestInv'
  OBVIOUS
<1>1. pc \in Reading /\ pc' \in Reading /\ UNCHANGED <<frame_no, idx, slots, beats>>
  BY DEF Read, Refresh, Poll, HandBack, CopyFront, CopyBack, Reading, source, driver, Writer, DriverWriter, TransferInv
<1>2. PICK p \in Nat : InStep(p)
  BY <1>1 DEF TestInv
<1>3. CASE UNCHANGED <<front, prev, last, copied>>
  <2>1. InStep(p)'
    BY <1>1, <1>2, <1>3 DEF InStep, Told
  <2> QED
    BY <1>1, <2>1 DEF TestInv, Reading
<1>4. CASE CopyFront
  <2>1. front' = slots[offset][0] /\ UNCHANGED <<prev, last, copied>> /\ avail > 0
    BY <1>4 DEF CopyFront, test, history, TransferInv, Reading
  <2>2. offset \in Ring
    BY <1>1, <2>1, RingAssumption DEF TransferInv, Ring
  <2>3. Told(p, front')
    BY <1>2, <2>1, <2>2 DEF InStep, Half
  <2>4. InStep(p)'
    BY <1>1, <1>2, <2>1, <2>3 DEF InStep, Told
  <2> QED
    BY <1>1, <2>4 DEF TestInv, Reading
<1>5. CASE CopyBack
  <2> DEFINE b == slots[offset][1]
  <2>1. front' = Nothing /\ prev' = b.word /\ last' = b.beat /\ copied' = copied + 1 /\ pc = "copying"
    BY <1>5 DEF CopyBack, Check
  <2>2. CopyBackSees /\ copied \in Nat
    BY <2>1, CopyBackIsInRange DEF TransferInv
  <2>3. b.beat \in Nat /\ b.beat >= 2 * copied + 1 /\ b.beat < beats /\ offset \in Ring
    BY <2>2 DEF CopyBackSees
  <2>4. b.word = PatternAt(p + b.beat)
    BY <1>2, <2>3 DEF InStep, Told, Half
  <2> HIDE DEF b
  <2>5. last' \in Nat /\ last' >= 2 * copied' - 1 /\ last' < beats /\ prev' = PatternAt(p + last')
    BY <2>1, <2>2, <2>3, <2>4
  <2>6. Told(p, front')
    BY <2>1 DEF Told, Nothing
  <2>7. InStep(p)'
    BY <1>1, <1>2, <2>5, <2>6 DEF InStep, Told
  <2> QED
    BY <1>1, <2>7 DEF TestInv, Reading
<1> QED
  BY <1>3, <1>4, <1>5 DEF Read, Refresh, Poll, HandBack, counts, test, history

LEMMA OthersKeepTest ==
    OwnerInv /\ TransferInv /\ TestInv /\ [Next]_vars /\ ~(Emit \/ Start \/ Read) => TestInv'
<1> SUFFICES ASSUME OwnerInv, TransferInv, TestInv, [Next]_vars, ~(Emit \/ Start \/ Read) PROVE TestInv'
  OBVIOUS
<1>1. UNCHANGED <<frame_no, idx, slots, front, last, prev, copied>>
  BY DEF Next, Card, SetEnable, Interrupt, OtherTakes, OtherLeaves, Open, Lock, Map, Close,
         CloseUnopened, StopWriter, Release, vars, source, driver, counts, test, history
<1>2. pc' \in {"new", "opened", "locked", "mapped"} => pc \in {"new", "opened", "locked", "mapped"}
  BY DEF Next, Card, SetEnable, Interrupt, OtherTakes, OtherLeaves, Open, Lock, Map, Close,
         CloseUnopened, StopWriter, Release, vars
<1>3. pc' \in Reading => pc \in Reading /\ beats' = beats
  <2>1. CASE OtherTakes \/ OtherLeaves
    BY <2>1 DEF OtherTakes, OtherLeaves, OwnerInv, LockInv, Owning
  <2>2. CASE ~(OtherTakes \/ OtherLeaves)
    BY <2>2 DEF Next, Card, SetEnable, Interrupt, Open, Lock, Map, Close,
           CloseUnopened, StopWriter, Release, vars, driver, Reading
  <2> QED
    BY <2>1, <2>2
<1>4. Fresh => Fresh'
  BY <1>1 DEF Fresh
<1>5. ASSUME NEW p \in Nat, InStep(p), beats' = beats PROVE InStep(p)'
  BY <1>1, <1>5 DEF InStep, Told
<1> QED
  BY <1>2, <1>3, <1>4, <1>5 DEF TestInv

LEMMA TestInvariant == Spec => []TestInv
<1>1. OwnerInv /\ TransferInv /\ PlacesInv /\ TestInv /\ [Next]_vars => TestInv'
  BY StartKeepsTest, EmitKeepsTest, ReadKeepsTest, OthersKeepTest
<1> QED
  BY <1>1, TestInit, OwnerCorrect, TransferInvariant, PlacesInvariant, PTL DEF Spec

-----------------------------------------------------------------------------
(* frametest's verdict *)

\* What the comparison of one buffer finds, and what is true of it.
Complaint == \/ prev # Nothing.word /\ front.word # Expected(prev)
             \/ slots[offset][1].word # Expected(front.word)
Disorder == \/ last # -1 /\ front.beat # last + 1
            \/ slots[offset][1].beat # front.beat + 1

\* The card is not a whole period of the pattern ahead of the copy.
WithinPeriod == pc = "copying" => beats - 2 * copied < Npix * FrameMod

LEMMA SameWord ==
    ASSUME NEW p \in Nat, NEW a \in Nat, NEW b \in Nat, b < a + Npix * FrameMod, a + 1 < b + Npix * FrameMod,
           PatternAt(p + b) = Expected(PatternAt(p + a))
    PROVE  b = a + 1
<1> DEFINE c == Npix * FrameMod
<1>1. c \in Nat /\ c > 0
  BY RingAssumption
<1>2. Expected(PatternAt(p + a)) = PatternAt(p + a + 1)
  BY PatternNext
<1>3. CASE p + b <= p + a + 1
  BY <1>1, <1>2, <1>3, PatternTells
<1>4. CASE p + a + 1 <= p + b
  BY <1>1, <1>2, <1>4, PatternTells
<1> QED
  BY <1>3, <1>4

\* No complaint without disorder; and within a period, none is missed.
LEMMA ComplaintTells ==
    TransferInv /\ PlacesInv /\ TestInv /\ pc = "copying"
    => /\ Complaint => Disorder
       /\ WithinPeriod => (Disorder => Complaint)
<1> SUFFICES ASSUME TransferInv, PlacesInv, TestInv, pc = "copying"
             PROVE  /\ Complaint => Disorder
                    /\ WithinPeriod => (Disorder => Complaint)
  OBVIOUS
<1> DEFINE a == front.beat
           b == slots[offset][1].beat
           c == Npix * FrameMod
<1>1. CopyBackSees /\ copied \in Nat /\ beats \in Nat
  BY CopyBackIsInRange DEF TransferInv
<1>2. PICK p \in Nat : InStep(p)
  BY DEF TestInv, Reading
<1>3. /\ a \in Nat /\ b \in Nat /\ a >= 2 * copied /\ b >= 2 * copied + 1 /\ a < beats /\ b < beats
      /\ offset \in Ring
  BY <1>1 DEF CopyBackSees
<1>4. front.word = PatternAt(p + a) /\ slots[offset][1].word = PatternAt(p + b)
  BY <1>2, <1>3 DEF InStep, Told, Half
<1>5. last = -1 => prev = Nothing.word
  BY <1>2 DEF InStep
<1>6. last # -1 => last \in Nat /\ last >= 2 * copied - 1 /\ last < beats /\ prev = PatternAt(p + last)
  BY <1>2 DEF InStep
<1>7. last # -1 => prev # Nothing.word
  BY <1>6, PatternIsWord
<1>8. c \in Nat /\ (WithinPeriod => beats - 2 * copied < c)
  BY RingAssumption DEF WithinPeriod
<1> HIDE DEF a, b
<1>9. ASSUME NEW n \in Nat PROVE PatternAt(p + n + 1) = Expected(PatternAt(p + n))
  BY PatternNext
<1>10. b = a + 1 => PatternAt(p + b) = Expected(PatternAt(p + a))
  BY <1>3, <1>9
<1>11. last # -1 /\ a = last + 1 => PatternAt(p + a) = Expected(PatternAt(p + last))
  BY <1>6, <1>9
<1>12. ASSUME WithinPeriod, PatternAt(p + b) = Expected(PatternAt(p + a)) PROVE b = a + 1
  <2>1. b < a + c /\ a + 1 < b + c
    BY <1>1, <1>3, <1>8, <1>12
  <2> QED
    BY <1>3, <1>12, <2>1, SameWord
<1>13. ASSUME WithinPeriod, last # -1, PatternAt(p + a) = Expected(PatternAt(p + last)) PROVE a = last + 1
  <2>1. a < last + c /\ last + 1 < a + c
    BY <1>1, <1>3, <1>6, <1>8, <1>13
  <2> QED
    BY <1>3, <1>6, <1>13, <2>1, SameWord
<1> QED
  BY <1>4, <1>5, <1>6, <1>7, <1>10, <1>11, <1>12, <1>13 DEF Complaint, Disorder, a, b

LEMMA OnlyCopyBackJudges ==
    Next => \/ UNCHANGED <<errors, gap>>
            \/ pc = "copying" /\ errors' = (errors \/ Complaint) /\ gap' = (gap \/ Disorder)
<1> SUFFICES ASSUME Next, ~UNCHANGED <<errors, gap>>
             PROVE  pc = "copying" /\ errors' = (errors \/ Complaint) /\ gap' = (gap \/ Disorder)
  OBVIOUS
<1>1. CopyBack
  BY DEF Next, Card, SetEnable, Emit, Interrupt, OtherTakes, OtherLeaves, Open, Lock, Map, Start,
         Read, Refresh, Poll, HandBack, CopyFront, Close, CloseUnopened, StopWriter, Release, test
<1>2. pc = "copying" /\ Check(front, slots[offset][1])
  BY <1>1 DEF CopyBack
<1>3. errors' = (errors \/ Complaint)
  BY <1>2, Zenon DEF Check, Complaint
<1>4. gap' = (gap \/ Disorder)
  BY <1>2, Zenon DEF Check, Disorder
<1> QED
  BY <1>2, <1>3, <1>4

\* frametest never accuses a stream that is in order: whatever the sizes of the
\* ring and of the pattern and however far the card runs ahead, errors mean that
\* beats were missing, repeated or out of order.
THEOREM NoFalseAlarm == Spec => [](errors => gap)
<1>1. Init => (errors => gap)
  BY DEF Init
<1>2. TransferInv /\ PlacesInv /\ TestInv /\ (errors => gap) /\ [Next]_vars => (errors => gap)'
  <2> SUFFICES ASSUME TransferInv, PlacesInv, TestInv, errors => gap, [Next]_vars PROVE errors' => gap'
    OBVIOUS
  <2>1. CASE UNCHANGED <<errors, gap>>
    BY <2>1
  <2>2. CASE pc = "copying" /\ errors' = (errors \/ Complaint) /\ gap' = (gap \/ Disorder)
    <3>1. Complaint => Disorder
      BY <2>2, ComplaintTells
    <3> QED
      BY <2>2, <3>1, Zenon
  <2> QED
    BY <2>1, <2>2, OnlyCopyBackJudges DEF vars, test
<1> QED
  BY <1>1, <1>2, TransferInvariant, PlacesInvariant, TestInvariant, PTL DEF Spec

\* Nor does it miss a fault, as long as the card is never a whole period of the
\* pattern ahead of the copy: a jump of exactly a period shows in no word.
THEOREM VerdictIsHonest == Spec /\ []WithinPeriod => []VerdictHonest
<1>1. Init => VerdictHonest
  BY DEF Init, VerdictHonest
<1>2. TransferInv /\ PlacesInv /\ TestInv /\ WithinPeriod /\ VerdictHonest /\ [Next]_vars => VerdictHonest'
  <2> SUFFICES ASSUME TransferInv, PlacesInv, TestInv, WithinPeriod, errors <=> gap, [Next]_vars
               PROVE  errors' <=> gap'
    BY DEF VerdictHonest
  <2>1. CASE UNCHANGED <<errors, gap>>
    BY <2>1
  <2>2. CASE pc = "copying" /\ errors' = (errors \/ Complaint) /\ gap' = (gap \/ Disorder)
    <3>1. Complaint <=> Disorder
      BY <2>2, ComplaintTells
    <3> QED
      BY <2>2, <3>1, Zenon
  <2> QED
    BY <2>1, <2>2, OnlyCopyBackJudges DEF vars, test
<1> QED
  BY <1>1, <1>2, TransferInvariant, PlacesInvariant, TestInvariant, PTL DEF Spec
=============================================================================
