-------------------------- MODULE HpsBridge_proofs --------------------------
(***************************************************************************)
(* Theorems about HpsBridge, for every set of words.                       *)
(*                                                                         *)
(* The inductive invariant is TypeOK /\ HandshakeInv: at most one change   *)
(* of value travels round the ring of the two synchronisers, and a core    *)
(* side past state 0 is serving the request that is open.  Every other     *)
(* result follows from it.                                                 *)
(***************************************************************************)
EXTENDS HpsBridge, TLAPS

IInv == TypeOK /\ HandshakeInv

LEMMA InitIInv == Init => IInv
  BY BridgeAssumption
     DEF Init, IInv, TypeOK, HandshakeInv, RingInv, TransactionInv, Bit

\* Writes and quiet edges of the sys clock move only the acknowledge.
LEMMA PushKeepsIInv == IInv /\ Push => IInv'
<1> SUFFICES ASSUME IInv, Push PROVE IInv'
  OBVIOUS
<1>1. ASSUME NEW w \in Word, PushDin(w) PROVE IInv'
  BY <1>1 DEF IInv, TypeOK, HandshakeInv, RingInv, TransactionInv, Bit,
              PushDin, SampleAck, corevars
<1>2. ASSUME NEW w1 \in Word, NEW w2 \in Word, PushDin2(w1, w2) PROVE IInv'
  BY <1>2 DEF IInv, TypeOK, HandshakeInv, RingInv, TransactionInv, Bit,
              PushDin2, SampleAck, corevars
<1>3. QED
  BY <1>1, <1>2 DEF Push

LEMMA SysTickKeepsIInv == IInv /\ SysTick => IInv'
<1> SUFFICES ASSUME IInv, SysTick PROVE IInv'
  OBVIOUS
<1>1. CASE Pop
  <2>1. TypeOK'
    BY <1>1 DEF IInv, TypeOK, Bit, Pop, SampleAck, corevars
  <2>2. HandshakeInv'
    BY <1>1 DEF IInv, TypeOK, HandshakeInv, RingInv, TransactionInv, Bit,
                Pop, idle, SampleAck, corevars
  <2>3. QED
    BY <2>1, <2>2 DEF IInv
<1>2. CASE SysWait
  BY <1>2 DEF IInv, TypeOK, HandshakeInv, RingInv, TransactionInv, Bit,
              SysWait, SampleAck, corevars
<1>3. QED
  BY <1>1, <1>2 DEF SysTick

LEMMA CoreEdgeKeepsIInv == IInv /\ CoreEdge => IInv'
<1> SUFFICES ASSUME IInv, NEW d \in Word, CoreTick(d) PROVE IInv'
  BY DEF CoreEdge
<1> USE DEF IInv, TypeOK, HandshakeInv, RingInv, TransactionInv, Bit,
            SampleReq, sysvars
<1>1. CASE Capture(d)
  BY <1>1 DEF Capture
<1>2. CASE CoreWait
  BY <1>2 DEF CoreWait
<1>3. CASE Strobe
  BY <1>3 DEF Strobe
<1>4. CASE Acknowledge
  BY <1>4 DEF Acknowledge
<1>5. QED
  BY <1>1, <1>2, <1>3, <1>4 DEF CoreTick

LEMMA StutterKeepsIInv == IInv /\ UNCHANGED vars => IInv'
  BY DEF IInv, TypeOK, HandshakeInv, RingInv, TransactionInv, vars,
         sysvars, corevars

LEMMA InductiveInvariant == Spec => []IInv
<1>1. IInv /\ [Next]_vars => IInv'
  BY PushKeepsIInv, SysTickKeepsIInv, CoreEdgeKeepsIInv, StutterKeepsIInv
     DEF Next
<1>2. QED
  BY InitIInv, <1>1, PTL DEF Spec

-----------------------------------------------------------------------------

\* No register ever leaves its range, whatever is written and however the two
\* clocks interleave.
THEOREM TypeCorrect == Spec => []TypeOK
<1>1. IInv => TypeOK
  BY DEF IInv
<1>2. QED
  BY InductiveInvariant, <1>1, PTL

\* At most one request or acknowledge travels between the clock domains.
THEOREM HandshakeCorrect == Spec => []HandshakeInv
<1>1. IInv => HandshakeInv
  BY DEF IInv
<1>2. QED
  BY InductiveInvariant, <1>1, PTL

\* busy = 0 means that the whole bridge is at rest.
THEOREM BusyIsHonest == Spec => []BusyHonest
<1>1. IInv => BusyHonest
  BY DEF IInv, TypeOK, HandshakeInv, RingInv, TransactionInv, Bit,
         BusyHonest, busy, idle
<1>2. QED
  BY InductiveInvariant, <1>1, PTL

\* The sys side never changes word under the core side.
THEOREM WordIsQuasiStatic == Spec => WordQuasiStatic
<1>1. IInv /\ [Next]_vars
        => [word' # word => req_s = ack /\ req1 = ack /\ state = 0]_vars
  <2> SUFFICES ASSUME IInv, Next, word' # word
               PROVE  req_s = ack /\ req1 = ack /\ state = 0
    OBVIOUS
  <2>1. Pop
    BY DEF Next, Push, PushDin, PushDin2, SysTick, SysWait, CoreEdge, CoreTick,
           Capture, CoreWait, Strobe, Acknowledge, sysvars
  <2>2. QED
    BY <2>1 DEF Pop, idle, IInv, TypeOK, HandshakeInv, RingInv,
                TransactionInv, Bit
<1>2. QED
  BY InductiveInvariant, <1>1, PTL DEF Spec, WordQuasiStatic

\* The answer register moves only inside a transaction the host sees as busy.
THEOREM DoutIsHeld == Spec => DoutHeld
<1>1. IInv /\ [Next]_vars => [dout_core' # dout_core => busy /\ busy']_vars
  <2> SUFFICES ASSUME IInv, Next, dout_core' # dout_core
               PROVE  busy /\ busy'
    OBVIOUS
  <2>1. PICK d \in Word : Capture(d)
    BY DEF Next, Push, PushDin, PushDin2, SysTick, Pop, SysWait, CoreEdge,
           CoreTick, CoreWait, Strobe, Acknowledge, corevars
  <2>2. QED
    BY <2>1 DEF Capture, busy, idle, sysvars, IInv, TypeOK, HandshakeInv,
                RingInv, TransactionInv, Bit
<1>2. QED
  BY InductiveInvariant, <1>1, PTL DEF Spec, DoutHeld

\* A strobe never lasts two core clocks.
THEOREM StrobeIsOneClock == Spec => StrobeOneClock
<1>1. IInv /\ [Next]_vars
        => [CoreEdge => ~(io_strobe = 1 /\ io_strobe' = 1)]_vars
  <2> SUFFICES ASSUME IInv, CoreEdge, io_strobe = 1
               PROVE  io_strobe' # 1
    OBVIOUS
  <2>1. state = 2
    BY DEF IInv, HandshakeInv, TransactionInv
  <2>2. Acknowledge
    BY <2>1 DEF CoreEdge, CoreTick, Capture, CoreWait, Strobe
  <2>3. QED
    BY <2>2 DEF Acknowledge
<1>2. QED
  BY InductiveInvariant, <1>1, PTL DEF Spec, StrobeOneClock

-----------------------------------------------------------------------------
(* The bridge implements the pipe of words *)

LEMMA PipeInit == Init => Pipe!Init
  BY DEF Init, Pipe!Init, Queued

LEMMA PipePush == IInv /\ Push => Pipe!Next \/ UNCHANGED Pipe!vars
<1> SUFFICES ASSUME IInv, Push PROVE Pipe!Next \/ UNCHANGED Pipe!vars
  OBVIOUS
<1> USE DEF IInv, TypeOK, Pipe!vars, Queued
<1>1. ASSUME NEW w \in Word, PushDin(w), count < 2 PROVE Pipe!Accept(w)
  <2>1. CASE count = 0
    BY <1>1, <2>1 DEF PushDin, Pipe!Accept, corevars
  <2>2. CASE count = 1
    BY <1>1, <2>2 DEF PushDin, Pipe!Accept, corevars
  <2>3. QED
    BY <1>1, <2>1, <2>2
<1>2. ASSUME NEW w \in Word, PushDin(w), count = 2
      PROVE  UNCHANGED Pipe!vars
  BY <1>2 DEF PushDin, corevars
<1>3. ASSUME NEW w1 \in Word, NEW w2 \in Word, PushDin2(w1, w2)
      PROVE  Pipe!Replace(w1, w2)
  BY <1>3 DEF PushDin2, Pipe!Replace, corevars
<1>4. QED
  BY <1>1, <1>2, <1>3 DEF Push, Pipe!Next

LEMMA PipeSysTick == IInv /\ SysTick => Pipe!Next \/ UNCHANGED Pipe!vars
<1> SUFFICES ASSUME IInv, SysTick PROVE Pipe!Next \/ UNCHANGED Pipe!vars
  OBVIOUS
<1>1. CASE Pop
  <2>1. req = ack /\ req' # ack' /\ state # 2 /\ state' # 2
    BY <1>1 DEF Pop, idle, corevars, IInv, TypeOK, HandshakeInv, RingInv,
                TransactionInv, Bit
  <2>2. Pipe!Take
    <3>1. CASE count = 1
      BY <1>1, <2>1, <3>1 DEF Pop, corevars, Pipe!Take, Queued
    <3>2. CASE count = 2
      BY <1>1, <2>1, <3>2 DEF Pop, corevars, Pipe!Take, Queued
    <3>3. QED
      BY <1>1, <3>1, <3>2 DEF Pop, IInv, TypeOK
  <2>3. QED
    BY <2>2 DEF Pipe!Next
<1>2. CASE SysWait
  BY <1>2 DEF SysWait, corevars, Pipe!vars, Queued
<1>3. QED
  BY <1>1, <1>2 DEF SysTick

LEMMA PipeCoreEdge == IInv /\ CoreEdge => Pipe!Next \/ UNCHANGED Pipe!vars
<1> SUFFICES ASSUME IInv, NEW d \in Word, CoreTick(d)
             PROVE  Pipe!Next \/ UNCHANGED Pipe!vars
  BY DEF CoreEdge
<1> USE DEF IInv, TypeOK, HandshakeInv, RingInv, TransactionInv, Bit, sysvars,
            Queued
<1>1. CASE Capture(d)
  BY <1>1 DEF Capture, Pipe!vars
<1>2. CASE CoreWait
  BY <1>2 DEF CoreWait, Pipe!vars
<1>3. CASE Strobe
  <2>1. Pipe!Deliver
    BY <1>3 DEF Strobe, Pipe!Deliver
  <2>2. QED
    BY <2>1 DEF Pipe!Next
<1>4. CASE Acknowledge
  <2>1. io_din # NoWord
    BY BridgeAssumption
  <2>2. Pipe!EndStrobe
    BY <1>4, <2>1 DEF Acknowledge, Pipe!EndStrobe
  <2>3. QED
    BY <2>2 DEF Pipe!Next
<1>5. QED
  BY <1>1, <1>2, <1>3, <1>4 DEF CoreTick

\* Every behaviour of the bridge, seen from its two sides, is a behaviour of
\* the pipe: accepted words are strobed exactly once and in order.
THEOREM BridgeImplementsPipe == Spec => PipeSpec
<1>1. IInv /\ [Next]_vars => [Pipe!Next]_(Pipe!vars)
  <2>1. ASSUME UNCHANGED vars PROVE UNCHANGED Pipe!vars
    BY <2>1 DEF vars, sysvars, corevars, Pipe!vars, Queued
  <2>2. QED
    BY <2>1, PipePush, PipeSysTick, PipeCoreEdge DEF Next
<1>2. QED
  BY PipeInit, InductiveInvariant, <1>1, PTL DEF Spec, PipeSpec, Pipe!Spec
=============================================================================
