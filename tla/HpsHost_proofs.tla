----------------------------- MODULE HpsHost_proofs -----------------------------
(***************************************************************************)
(* Theorems about the backend and the bridge together, for every set of    *)
(* words, every program and every bound.                                   *)
(*                                                                         *)
(* HostInv says what holds of every program.  RoomInv and AnswerInv are    *)
(* about programs that only call fpga_spi: where the word of a call can    *)
(* be, and where the answer is that the next call will return.             *)
(***************************************************************************)
EXTENDS HpsHost, HpsBridge_proofs, SequenceTheorems

Levels == SUBSET {"fpga", "osd", "io"}

HostTypeOK ==
    /\ use \in Uses
    /\ pc \in {"ready", "spi_poll", "spi_read", "write", "write_be", "read", "read_dout", "dead"}
    /\ en \in Levels /\ en_was \in Levels /\ en1 \in Levels /\ enable \in Levels
    /\ io_dout \in Word
    /\ sent \in Seq(Word \X Levels) /\ seen \in Seq(Word \X Levels)
    /\ unanswered \in 0..3 /\ restarts \in Nat /\ failures \in Nat

HostInv ==
    /\ IInv
    /\ HostTypeOK
    /\ clean \in BOOLEAN
    /\ clean => unanswered = 0
    /\ pc = "spi_read" /\ unanswered = 0 => ~busy

Words(s) == [i \in DOMAIN s |-> s[i][1]]

-----------------------------------------------------------------------------

SpiOnly == use.procedures = {"spi"}

\* No word has been lost so far.
Tracked == clean \/ (restarts = 0 /\ unanswered < 3)

\* The word of the call that was made last is queued until the next edge of the
\* sys clock; every call that went on without its answer leaves at most one
\* more word behind.
RoomInv ==
    SpiOnly =>
        /\ pc \in {"ready", "spi_poll", "spi_read", "dead"}
        /\ Tracked /\ unanswered = 0 =>
              /\ count = 0 \/ (count = 1 /\ idle)
              /\ pc \in {"ready", "spi_read"} => ~busy
        /\ Tracked /\ unanswered > 0 =>
              /\ count <= unanswered
              /\ pc \in {"ready", "spi_read"} => count < unanswered

Settled == en_was = en /\ en1 = en /\ enable = en

Last == sent[Len(sent)]

\* The word has not been presented to the core yet.
Waiting == count = 1 \/ (req # ack /\ state = 0)

\* What io_dout shows is the answer to the word before, and stays; or that is
\* zero, and the low levels that make it zero arrive before the next word can.
AnswerComing ==
    \/ io_dout = answer /\ (answer = Zero \/ (Settled /\ Selected(en)))
    \/ answer = Zero /\ \/ en = {}
                        \/ enable = {} /\ req_s = ack
                        \/ en1 = {} /\ req1 = ack

\* Where the last word is, and what the answer to the word before it hangs on.
AnswerOK ==
    /\ busy => sent # <<>> /\ Last[2] = en
    /\ count = 1 => q0 = Last[1]
    /\ req # ack => word = Last[1]
    /\ req # ack /\ req1 = req => en_was = en
    /\ req # ack /\ req_s = req => en1 = en
    /\ state # 0 => enable = en
    /\ pc \in {"spi_poll", "spi_read"} => sent # <<>> /\ en # {} /\ Last[2] = en
    /\ pc = "ready" \/ (pc = "spi_poll" /\ Waiting) => AnswerComing
    /\ pc \in {"spi_poll", "spi_read"} /\ ~Waiting =>
          dout_core = answer /\ Settled /\ (req = ack => io_dout = Answer(Last[1], en))
    /\ pc = "spi_read" => dout_was = dout_core

AnswerInv == SpiOnly /\ clean => AnswerOK

\* Every word that was written and not taken is still in the bridge.
KeptInv == SpiOnly /\ Tracked => Words(seen) \o Outstanding = Words(sent)

LevelsInv == SpiOnly /\ clean => \A i \in DOMAIN seen : seen[i][2] = sent[i][2]

-----------------------------------------------------------------------------
(* What holds of every program *)

LEMMA HostInitInv == HostInit => HostInv
<1>1. HostInit => IInv
  BY InitIInv DEF HostInit
<1>2. HostInit => HostTypeOK
  BY BridgeAssumption DEF HostInit, HostTypeOK, Levels
<1>3. HostInit => clean /\ unanswered = 0 /\ pc # "spi_read"
  BY DEF HostInit
<1> QED
  BY <1>1, <1>2, <1>3 DEF HostInv

LEMMA PairsAppended ==
    ASSUME NEW s \in Seq(Word \X Levels), NEW l \in Levels
    PROVE  /\ \A w \in Word : Append(s, <<w, l>>) \in Seq(Word \X Levels)
           /\ \A w1, w2 \in Word : s \o <<<<w1, l>>, <<w2, l>>>> \in Seq(Word \X Levels)
<1>1. ASSUME NEW w1 \in Word, NEW w2 \in Word
      PROVE  <<<<w1, l>>, <<w2, l>>>> \in Seq(Word \X Levels)
  OBVIOUS
<1>2. ASSUME NEW w \in Word PROVE Append(s, <<w, l>>) \in Seq(Word \X Levels)
  BY AppendProperties
<1> QED
  BY <1>1, <1>2, ConcatProperties

\* What an edge of the sys clock without a write does to the queue.
LEMMA SysTickFacts ==
    IInv /\ SysTick =>
        /\ IInv'
        /\ (~busy)' <=> ~busy \/ (count = 0 /\ req = ack1)
        /\ count' \in {count, count - 1} /\ count' <= count
        /\ count = 1 /\ idle => count' = 0
        /\ count' # 0 => count = 2 \/ ~idle
        /\ UNCHANGED corevars
<1> SUFFICES ASSUME IInv, SysTick
             PROVE  /\ (~busy)' <=> ~busy \/ (count = 0 /\ req = ack1)
                    /\ count' \in {count, count - 1} /\ count' <= count
                    /\ count = 1 /\ idle => count' = 0
                    /\ count' # 0 => count = 2 \/ ~idle
                    /\ UNCHANGED corevars
  BY SysTickKeepsIInv
<1> USE DEF IInv, TypeOK, HandshakeInv, RingInv, TransactionInv, Bit, busy, idle, SampleAck
<1>1. CASE Pop
  BY <1>1 DEF Pop
<1>2. CASE SysWait
  BY <1>2 DEF SysWait
<1> QED
  BY <1>1, <1>2 DEF SysTick

\* The steps of the backend, one operator for all of them.
BackendStep == HostStep \/ HostCall \/ Exit \/ Restart \/ SysIdle

LEMMA BackendKeepsTypes == HostTypeOK /\ BackendStep => HostTypeOK'
<1> SUFFICES ASSUME HostTypeOK, BackendStep PROVE HostTypeOK'
  OBVIOUS
<1> USE HostAssumption, BridgeAssumption, PairsAppended
    DEF HostTypeOK, SysSide, Access, WriteDin, WriteDin2, EndBlock, limits, backend, levels
<1>1. CASE SpiPoll
  BY <1>1 DEF SpiPoll, GoOn, ReadFails
<1>2. CASE SpiRead
  BY <1>2 DEF SpiRead, ReadDout, ReadFails
<1>3. ASSUME NEW w1 \in Word, NEW w2 \in Word, WritePair(w1, w2) PROVE HostTypeOK'
  BY <1>3 DEF WritePair
<1>4. ASSUME NEW w \in Word, WriteOne(w) PROVE HostTypeOK'
  BY <1>4 DEF WriteOne
<1>5. CASE ReadWrite
  BY <1>5 DEF ReadWrite
<1>6. CASE ReadRead
  BY <1>6 DEF ReadRead, ReadDout, ReadFails
<1>7. ASSUME NEW w \in Word, SpiWrite(w) PROVE HostTypeOK'
  BY <1>7 DEF SpiWrite
<1>8. ASSUME NEW w \in Word, FastWrite(w) PROVE HostTypeOK'
  BY <1>8 DEF FastWrite
<1>9. ASSUME NEW kind \in {"write", "write_be", "read"}, NEW n \in use.lengths, Block(kind, n)
      PROVE  HostTypeOK'
  BY <1>9 DEF Block
<1>10. ASSUME NEW mask \in use.masks, NEW high \in BOOLEAN, SpiEn(mask, high) PROVE HostTypeOK'
  <2>1. mask \in Levels
    BY DEF Levels
  <2>2. (en \cup mask) \in Levels /\ (en \ mask) \in Levels
    BY <2>1 DEF Levels
  <2>3. en' \in Levels
    BY <1>10, <2>2 DEF SpiEn
  <2> QED
    BY <1>10, <2>3 DEF SpiEn
<1>11. CASE Exit
  BY <1>11 DEF Exit, ghosts
<1>12. CASE Restart
  <2>1. {} \in Levels
    BY DEF Levels
  <2> QED
    BY <1>12, <2>1 DEF Restart
<1>13. CASE SysIdle
  BY <1>13 DEF SysIdle
<1> HIDE DEF HostTypeOK
<1> QED
  BY <1>1, <1>2, <1>3, <1>4, <1>5, <1>6, <1>7, <1>8, <1>9, <1>10, <1>11, <1>12, <1>13
     DEF BackendStep, HostStep, HostCall

\* A strobe only comes with a word.
LEMMA CoreSideKeepsTypes == IInv /\ HostTypeOK /\ CoreSide => HostTypeOK'
<1> SUFFICES ASSUME IInv, HostTypeOK, CoreSide PROVE HostTypeOK'
  OBVIOUS
<1>1. io_din \in Word /\ Zero \in Word
  BY BridgeAssumption DEF IInv, TypeOK
<1>2. io_dout' \in Word
  BY <1>1 DEF CoreSide, HpsIo, HostTypeOK
<1>3. en1' \in Levels /\ enable' \in Levels /\ en_was' \in Levels
  <2>1. (en \cup en_was) \in Levels
    BY DEF HostTypeOK, Levels
  <2> QED
    BY <2>1 DEF CoreSide, SampleLevels, HostTypeOK, Levels
<1>4. seen' \in Seq(Word \X Levels)
  BY <1>1, PairsAppended DEF CoreSide, HpsIo, HostTypeOK
<1> QED
  BY <1>2, <1>3, <1>4 DEF CoreSide, HostTypeOK, backend, limits

\* Each step of the system is an edge of one of the two clocks, or none.
LEMMA HostIsBridge ==
    HostInv /\ [HostNext]_hvars => IInv' /\ [Next]_vars
<1> SUFFICES ASSUME HostInv, [HostNext]_hvars PROVE Push \/ SysTick \/ CoreEdge \/ UNCHANGED vars
  BY PushKeepsIInv, SysTickKeepsIInv, CoreEdgeKeepsIInv, StutterKeepsIInv DEF HostInv, Next
<1>1. CASE UNCHANGED hvars
  BY <1>1 DEF hvars
<1>2. CASE CoreSide
  BY <1>2 DEF CoreSide, CoreEdge, HostInv, HostTypeOK
<1>3. CASE HostStep
  BY <1>3, BridgeAssumption DEF HostStep, SpiPoll, SpiRead, WritePair, WriteOne, ReadWrite, ReadRead,
     ReadDout, WriteDin, WriteDin2, Push
<1>4. CASE HostCall
  BY <1>4, BridgeAssumption DEF HostCall, SpiWrite, FastWrite, Block, SpiEn, WriteDin, Push
<1>5. CASE Exit \/ Restart \/ SysIdle
  BY <1>5 DEF Exit, Restart, SysIdle
<1> QED
  BY <1>1, <1>2, <1>3, <1>4, <1>5 DEF HostNext

\* As long as every call has been answered, one that is about to return finds
\* the bridge at rest.
LEMMA AnsweredAtRest == HostInv /\ [HostNext]_hvars =>
    /\ clean' \in BOOLEAN
    /\ clean' => clean /\ unanswered' = 0
    /\ pc' = "spi_read" /\ unanswered' = 0 => ~busy'
<1> SUFFICES ASSUME HostInv, [HostNext]_hvars
             PROVE  /\ clean' \in BOOLEAN
                    /\ clean' => clean /\ unanswered' = 0
                    /\ pc' = "spi_read" /\ unanswered' = 0 => ~busy'
  OBVIOUS
<1> USE DEF HostInv
<1>1. CASE UNCHANGED hvars
  BY <1>1 DEF hvars, vars, sysvars, backend, ghosts, busy, idle
<1>2. CASE CoreSide
  BY <1>2 DEF CoreSide, CoreTick, Capture, CoreWait, Strobe, Acknowledge, sysvars, backend, limits, busy, idle
<1>3. CASE SpiPoll
  <2>1. CASE ~busy
    <3>1. ~busy' /\ clean' = clean /\ unanswered' \in {0, unanswered} /\ (clean => unanswered' = 0)
      BY <1>3, <2>1, SysTickFacts DEF SpiPoll, Registers
    <3> QED
      BY <3>1
  <2>2. CASE busy
    <3>1. \/ clean' = FALSE /\ unanswered' = IF unanswered = 3 THEN 3 ELSE unanswered + 1
          \/ pc' = "spi_poll" /\ clean' = clean /\ unanswered' = unanswered
      BY <1>3, <2>2 DEF SpiPoll, GoOn, Registers
    <3>2. CASE clean' = FALSE /\ unanswered' = IF unanswered = 3 THEN 3 ELSE unanswered + 1
      <4>1. unanswered' # 0
        BY <3>2 DEF HostTypeOK
      <4> QED
        BY <3>2, <4>1, Zenon
    <3>3. CASE pc' = "spi_poll" /\ clean' = clean /\ unanswered' = unanswered
      BY <3>3
    <3> QED
      BY <3>1, <3>2, <3>3
  <2> QED
    BY <2>1, <2>2
<1>4. CASE Restart
  BY <1>4 DEF Restart
<1>5. ASSUME NEW mask \in use.masks, NEW high \in BOOLEAN, SpiEn(mask, high)
      PROVE  /\ clean' \in BOOLEAN
             /\ clean' => clean /\ unanswered' = 0
             /\ pc' = "spi_read" /\ unanswered' = 0 => ~busy'
  BY <1>5 DEF SpiEn, backend
<1>6. CASE SysIdle
  BY <1>6, SysTickFacts DEF SysIdle, backend
<1>7. CASE SpiRead \/ ReadWrite \/ ReadRead \/ Exit \/ \E w1, w2 \in Word : WritePair(w1, w2)
  BY <1>7 DEF SpiRead, ReadWrite, ReadRead, Exit, WritePair, EndBlock, ghosts
<1>8. CASE \E w \in Word : WriteOne(w) \/ SpiWrite(w)
  BY <1>8 DEF WriteOne, SpiWrite, EndBlock
<1>9. CASE \E w \in Word : FastWrite(w)
  BY <1>9 DEF FastWrite, backend
<1>10. CASE \E kind \in {"write", "write_be", "read"}, n \in use.lengths : Block(kind, n)
  BY <1>10 DEF Block
<1> QED
  BY <1>1, <1>2, <1>3, <1>4, <1>5, <1>6, <1>7, <1>8, <1>9, <1>10 DEF HostNext, HostStep, HostCall

LEMMA HostInvariant == HostSpec => []HostInv
<1>1. HostInv /\ UNCHANGED hvars => HostTypeOK'
  BY DEF HostInv, HostTypeOK, hvars, backend, levels, ghosts, limits
<1>2. HostInv /\ [HostNext]_hvars => HostTypeOK'
  BY <1>1, BackendKeepsTypes, CoreSideKeepsTypes DEF HostInv, HostNext, BackendStep
<1>3. HostInv /\ [HostNext]_hvars => HostInv'
  BY <1>2, HostIsBridge, AnsweredAtRest DEF HostInv
<1> QED
  BY <1>3, HostInitInv, PTL DEF HostSpec

-----------------------------------------------------------------------------

\* The bridge inside the system is the bridge: with the backend on one side and
\* hps_io on the other it still is the pipe of words.
THEOREM HostImplementsPipe == HostSpec => PipeSpec
<1>1. HostInit => Init
  BY DEF HostInit
<1>2. HostInv /\ [HostNext]_hvars => [Next]_vars
  BY HostIsBridge
<1>3. HostSpec => Spec
  BY <1>1, <1>2, HostInvariant, PTL DEF HostSpec, Spec
<1> QED
  BY <1>3, BridgeImplementsPipe, PTL

\* An fpga_spi call that saw busy = 0 leaves nothing in the bridge, whatever was
\* written before it and by which process.
THEOREM SpiCallIsBarrier == HostSpec => SpiIsBarrier
<1>1. HostInv /\ [HostNext]_hvars => [SpiRead /\ unanswered = 0 => Outstanding = <<>>]_hvars
  <2> SUFFICES ASSUME HostInv, SpiRead, unanswered = 0 PROVE Outstanding = <<>>
    OBVIOUS
  <2>1. ~busy
    BY DEF HostInv, SpiRead
  <2>2. count = 0 /\ req = ack
    BY <2>1 DEF HostInv, IInv, TypeOK, HandshakeInv, RingInv, Bit, busy, idle
  <2> QED
    BY <2>2 DEF Outstanding, Queued
<1> QED
  BY <1>1, HostInvariant, PTL DEF HostSpec, SpiIsBarrier

-----------------------------------------------------------------------------
(* Programs that only call fpga_spi *)

SpiStep == \/ \E w \in Word : SpiWrite(w)
           \/ SpiPoll \/ SpiRead
           \/ \E mask \in use.masks, high \in BOOLEAN : SpiEn(mask, high)
           \/ Exit \/ Restart \/ SysIdle \/ CoreSide

LEMMA SpiSteps == SpiOnly /\ RoomInv /\ HostNext => SpiStep
<1> SUFFICES ASSUME SpiOnly, RoomInv, HostNext PROVE SpiStep
  OBVIOUS
<1>1. /\ ~ \E w1, w2 \in Word : WritePair(w1, w2)
      /\ ~ \E w \in Word : WriteOne(w)
      /\ ~ (ReadWrite \/ ReadRead)
  BY DEF RoomInv, WritePair, WriteOne, ReadWrite, ReadRead
<1>2. /\ ~ \E w \in Word : FastWrite(w)
      /\ ~ \E kind \in {"write", "write_be", "read"}, n \in use.lengths : Block(kind, n)
  BY DEF SpiOnly, FastWrite, Block
<1> QED
  BY <1>1, <1>2 DEF HostNext, HostStep, HostCall, SpiStep

LEMMA ProgramStays == [HostNext]_hvars => use' = use
<1> USE DEF SysSide, Access, WriteDin, WriteDin2, ReadDout
<1>1. HostStep => use' = use
  BY DEF HostStep, SpiPoll, SpiRead, WritePair, WriteOne, ReadWrite, ReadRead
<1>2. HostCall => use' = use
  BY DEF HostCall, SpiWrite, FastWrite, Block, SpiEn
<1>3. Exit \/ Restart \/ SysIdle \/ CoreSide \/ UNCHANGED hvars => use' = use
  BY DEF Exit, Restart, SysIdle, CoreSide, hvars
<1> QED
  BY <1>1, <1>2, <1>3 DEF HostNext

LEMMA RoomInit == HostInit => RoomInv
  BY DEF HostInit, Init, RoomInv, busy, idle

LEMMA SpiKeepsRoomInv == HostInv /\ RoomInv /\ SpiOnly /\ SpiStep => RoomInv'
<1> SUFFICES ASSUME HostInv, RoomInv, SpiOnly, SpiStep PROVE RoomInv'
  OBVIOUS
<1>0. /\ count \in 0..2 /\ unanswered \in 0..3 /\ restarts \in Nat
      /\ pc \in {"ready", "spi_poll", "spi_read", "dead"}
      /\ clean => unanswered = 0
  BY DEF HostInv, HostTypeOK, IInv, TypeOK, RoomInv
<1>t. SysTick => /\ count' \in 0..2 /\ count' <= count
                 /\ count = 0 \/ (count = 1 /\ idle) => count' = 0
                 /\ ~busy => ~busy' /\ count' = 0
  BY <1>0, SysTickFacts DEF HostInv, IInv, TypeOK, busy
<1>c. clean' => clean /\ unanswered' = 0
  <2>1. HostNext
    BY DEF SpiStep, HostNext, HostStep, HostCall
  <2> QED
    BY <2>1, AnsweredAtRest
<1> USE <1>0, <1>c DEF RoomInv, Tracked, limits, backend
<1>1. ASSUME NEW w \in Word, SpiWrite(w) PROVE RoomInv'
  BY <1>1 DEF SpiWrite, WriteDin, PushDin, busy, idle, SampleAck, HostInv, IInv, HandshakeInv, RingInv
<1>2. CASE SpiPoll
  <2>1. CASE ~busy
    BY <1>2, <1>t, <2>1 DEF SpiPoll, Registers
  <2>2. CASE busy /\ pc' = "spi_poll"
    <3>1. unanswered' = unanswered /\ restarts' = restarts /\ SysTick
      BY <1>2, <2>2 DEF SpiPoll, GoOn, Registers
    <3> QED
      BY <1>t, <2>2, <3>1
  <2>3. CASE busy /\ pc' = "spi_read"
    <3>1. /\ unanswered' = IF unanswered = 3 THEN 3 ELSE unanswered + 1
          /\ restarts' = restarts /\ SysTick
      BY <1>2, <2>3 DEF SpiPoll, GoOn, Registers
    <3> QED
      BY <1>t, <2>3, <3>1
  <2> QED
    BY <1>2, <2>1, <2>2, <2>3 DEF SpiPoll, GoOn
<1>3. CASE SpiRead
  BY <1>3, <1>t DEF SpiRead, ReadDout, ReadFails
<1>4. ASSUME NEW mask \in use.masks, NEW high \in BOOLEAN, SpiEn(mask, high) PROVE RoomInv'
  BY <1>4, <1>t DEF SpiEn
<1>5. CASE Exit
  BY <1>5 DEF Exit, vars, sysvars, ghosts, busy, idle
<1>6. CASE Restart
  <2>1. restarts' # 0 /\ pc' = "ready" /\ SysTick
    BY <1>6 DEF Restart
  <2>2. clean' => ~busy
    BY <1>6, Zenon DEF Restart
  <2> QED
    BY <1>t, <2>1, <2>2
<1>7. CASE SysIdle
  BY <1>7, <1>t DEF SysIdle
<1>8. CASE CoreSide
  <2>1. UNCHANGED <<count, req, ack_s>>
    BY <1>8 DEF CoreSide, CoreTick, Capture, CoreWait, Strobe, Acknowledge, sysvars
  <2> QED
    BY <1>8, <2>1 DEF CoreSide, busy, idle
<1> QED
  BY <1>1, <1>2, <1>3, <1>4, <1>5, <1>6, <1>7, <1>8 DEF SpiStep

LEMMA RoomInvariant == HostSpec => []RoomInv
<1>1. ASSUME HostInv, RoomInv, [HostNext]_hvars PROVE RoomInv'
  <2>1. CASE UNCHANGED hvars
    BY <1>1, <2>1 DEF hvars, vars, sysvars, backend, ghosts, limits, RoomInv, SpiOnly, Tracked, busy, idle
  <2>2. CASE ~SpiOnly
    BY <1>1, <2>2, ProgramStays DEF RoomInv, SpiOnly
  <2>3. CASE SpiOnly /\ HostNext
    BY <1>1, <2>3, SpiSteps, SpiKeepsRoomInv
  <2> QED
    BY <1>1, <2>1, <2>2, <2>3
<1> QED
  BY <1>1, RoomInit, HostInvariant, PTL DEF HostSpec

-----------------------------------------------------------------------------
(* Subsequences *)

LEMMA SubsequenceRefl == ASSUME NEW s \in Seq(Word) PROVE IsSubsequence(s, s)
<1> DEFINE at == [i \in DOMAIN s |-> i]
<1>1. DOMAIN s = 1..Len(s) /\ Len(s) \in Nat
  BY LenProperties
<1>2. /\ at \in [DOMAIN s -> DOMAIN s]
      /\ \A i \in DOMAIN s : s[i] = s[at[i]]
      /\ \A i, j \in DOMAIN s : i < j => at[i] < at[j]
  OBVIOUS
<1> QED
  BY <1>2 DEF IsSubsequence

\* Another word is written and taken, or written and lost, or words that had
\* been taken are lost.
LEMMA SubsequenceAppend ==
    ASSUME NEW s \in Seq(Word), NEW t \in Seq(Word), NEW e \in Word, IsSubsequence(s, t)
    PROVE  /\ IsSubsequence(s, Append(t, e))
           /\ IsSubsequence(Append(s, e), Append(t, e))
<1> DEFINE s2 == Append(s, e)
           t2 == Append(t, e)
<1>1. /\ DOMAIN s = 1..Len(s) /\ Len(s) \in Nat /\ DOMAIN t = 1..Len(t) /\ Len(t) \in Nat
  BY LenProperties
<1>2. /\ s2 \in Seq(Word) /\ Len(s2) = Len(s) + 1 /\ s2[Len(s) + 1] = e
      /\ \A i \in 1..Len(s) : s2[i] = s[i]
      /\ t2 \in Seq(Word) /\ Len(t2) = Len(t) + 1 /\ t2[Len(t) + 1] = e
      /\ \A i \in 1..Len(t) : t2[i] = t[i]
  BY AppendProperties
<1> HIDE DEF s2, t2
<1>3. DOMAIN s2 = 1..Len(s) + 1 /\ DOMAIN t2 = 1..Len(t) + 1
  BY <1>2, LenProperties
<1>4. PICK at \in [1..Len(s) -> 1..Len(t)] :
         /\ \A i \in 1..Len(s) : s[i] = t[at[i]]
         /\ \A i, j \in 1..Len(s) : i < j => at[i] < at[j]
  BY <1>1 DEF IsSubsequence
<1>5. IsSubsequence(s, t2)
  <2>1. at \in [DOMAIN s -> DOMAIN t2] /\ \A i \in DOMAIN s : s[i] = t2[at[i]]
    BY <1>1, <1>2, <1>3, <1>4
  <2> QED
    BY <2>1, <1>1, <1>4 DEF IsSubsequence
<1>6. IsSubsequence(s2, t2)
  <2> DEFINE at2 == [i \in 1..Len(s) + 1 |-> IF i <= Len(s) THEN at[i] ELSE Len(t) + 1]
  <2>1. at2 \in [DOMAIN s2 -> DOMAIN t2]
    BY <1>1, <1>3, <1>4
  <2>2. ASSUME NEW i \in DOMAIN s2 PROVE s2[i] = t2[at2[i]]
    <3>1. CASE i \in 1..Len(s)
      BY <1>1, <1>2, <1>4, <3>1
    <3>2. CASE i = Len(s) + 1
      BY <1>1, <1>2, <3>2
    <3> QED
      BY <1>1, <1>3, <3>1, <3>2
  <2>3. ASSUME NEW i \in DOMAIN s2, NEW j \in DOMAIN s2, i < j PROVE at2[i] < at2[j]
    BY <1>1, <1>3, <1>4, <2>3
  <2> HIDE DEF at2
  <2> QED
    BY <2>1, <2>2, <2>3 DEF IsSubsequence
<1> QED
  BY <1>5, <1>6 DEF s2, t2

LEMMA PrefixProperties ==
    ASSUME NEW S, NEW s \in Seq(S), NEW k \in 0..Len(s)
    PROVE  /\ SubSeq(s, 1, k) \in Seq(S) /\ Len(SubSeq(s, 1, k)) = k
           /\ \A i \in 1..k : SubSeq(s, 1, k)[i] = s[i]
<1>1. Len(s) \in Nat
  BY LenProperties
<1>2. \A i \in 1..k : s[i] \in S
  BY <1>1, ElementOfSeq
<1> QED
  BY <1>1, <1>2, SubSeqProperties

LEMMA SubsequencePrefix ==
    ASSUME NEW s \in Seq(Word), NEW t \in Seq(Word), NEW k \in 0..Len(s), IsSubsequence(s, t)
    PROVE  IsSubsequence(SubSeq(s, 1, k), t)
<1> DEFINE p == SubSeq(s, 1, k)
<1>1. /\ DOMAIN s = 1..Len(s) /\ Len(s) \in Nat
  BY LenProperties
<1>2. p \in Seq(Word) /\ Len(p) = k /\ \A i \in 1..k : p[i] = s[i]
  BY PrefixProperties
<1>3. DOMAIN p = 1..k
  BY <1>2, LenProperties
<1> HIDE DEF p
<1>4. PICK at \in [1..Len(s) -> DOMAIN t] :
         /\ \A i \in 1..Len(s) : s[i] = t[at[i]]
         /\ \A i, j \in 1..Len(s) : i < j => at[i] < at[j]
  BY <1>1 DEF IsSubsequence
<1> DEFINE at2 == [i \in 1..k |-> at[i]]
<1>5. 1..k \subseteq 1..Len(s) /\ \A i \in 1..k : at2[i] = at[i]
  BY <1>1
<1>6. at2 \in [DOMAIN p -> DOMAIN t]
  BY <1>3, <1>4, <1>5
<1> HIDE DEF at2
<1>7. \A i \in DOMAIN p : p[i] = t[at2[i]]
  BY <1>2, <1>3, <1>4, <1>5
<1>8. \A i, j \in DOMAIN p : i < j => at2[i] < at2[j]
  BY <1>3, <1>4, <1>5
<1>9. IsSubsequence(p, t)
  BY <1>6, <1>7, <1>8 DEF IsSubsequence
<1> QED
  BY <1>9 DEF p

-----------------------------------------------------------------------------
(* The words on their way *)

\* The words written that are not lost: taken, presented or queued.
Passing == Words(seen) \o Outstanding

InFlight == IF req # ack THEN 1 ELSE 0

LEMMA WordsOf ==
    ASSUME NEW s \in Seq(Word \X Levels)
    PROVE  /\ Words(s) \in Seq(Word) /\ Len(Words(s)) = Len(s) /\ Len(s) \in Nat
           /\ \A i \in 1..Len(s) : Words(s)[i] = s[i][1]
<1>1. DOMAIN s = 1..Len(s) /\ Len(s) \in Nat /\ \A i \in 1..Len(s) : s[i] \in Word \X Levels
  BY LenProperties, ElementOfSeq
<1> QED
  BY <1>1 DEF Words

LEMMA WordWritten ==
    ASSUME NEW s \in Seq(Word \X Levels), NEW l \in Levels, NEW w \in Word
    PROVE  Words(Append(s, <<w, l>>)) = Append(Words(s), w)
<1> DEFINE t == Append(s, <<w, l>>)
           u == Append(Words(s), w)
<1>1. /\ t \in Seq(Word \X Levels) /\ Len(t) = Len(s) + 1
      /\ \A i \in 1..Len(s) : t[i] = s[i]
      /\ t[Len(s) + 1] = <<w, l>>
  BY AppendProperties
<1>2. /\ u \in Seq(Word) /\ Len(u) = Len(s) + 1
      /\ \A i \in 1..Len(s) : u[i] = s[i][1]
      /\ u[Len(s) + 1] = w
  BY WordsOf, AppendProperties
<1> HIDE DEF t, u
<1>3. /\ Words(t) \in Seq(Word) /\ Len(Words(t)) = Len(s) + 1
      /\ \A i \in 1..Len(s) + 1 : Words(t)[i] = t[i][1]
  BY <1>1, WordsOf
<1>4. Len(s) \in Nat
  BY WordsOf
<1>5. ASSUME NEW i \in 1..Len(s) + 1 PROVE Words(t)[i] = u[i]
  <2>1. CASE i = Len(s) + 1
    BY <1>1, <1>2, <1>3, <2>1
  <2>2. CASE i \in 1..Len(s)
    BY <1>1, <1>2, <1>3, <2>2
  <2> QED
    BY <1>4, <2>1, <2>2
<1>6. Words(t) = u
  BY <1>2, <1>3, <1>5, SeqEqual
<1> QED
  BY <1>6 DEF t, u

LEMMA ConcatAt ==
    ASSUME NEW S, NEW s \in Seq(S), NEW t \in Seq(S)
    PROVE  /\ s \o t \in Seq(S) /\ Len(s \o t) = Len(s) + Len(t)
           /\ \A i \in 1..Len(s) : (s \o t)[i] = s[i]
           /\ \A i \in 1..Len(t) : (s \o t)[Len(s) + i] = t[i]
<1> DEFINE u == s \o t
<1>1. /\ Len(s) \in Nat /\ Len(t) \in Nat
      /\ u \in Seq(S) /\ Len(u) = Len(s) + Len(t)
      /\ \A i \in 1..Len(s) + Len(t) : u[i] = IF i <= Len(s) THEN s[i] ELSE t[i - Len(s)]
  BY LenProperties, ConcatProperties
<1> HIDE DEF u
<1>2. \A i \in 1..Len(t) : u[Len(s) + i] = t[i]
  <2> TAKE i \in 1..Len(t)
  <2>1. Len(s) + i \in 1..Len(s) + Len(t) /\ ~(Len(s) + i <= Len(s)) /\ (Len(s) + i) - Len(s) = i
    BY <1>1
  <2> QED
    BY <1>1, <2>1
<1>3. \A i \in 1..Len(s) : u[i] = s[i]
  BY <1>1
<1> QED
  BY <1>1, <1>2, <1>3 DEF u

LEMMA ConcatTwo ==
    ASSUME NEW S, NEW s \in Seq(S), NEW e \in S, NEW f \in S
    PROVE  s \o <<e, f>> = Append(Append(s, e), f)
<1> DEFINE pair == <<e, f>>
           t == s \o pair
           u == Append(s, e)
           v == Append(u, f)
<1>1. pair \in Seq(S) /\ Len(pair) = 2 /\ pair[1] = e /\ pair[2] = f
  OBVIOUS
<1> HIDE DEF pair
<1>2. /\ t \in Seq(S) /\ Len(t) = Len(s) + 2
      /\ \A i \in 1..Len(s) : t[i] = s[i]
      /\ t[Len(s) + 1] = e /\ t[Len(s) + 2] = f
  <2>1. /\ t \in Seq(S) /\ Len(t) = Len(s) + Len(pair)
        /\ \A i \in 1..Len(s) + Len(pair) : t[i] = IF i <= Len(s) THEN s[i] ELSE pair[i - Len(s)]
    BY <1>1, ConcatProperties
  <2>2. Len(s) \in Nat
    BY LenProperties
  <2>3. 1 \in 1..2 /\ Len(s) + 1 - Len(s) = 1 /\ Len(s) + 2 - Len(s) = 2
    BY <2>2
  <2> HIDE DEF t
  <2> QED
    BY <1>1, <2>1, <2>2, <2>3
<1>3. /\ u \in Seq(S) /\ Len(u) = Len(s) + 1
      /\ \A i \in 1..Len(s) : u[i] = s[i]
      /\ u[Len(s) + 1] = e
  BY AppendProperties
<1> HIDE DEF u
<1>4. /\ v \in Seq(S) /\ Len(v) = Len(u) + 1
      /\ \A i \in 1..Len(u) : v[i] = u[i]
      /\ v[Len(u) + 1] = f
  BY <1>3, AppendProperties
<1> HIDE DEF t, v
<1>5. Len(s) \in Nat
  BY LenProperties
<1>6. ASSUME NEW i \in 1..Len(s) + 2 PROVE t[i] = v[i]
  <2>1. CASE i \in 1..Len(s)
    BY <1>2, <1>3, <1>4, <1>5, <2>1
  <2>2. CASE i = Len(s) + 1
    BY <1>1, <1>2, <1>3, <1>4, <1>5, <2>2
  <2>3. CASE i = Len(s) + 2
    BY <1>1, <1>2, <1>3, <1>4, <1>5, <2>3
  <2> QED
    BY <1>5, <2>1, <2>2, <2>3
<1>7. t = v
  BY <1>2, <1>3, <1>4, <1>5, <1>6, SeqEqual
<1> QED
  BY <1>7 DEF t, u, v, pair

LEMMA PairWritten ==
    ASSUME NEW s \in Seq(Word \X Levels), NEW l \in Levels
    PROVE  \A w1, w2 \in Word :
              Words(s \o <<<<w1, l>>, <<w2, l>>>>) = Append(Append(Words(s), w1), w2)
<1>1. ASSUME NEW w1 \in Word, NEW w2 \in Word
      PROVE  s \o <<<<w1, l>>, <<w2, l>>>> = Append(Append(s, <<w1, l>>), <<w2, l>>)
  BY ConcatTwo
<1>2. ASSUME NEW w1 \in Word, NEW w2 \in Word
      PROVE  Words(s \o <<<<w1, l>>, <<w2, l>>>>) = Append(Append(Words(s), w1), w2)
  <2> DEFINE u == Append(s, <<w1, l>>)
  <2>1. u \in Seq(Word \X Levels)
    BY AppendProperties
  <2>2. Words(u) = Append(Words(s), w1)
    BY WordWritten
  <2> HIDE DEF u
  <2>3. Words(Append(u, <<w2, l>>)) = Append(Words(u), w2)
    BY <2>1, WordWritten
  <2> QED
    BY <1>1, <2>2, <2>3 DEF u
<1> QED
  BY <1>2

\* Where the bridge holds which word.
LEMMA OutstandingShape ==
    ASSUME IInv
    PROVE  /\ Outstanding \in Seq(Word) /\ Len(Outstanding) = InFlight + count
           /\ req # ack => Outstanding[1] = word
           /\ count > 0 => Outstanding[InFlight + 1] = q0
           /\ count = 2 => Outstanding[InFlight + 2] = q1
<1>1. count \in 0..2 /\ word \in Word /\ q0 \in Word /\ q1 \in Word
  BY DEF IInv, TypeOK
<1>2. CASE count = 0
  BY <1>1, <1>2 DEF Outstanding, InFlight, Queued
<1>3. CASE count = 1
  BY <1>1, <1>3 DEF Outstanding, InFlight, Queued
<1>4. CASE count = 2
  BY <1>1, <1>4 DEF Outstanding, InFlight, Queued
<1> QED
  BY <1>1, <1>2, <1>3, <1>4

PassingOK ==
    /\ Passing \in Seq(Word) /\ Len(Passing) = Len(seen) + InFlight + count
    /\ Len(seen) \in Nat /\ InFlight \in {0, 1} /\ count \in 0..2
    /\ \A i \in 1..Len(seen) : Passing[i] = seen[i][1]
    /\ req # ack => Passing[Len(seen) + 1] = word
    /\ count > 0 => Passing[Len(seen) + InFlight + 1] = q0
    /\ count = 2 => Passing[Len(seen) + InFlight + 2] = q1

LEMMA PassingShape == IInv /\ HostTypeOK => PassingOK
<1> SUFFICES ASSUME IInv, HostTypeOK PROVE PassingOK
  OBVIOUS
<1> DEFINE t == Words(seen)
           o == Outstanding
<1>1. /\ t \in Seq(Word) /\ Len(t) = Len(seen) /\ Len(seen) \in Nat
      /\ \A i \in 1..Len(seen) : t[i] = seen[i][1]
  BY WordsOf DEF HostTypeOK
<1>2. InFlight \in {0, 1} /\ count \in 0..2 /\ (req # ack => InFlight = 1)
  BY DEF InFlight, IInv, TypeOK
<1>3. /\ o \in Seq(Word) /\ Len(o) = InFlight + count
      /\ req # ack => o[1] = word
      /\ count > 0 => o[InFlight + 1] = q0
      /\ count = 2 => o[InFlight + 2] = q1
  BY OutstandingShape
<1> HIDE DEF t, o
<1>4. /\ t \o o \in Seq(Word) /\ Len(t \o o) = Len(t) + Len(o)
      /\ \A i \in 1..Len(t) : (t \o o)[i] = t[i]
      /\ \A i \in 1..Len(o) : (t \o o)[Len(t) + i] = o[i]
  <2>1. t \in Seq(Word) /\ o \in Seq(Word)
    BY <1>1, <1>3
  <2> QED
    BY <2>1, ConcatAt
<1>5. Passing = t \o o
  BY DEF Passing, t, o
<1>6. \A i \in 1..(InFlight + count) : Passing[Len(seen) + i] = o[i]
  BY <1>1, <1>3, <1>4, <1>5
<1>7. /\ Passing \in Seq(Word) /\ Len(Passing) = Len(seen) + InFlight + count
      /\ \A i \in 1..Len(seen) : Passing[i] = seen[i][1]
  BY <1>1, <1>2, <1>3, <1>4, <1>5
<1>8. /\ req # ack => Passing[Len(seen) + 1] = word
      /\ count > 0 => Passing[Len(seen) + InFlight + 1] = q0
      /\ count = 2 => Passing[Len(seen) + InFlight + 2] = q1
  BY <1>1, <1>2, <1>3, <1>6
<1> QED
  BY <1>1, <1>2, <1>7, <1>8 DEF PassingOK

LEMMA PassingShapeNext == IInv' /\ HostTypeOK' => PassingOK'
  BY PassingShape, PTL

\* An edge of the sys clock without a write hands a word over or does nothing.
LEMMA SysTickKeepsPassing ==
    HostInv /\ HostTypeOK' /\ SysTick /\ seen' = seen => Passing' = Passing
<1> SUFFICES ASSUME HostInv, HostTypeOK', SysTick, seen' = seen PROVE Passing' = Passing
  OBVIOUS
<1>1. IInv' /\ IInv /\ HostTypeOK
  BY SysTickKeepsIInv DEF HostInv
<1>2. CASE Pop
  <2>1. /\ InFlight = 0 /\ InFlight' = 1 /\ count' = count - 1 /\ count > 0 /\ count \in 0..2
        /\ word' = q0 /\ q0' = q1 /\ req' # ack'
    BY <1>1, <1>2 DEF Pop, InFlight, idle, corevars, IInv, TypeOK, HandshakeInv, RingInv, Bit
  <2>2. PassingOK /\ PassingOK'
    BY <1>1, PassingShape, PassingShapeNext
  <2>3. Len(Passing') = Len(Passing) /\ Passing \in Seq(Word) /\ Passing' \in Seq(Word)
    BY <2>1, <2>2 DEF PassingOK
  <2>4. ASSUME NEW i \in 1..Len(Passing) PROVE Passing[i] = Passing'[i]
    <3>1. CASE i \in 1..Len(seen)
      BY <2>2, <3>1 DEF PassingOK
    <3>2. CASE i = Len(seen) + 1
      BY <2>1, <2>2, <3>2 DEF PassingOK
    <3>3. CASE i = Len(seen) + 2 /\ count = 2
      BY <2>1, <2>2, <3>3 DEF PassingOK
    <3> QED
      BY <2>1, <2>2, <3>1, <3>2, <3>3 DEF PassingOK
  <2> QED
    BY <2>3, <2>4, SeqEqual
<1>3. CASE SysWait
  BY <1>3 DEF SysWait, corevars, Passing, Outstanding, Queued
<1> QED
  BY <1>2, <1>3 DEF SysTick

\* So does an edge of the core clock: the word that is strobed is taken.
LEMMA CoreSideKeepsPassing ==
    HostInv /\ HostTypeOK' /\ CoreSide => Passing' = Passing
<1> SUFFICES ASSUME HostInv, HostTypeOK', CoreSide PROVE Passing' = Passing
  OBVIOUS
<1>1. PICK d \in Word : CoreTick(d)
  BY DEF CoreSide, HostInv, HostTypeOK
<1>2. IInv' /\ IInv /\ HostTypeOK
  <2>1. CoreEdge
    BY <1>1 DEF CoreEdge
  <2> QED
    BY <2>1, CoreEdgeKeepsIInv DEF HostInv
<1> USE DEF IInv, TypeOK, HandshakeInv, RingInv, TransactionInv, Bit
<1>3. CASE state # 2
  <2>1. seen' = seen
    BY <1>2, <1>3 DEF CoreSide, HpsIo
  <2>2. UNCHANGED <<req, ack, word, q0, q1, count>>
    BY <1>1, <1>3 DEF CoreTick, Capture, CoreWait, Strobe, Acknowledge, sysvars
  <2> QED
    BY <2>1, <2>2 DEF Passing, Outstanding, Queued
<1>4. CASE state = 2
  <2>1. /\ UNCHANGED <<req, word, q0, q1, count>> /\ ack # req /\ ack' = req /\ io_strobe = 1 /\ io_din = word
    BY <1>1, <1>2, <1>4 DEF CoreTick, Capture, CoreWait, Strobe, Acknowledge, sysvars
  <2>2. seen' = Append(seen, <<word, enable>>) /\ enable \in Levels
    BY <1>2, <2>1 DEF CoreSide, HpsIo, HostTypeOK
  <2>3. /\ Len(seen') = Len(seen) + 1 /\ Len(seen) \in Nat
        /\ \A i \in 1..Len(seen) : seen'[i] = seen[i]
        /\ seen'[Len(seen) + 1] = <<word, enable>>
    <3>1. seen \in Seq(Word \X Levels) /\ <<word, enable>> \in Word \X Levels
      BY <1>2, <2>2 DEF HostTypeOK
    <3> QED
      BY <2>2, <3>1, AppendProperties, LenProperties
  <2>4. InFlight = 1 /\ InFlight' = 0
    BY <2>1 DEF InFlight
  <2>5. PassingOK /\ PassingOK'
    BY <1>2, PassingShape, PassingShapeNext
  <2> USE DEF PassingOK
  <2>6. Len(Passing') = Len(Passing) /\ Passing \in Seq(Word) /\ Passing' \in Seq(Word)
    BY <2>1, <2>3, <2>4, <2>5
  <2>7. ASSUME NEW i \in 1..Len(Passing) PROVE Passing[i] = Passing'[i]
    <3>1. CASE i \in 1..Len(seen)
      <4>1. i \in 1..Len(seen') /\ seen'[i] = seen[i]
        BY <2>3, <3>1
      <4> QED
        BY <2>5, <3>1, <4>1
    <3>2. CASE i = Len(seen) + 1
      <4>1. Passing[i] = word
        BY <2>1, <2>5, <3>2
      <4>2. i \in 1..Len(seen') /\ seen'[i][1] = word
        BY <2>3, <3>2
      <4> QED
        BY <2>5, <4>1, <4>2
    <3>3. CASE i = Len(seen) + 2 /\ count > 0
      BY <2>1, <2>3, <2>4, <2>5, <3>3
    <3>4. CASE i = Len(seen) + 3 /\ count = 2
      BY <2>1, <2>3, <2>4, <2>5, <3>4
    <3> QED
      BY <2>4, <2>5, <3>1, <3>2, <3>3, <3>4
  <2> QED
    BY <2>6, <2>7, SeqEqual
<1> QED
  BY <1>3, <1>4

\* A single write adds its word, if there is room for it.
LEMMA PushDinPassing ==
    ASSUME NEW w \in Word
    PROVE  HostInv /\ HostTypeOK' /\ PushDin(w) /\ seen' = seen =>
              Passing' = IF count < 2 THEN Append(Passing, w) ELSE Passing
<1> SUFFICES ASSUME HostInv, HostTypeOK', PushDin(w), seen' = seen
             PROVE  Passing' = IF count < 2 THEN Append(Passing, w) ELSE Passing
  OBVIOUS
<1>1. IInv' /\ IInv /\ HostTypeOK
  <2>1. Push
    BY DEF Push
  <2> QED
    BY <2>1, PushKeepsIInv DEF HostInv
<1>2. count \in 0..2 /\ UNCHANGED <<req, ack, word>> /\ InFlight' = InFlight /\ InFlight \in {0, 1}
  BY <1>1 DEF PushDin, corevars, IInv, TypeOK, InFlight
<1>3. CASE count < 2
  <2> DEFINE u == Append(Passing, w)
  <2>1. PassingOK /\ PassingOK'
    BY <1>1, PassingShape, PassingShapeNext
  <2>2. /\ u \in Seq(Word) /\ Len(u) = Len(Passing) + 1 /\ u[Len(Passing) + 1] = w
        /\ \A i \in 1..Len(Passing) : u[i] = Passing[i]
    BY <2>1, AppendProperties DEF PassingOK
  <2> HIDE DEF u
  <2>3. Len(Passing') = Len(u) /\ Passing' \in Seq(Word)
    BY <1>2, <1>3, <2>1, <2>2 DEF PassingOK, PushDin
  <2>4. ASSUME NEW i \in 1..Len(u) PROVE Passing'[i] = u[i]
    <3>1. CASE i \in 1..Len(seen)
      BY <1>2, <2>1, <2>2, <3>1 DEF PassingOK
    <3>2. CASE i = Len(seen) + 1 /\ req # ack
      BY <1>2, <2>1, <2>2, <3>2 DEF PassingOK, InFlight
    <3>3. CASE i = Len(seen) + InFlight + 1 /\ count = 0
      BY <1>2, <2>1, <2>2, <3>3 DEF PassingOK, PushDin
    <3>4. CASE i = Len(seen) + InFlight + 1 /\ count = 1
      BY <1>2, <2>1, <2>2, <3>4 DEF PassingOK, PushDin
    <3>5. CASE i = Len(seen) + InFlight + 2 /\ count = 1
      BY <1>2, <2>1, <2>2, <3>5 DEF PassingOK, PushDin
    <3> QED
      BY <1>2, <1>3, <2>1, <2>2, <3>1, <3>2, <3>3, <3>4, <3>5 DEF PassingOK, InFlight
  <2>5. Passing' = u
    BY <2>2, <2>3, <2>4, SeqEqual
  <2> QED
    BY <1>3, <2>5 DEF u
<1>4. CASE count = 2
  BY <1>2, <1>4 DEF PushDin, corevars, Passing, Outstanding, Queued
<1> QED
  BY <1>2, <1>3, <1>4

\* A double write replaces the words that are queued.
LEMMA PushDin2Passing ==
    ASSUME NEW w1 \in Word, NEW w2 \in Word
    PROVE  HostInv /\ HostTypeOK' /\ PushDin2(w1, w2) /\ seen' = seen =>
              Passing' = Append(Append(SubSeq(Passing, 1, Len(seen) + InFlight), w1), w2)
<1> SUFFICES ASSUME HostInv, HostTypeOK', PushDin2(w1, w2), seen' = seen
             PROVE  Passing' = Append(Append(SubSeq(Passing, 1, Len(seen) + InFlight), w1), w2)
  OBVIOUS
<1>1. IInv' /\ IInv /\ HostTypeOK
  <2>1. Push
    BY DEF Push
  <2> QED
    BY <2>1, PushKeepsIInv DEF HostInv
<1>2. /\ UNCHANGED <<req, ack, word>> /\ InFlight' = InFlight /\ InFlight \in {0, 1}
      /\ count' = 2 /\ q0' = w1 /\ q1' = w2
  BY <1>1 DEF PushDin2, corevars, InFlight
<1>3. PassingOK /\ PassingOK'
  BY <1>1, PassingShape, PassingShapeNext
<1> DEFINE k == Len(seen) + InFlight
           p == SubSeq(Passing, 1, k)
           u == Append(p, w1)
           v == Append(u, w2)
<1>4. k \in 0..Len(Passing) /\ k \in Nat /\ Len(seen) \in Nat /\ Len(Passing) \in Nat
  BY <1>2, <1>3 DEF PassingOK
<1>5. p \in Seq(Word) /\ Len(p) = k /\ \A i \in 1..k : p[i] = Passing[i]
  <2>1. Passing \in Seq(Word)
    BY <1>3 DEF PassingOK
  <2> HIDE DEF k
  <2> QED
    BY <1>4, <2>1, PrefixProperties
<1> HIDE DEF p
<1>6. /\ u \in Seq(Word) /\ Len(u) = Len(p) + 1 /\ u[Len(p) + 1] = w1
      /\ \A i \in 1..Len(p) : u[i] = p[i]
  BY <1>5, AppendProperties
<1> HIDE DEF u
<1>7. /\ v \in Seq(Word) /\ Len(v) = Len(u) + 1 /\ v[Len(u) + 1] = w2
      /\ \A i \in 1..Len(u) : v[i] = u[i]
  BY <1>6, AppendProperties
<1> HIDE DEF v
<1>8. Len(Passing') = Len(v) /\ Passing' \in Seq(Word)
  <2>1. Passing' \in Seq(Word) /\ Len(Passing') = Len(seen) + InFlight + 2
    BY <1>2, <1>3 DEF PassingOK
  <2>2. Len(v) = k + 2
    BY <1>4, <1>5, <1>6, <1>7
  <2> QED
    BY <1>2, <1>4, <2>1, <2>2
<1>9. ASSUME NEW i \in 1..Len(v) PROVE Passing'[i] = v[i]
  <2>1. CASE i \in 1..k
    <3>1. v[i] = Passing[i]
      BY <1>4, <1>5, <1>6, <1>7, <2>1
    <3>2. CASE i \in 1..Len(seen)
      BY <1>2, <1>3, <3>1, <3>2 DEF PassingOK
    <3>3. CASE i = Len(seen) + 1 /\ req # ack
      BY <1>2, <1>3, <3>1, <3>3 DEF PassingOK
    <3> QED
      BY <1>2, <1>4, <2>1, <3>2, <3>3 DEF InFlight
  <2>2. CASE i = k + 1
    BY <1>2, <1>3, <1>4, <1>5, <1>6, <1>7, <2>2 DEF PassingOK
  <2>3. CASE i = k + 2
    BY <1>2, <1>3, <1>4, <1>5, <1>6, <1>7, <2>3 DEF PassingOK
  <2> QED
    BY <1>4, <1>5, <1>6, <1>7, <2>1, <2>2, <2>3
<1>10. Passing' = v
  BY <1>7, <1>8, <1>9, SeqEqual
<1> QED
  BY <1>10 DEF v, u, p

\* What a step does to the words, whichever action it is.
LEMMA WritesAndOthers ==
    HostInv /\ [HostNext]_hvars =>
        \/ \E w \in Word : WriteDin(w)
        \/ \E w1, w2 \in Word : WriteDin2(w1, w2)
        \/ SysTick /\ UNCHANGED <<seen, sent>>
        \/ CoreSide
        \/ UNCHANGED <<vars, seen, sent>>
<1> SUFFICES ASSUME HostInv, [HostNext]_hvars
             PROVE  \/ \E w \in Word : WriteDin(w)
                    \/ \E w1, w2 \in Word : WriteDin2(w1, w2)
                    \/ SysTick /\ UNCHANGED <<seen, sent>>
                    \/ CoreSide
                    \/ UNCHANGED <<vars, seen, sent>>
  OBVIOUS
<1>1. HostStep => \/ \E w \in Word : WriteDin(w)
                  \/ \E w1, w2 \in Word : WriteDin2(w1, w2)
                  \/ SysTick /\ UNCHANGED <<seen, sent>>
  BY BridgeAssumption DEF HostStep, SpiPoll, SpiRead, WritePair, WriteOne, ReadWrite, ReadRead, ReadDout, SysSide, Access
<1>2. HostCall => \/ \E w \in Word : WriteDin(w)
                  \/ SysTick /\ UNCHANGED <<seen, sent>>
  BY BridgeAssumption DEF HostCall, SpiWrite, FastWrite, Block, SpiEn, SysSide, Access
<1>3. Restart \/ SysIdle => SysTick /\ UNCHANGED <<seen, sent>>
  BY DEF Restart, SysIdle, SysSide, Access
<1>4. Exit \/ UNCHANGED hvars => UNCHANGED <<vars, seen, sent>>
  BY DEF Exit, hvars, ghosts
<1> QED
  BY <1>1, <1>2, <1>3, <1>4 DEF HostNext

Written == Words(sent)

LEMMA StreamStep ==
    HostInv /\ HostTypeOK' /\ [HostNext]_hvars =>
        \/ Passing' = Passing /\ Written' = Written
        \/ \E w \in Word : /\ Written' = Append(Written, w)
                           /\ Passing' = IF count < 2 THEN Append(Passing, w) ELSE Passing
        \/ \E w1, w2 \in Word :
              /\ Written' = Append(Append(Written, w1), w2)
              /\ Passing' = Append(Append(SubSeq(Passing, 1, Len(seen) + InFlight), w1), w2)
<1> SUFFICES ASSUME HostInv, HostTypeOK', [HostNext]_hvars
             PROVE  \/ Passing' = Passing /\ Written' = Written
                    \/ \E w \in Word : /\ Written' = Append(Written, w)
                                       /\ Passing' = IF count < 2 THEN Append(Passing, w) ELSE Passing
                    \/ \E w1, w2 \in Word :
                          /\ Written' = Append(Append(Written, w1), w2)
                          /\ Passing' = Append(Append(SubSeq(Passing, 1, Len(seen) + InFlight), w1), w2)
  OBVIOUS
<1>0. sent \in Seq(Word \X Levels) /\ en \in Levels
  BY DEF HostInv, HostTypeOK
<1>1. ASSUME NEW w \in Word, WriteDin(w)
      PROVE  /\ Written' = Append(Written, w)
             /\ Passing' = IF count < 2 THEN Append(Passing, w) ELSE Passing
  <2>1. PushDin(w) /\ seen' = seen /\ sent' = Append(sent, <<w, en>>)
    BY <1>1 DEF WriteDin, SysSide, Access
  <2>2. Written' = Append(Written, w)
    BY <1>0, <2>1, WordWritten DEF Written
  <2> QED
    BY <2>1, <2>2, PushDinPassing
<1>2. ASSUME NEW w1 \in Word, NEW w2 \in Word, WriteDin2(w1, w2)
      PROVE  /\ Written' = Append(Append(Written, w1), w2)
             /\ Passing' = Append(Append(SubSeq(Passing, 1, Len(seen) + InFlight), w1), w2)
  <2>1. PushDin2(w1, w2) /\ seen' = seen /\ sent' = sent \o <<<<w1, en>>, <<w2, en>>>>
    BY <1>2 DEF WriteDin2, SysSide, Access
  <2>2. Written' = Append(Append(Written, w1), w2)
    BY <1>0, <2>1, PairWritten DEF Written
  <2> QED
    BY <2>1, <2>2, PushDin2Passing
<1>3. CASE SysTick /\ UNCHANGED <<seen, sent>>
  BY <1>3, SysTickKeepsPassing DEF Written
<1>4. CASE CoreSide
  <2>1. Written' = Written
    BY <1>4 DEF CoreSide, Written
  <2> QED
    BY <1>4, <2>1, CoreSideKeepsPassing
<1>5. CASE UNCHANGED <<vars, seen, sent>>
  BY <1>5 DEF vars, sysvars, corevars, Passing, Outstanding, Queued, Written
<1> QED
  BY <1>1, <1>2, <1>3, <1>4, <1>5, WritesAndOthers

InOrderOf == IsSubsequence(Passing, Written)

LEMMA InOrderKept ==
    HostInv /\ HostTypeOK' /\ InOrderOf /\ [HostNext]_hvars => InOrderOf'
<1> SUFFICES ASSUME HostInv, HostTypeOK', InOrderOf, [HostNext]_hvars
             PROVE  IsSubsequence(Passing', Written')
  BY DEF InOrderOf
<1>1. Passing \in Seq(Word) /\ Written \in Seq(Word) /\ IsSubsequence(Passing, Written)
  BY PassingShape, WordsOf DEF HostInv, HostTypeOK, PassingOK, Written, InOrderOf
<1>2. CASE Passing' = Passing /\ Written' = Written
  BY <1>1, <1>2
<1>3. ASSUME NEW w \in Word, Written' = Append(Written, w),
             Passing' = IF count < 2 THEN Append(Passing, w) ELSE Passing
      PROVE  IsSubsequence(Passing', Written')
  <2>1. /\ IsSubsequence(Passing, Append(Written, w))
        /\ IsSubsequence(Append(Passing, w), Append(Written, w))
    BY <1>1, SubsequenceAppend
  <2> QED
    BY <1>3, <2>1
<1>4. ASSUME NEW w1 \in Word, NEW w2 \in Word,
             Written' = Append(Append(Written, w1), w2),
             Passing' = Append(Append(SubSeq(Passing, 1, Len(seen) + InFlight), w1), w2)
      PROVE  IsSubsequence(Passing', Written')
  <2> DEFINE k == Len(seen) + InFlight
             s == SubSeq(Passing, 1, k)
  <2>1. k \in 0..Len(Passing)
    BY PassingShape DEF HostInv, PassingOK
  <2> HIDE DEF k
  <2>2. s \in Seq(Word) /\ IsSubsequence(s, Written)
    BY <1>1, <2>1, SubsequencePrefix, PrefixProperties
  <2> HIDE DEF s
  <2>3. /\ Append(s, w1) \in Seq(Word) /\ Append(Written, w1) \in Seq(Word)
        /\ IsSubsequence(Append(s, w1), Append(Written, w1))
    BY <1>1, <2>2, SubsequenceAppend, AppendProperties
  <2>4. IsSubsequence(Append(Append(s, w1), w2), Append(Append(Written, w1), w2))
    BY <2>3, SubsequenceAppend
  <2> QED
    BY <1>4, <2>4 DEF s, k
<1> QED
  BY <1>2, <1>3, <1>4, StreamStep

\* Whatever a program writes, waits for or abandons, hps_io never takes a word
\* twice, out of order, or one that was not written.
THEOREM TakenInOrder == HostSpec => []InOrder
<1>1. HostInit => InOrderOf
  <2> SUFFICES ASSUME HostInit PROVE InOrderOf
    OBVIOUS
  <2>1. seen = <<>> /\ sent = <<>> /\ count = 0 /\ req = ack
    BY DEF HostInit, Init
  <2>2. Outstanding = <<>> /\ Words(seen) = <<>> /\ Written = <<>>
    BY <2>1 DEF Outstanding, Queued, Words, Written
  <2>3. Passing = <<>>
    BY <2>2, ConcatEmptySeq, EmptySeq DEF Passing
  <2> QED
    BY <2>2, <2>3, SubsequenceRefl, EmptySeq DEF InOrderOf
<1>2. HostInv' => HostTypeOK'
  BY DEF HostInv
<1>3. InOrderOf => InOrder
  BY DEF InOrderOf, InOrder, Passing, Written, Words
<1> QED
  BY <1>1, <1>2, <1>3, InOrderKept, HostInvariant, PTL DEF HostSpec

-----------------------------------------------------------------------------
(* The answer, and the levels a word is taken under *)

\* What an answered call knows of the bridge.
AnsweredOK ==
    /\ count = 0 \/ (count = 1 /\ idle)
    /\ pc \in {"ready", "spi_read"} => ~busy
    /\ pc \in {"ready", "spi_poll", "spi_read", "dead"}

LEMMA Answered == HostInv /\ RoomInv /\ SpiOnly /\ clean => AnsweredOK
  BY DEF HostInv, RoomInv, Tracked, AnsweredOK

\* An edge of the sys clock that neither reads nor writes.
LEMMA SysTickKeepsAnswer ==
    /\ IInv /\ AnsweredOK /\ AnswerOK /\ SysTick
    /\ UNCHANGED <<pc, sent, answer, en, en_was, en1, enable, io_dout>> /\ dout_was' = dout_core
    => AnswerOK'
<1> SUFFICES ASSUME IInv, AnsweredOK, AnswerOK, SysTick,
                    UNCHANGED <<pc, sent, answer, en, en_was, en1, enable, io_dout>>, dout_was' = dout_core
             PROVE  AnswerOK'
  OBVIOUS
<1>1. busy' => busy
  BY SysTickFacts
<1>2. Last' = Last /\ Answer(Last[1], en)' = Answer(Last[1], en) /\ (Settled' <=> Settled)
  BY DEF Last, Answer, Selected, Settled
<1> USE DEF IInv, TypeOK, HandshakeInv, RingInv, TransactionInv, Bit
<1>3. CASE Pop
  <2>1. /\ count = 1 /\ idle /\ req = ack /\ req1 = ack /\ req_s = ack /\ state = 0
        /\ count' = 0 /\ word' = q0 /\ req' # ack' /\ Waiting /\ Waiting' /\ busy
        /\ req1' = ack' /\ req_s' = ack' /\ state' = 0 /\ dout_core' = dout_core
    BY <1>3 DEF Pop, AnsweredOK, idle, corevars, Waiting, busy
  <2>2. AnswerComing' <=> AnswerComing
    BY <1>2, <1>3 DEF AnswerComing, Pop, corevars, Selected
  <2> QED
    BY <1>1, <1>2, <2>1, <2>2 DEF AnswerOK, AnsweredOK
<1>4. CASE SysWait
  <2>1. UNCHANGED <<count, req, ack, req1, req_s, state, word, q0, dout_core>>
    BY <1>4 DEF SysWait, corevars
  <2>2. (AnswerComing' <=> AnswerComing) /\ (Waiting' <=> Waiting)
    BY <1>2, <2>1 DEF AnswerComing, Waiting, Selected
  <2> QED
    BY <1>1, <1>2, <2>1, <2>2 DEF AnswerOK, AnsweredOK
<1> QED
  BY <1>3, <1>4 DEF SysTick

LEMMA BackendKeepsAnswer ==
    HostInv /\ AnsweredOK /\ AnswerOK /\ SpiStep /\ ~CoreSide /\ clean' => AnswerOK'
<1> SUFFICES ASSUME HostInv, AnsweredOK, AnswerOK, SpiStep, ~CoreSide, clean' PROVE AnswerOK'
  OBVIOUS
<1>0. IInv /\ sent \in Seq(Word \X Levels) /\ en \in Levels /\ count \in 0..2
  BY DEF HostInv, HostTypeOK, IInv, TypeOK
<1>1. ~busy => /\ count = 0 /\ req = ack_s /\ req1 = req /\ req_s = req /\ ack = req /\ ack1 = req
               /\ state = 0 /\ ~Waiting
  BY <1>0 DEF busy, idle, IInv, TypeOK, HandshakeInv, RingInv, TransactionInv, Bit, Waiting
<1>2. SysTick /\ ~busy => /\ UNCHANGED <<q0, q1, count, word, req, ack_s, req1, req_s, ack, state, dout_core>>
                          /\ ~busy' /\ (Waiting' <=> Waiting)
  BY <1>1 DEF SysTick, Pop, SysWait, SampleAck, corevars, busy, idle, Waiting
<1>3. ASSUME NEW w \in Word, SpiWrite(w) PROVE AnswerOK'
  <2>1. ~busy /\ pc = "ready"
    BY <1>3 DEF SpiWrite, AnsweredOK
  <2>2. /\ q0' = w /\ count' = 1 /\ UNCHANGED <<word, req, req1, req_s, ack, state, dout_core>>
        /\ pc' = "spi_poll" /\ UNCHANGED <<en, en_was, en1, enable, io_dout, answer>>
        /\ sent' = Append(sent, <<w, en>>) /\ en # {}
    BY <1>1, <1>3, <2>1 DEF SpiWrite, WriteDin, PushDin, SysSide, Access, corevars, levels
  <2>3. sent' # <<>> /\ Last' = <<w, en>>
    <3>1. /\ Len(sent') = Len(sent) + 1 /\ sent' # <<>> /\ sent'[Len(sent) + 1] = <<w, en>>
      BY <1>0, <2>2, AppendProperties
    <3> QED
      BY <3>1 DEF Last
  <2>4. AnswerComing'
    BY <1>1, <2>1, <2>2 DEF AnswerOK, AnswerComing, Settled, Selected
  <2>5. Waiting'
    BY <2>2 DEF Waiting
  <2> QED
    BY <1>1, <2>1, <2>2, <2>3, <2>4, <2>5 DEF AnswerOK
<1>4. CASE SpiPoll
  <2>1. /\ SysTick /\ pc = "spi_poll" /\ pc' \in {"spi_poll", "spi_read"}
        /\ UNCHANGED <<sent, answer, en, en_was, en1, enable, io_dout>> /\ dout_was' = dout_core
    BY <1>4 DEF SpiPoll, GoOn, SysSide, Access, levels
  <2>2. CASE pc' = "spi_poll"
    BY <1>0, <2>1, <2>2, SysTickKeepsAnswer
  <2>3. CASE pc' = "spi_read"
    <3>1. ~busy
      BY <1>4, <2>3 DEF SpiPoll, GoOn, Registers
    <3>2. Last' = Last /\ Answer(Last[1], en)' = Answer(Last[1], en) /\ (Settled' <=> Settled)
      BY <2>1 DEF Last, Answer, Selected, Settled
    <3> QED
      BY <1>1, <1>2, <2>1, <2>3, <3>1, <3>2 DEF AnswerOK
  <2> QED
    BY <2>1, <2>2, <2>3
<1>5. CASE SpiRead
  <2>1. ~busy /\ pc = "spi_read" /\ ~Waiting
    BY <1>1, <1>5 DEF SpiRead, AnsweredOK
  <2>2. /\ SysTick /\ pc' = "ready" /\ answer' = Answer(Last[1], en)
        /\ UNCHANGED <<sent, en, en_was, en1, enable, io_dout>>
    BY <1>5 DEF SpiRead, ReadDout, SysSide, Access, levels, Last
  <2>3. Settled /\ io_dout = Answer(Last[1], en)
    BY <1>1, <2>1 DEF AnswerOK
  <2>4. AnswerComing'
    BY <2>2, <2>3 DEF AnswerComing, Answer, Settled, Selected
  <2> QED
    BY <1>1, <1>2, <2>1, <2>2, <2>4 DEF AnswerOK
<1>6. ASSUME NEW mask \in use.masks, NEW high \in BOOLEAN, SpiEn(mask, high) PROVE AnswerOK'
  <2>1. ~busy /\ pc = "ready"
    BY <1>6 DEF SpiEn, AnsweredOK
  <2>2. /\ SysTick /\ pc' = "ready" /\ answer' = Zero /\ UNCHANGED <<sent, en1, enable, io_dout>>
    BY <1>6, <2>1 DEF SpiEn, SysSide, Access, levels, backend
  <2>3. high => en1 = {} \/ enable = {}
    BY <1>6, Zenon DEF SpiEn, LowWasSampled
  <2>4. ~high => en' = {}
    BY <1>6 DEF SpiEn
  <2>5. AnswerComing'
    BY <1>1, <1>2, <2>1, <2>2, <2>3, <2>4 DEF AnswerComing
  <2> QED
    BY <1>1, <1>2, <2>1, <2>2, <2>5 DEF AnswerOK
<1>7. CASE Exit
  <2>1. pc' = "dead" /\ UNCHANGED <<vars, en, en_was, levels, sent>>
    BY <1>7 DEF Exit, ghosts
  <2>2. UNCHANGED <<count, q0, word, req, ack_s, req1, req_s, ack, state, en, en_was, en1, enable, Last, busy, sent>>
    BY <2>1 DEF vars, sysvars, corevars, levels, Last, busy, idle
  <2> QED
    BY <2>1, <2>2 DEF AnswerOK
<1>8. CASE Restart
  <2>1. SysTick /\ pc' = "ready" /\ answer' = Zero /\ en' = {}
    BY <1>8 DEF Restart
  <2>2. ~busy
    BY <1>8, Zenon DEF Restart
  <2>3. AnswerComing'
    BY <2>1 DEF AnswerComing
  <2> QED
    BY <1>1, <1>2, <2>1, <2>2, <2>3 DEF AnswerOK
<1>9. CASE SysIdle
  BY <1>0, <1>9, SysTickKeepsAnswer DEF SysIdle, SysSide, Access, backend, levels
<1> QED
  BY <1>3, <1>4, <1>5, <1>6, <1>7, <1>8, <1>9 DEF SpiStep

LEMMA CoreSideKeepsAnswer ==
    HostInv /\ AnsweredOK /\ AnswerOK /\ CoreSide => AnswerOK'
<1> SUFFICES ASSUME HostInv, AnsweredOK, AnswerOK, CoreSide PROVE AnswerOK'
  OBVIOUS
<1>0. IInv /\ enable \in Levels
  BY DEF HostInv, HostTypeOK
<1>1. /\ UNCHANGED <<sysvars, pc, en, sent, answer, Last>> /\ CoreTick(io_dout)
      /\ enable' = en1 /\ en_was' = en
      /\ en_was = en => en1' = en
      /\ io_dout' = IF ~Selected(enable) THEN Zero ELSE IF io_strobe = 1 THEN io_din ELSE io_dout
      /\ dout_core' = dout_core => dout_was' = dout_was
  <2>1. ASSUME en_was = en PROVE en1' = en
    <3>1. en1' \subseteq en /\ en \subseteq en1'
      BY <2>1 DEF CoreSide, SampleLevels
    <3> QED
      BY <3>1
  <2> QED
    BY <2>1 DEF CoreSide, CoreTick, Capture, CoreWait, Strobe, Acknowledge, SampleLevels, HpsIo, backend, Last
<1>2. /\ UNCHANGED <<count, q0, word, req, ack_s>> /\ req1' = req /\ req_s' = req1 /\ (busy' <=> busy)
  BY <1>1 DEF sysvars, busy, idle, CoreTick, Capture, CoreWait, Strobe, Acknowledge, SampleReq
<1>3. req # ack => count = 0 /\ pc \in {"spi_poll", "dead"}
  BY <1>0 DEF AnsweredOK, busy, idle, IInv, TypeOK, HandshakeInv, RingInv, TransactionInv, Bit
<1>4. ~Selected({})
  BY DEF Selected
<1>5. CASE CoreWait
  <2>1. UNCHANGED <<ack, state, dout_core>> /\ state = 0 /\ req_s = ack /\ io_strobe = 0
    BY <1>0, <1>5 DEF CoreWait, IInv, TypeOK, HandshakeInv, TransactionInv, Bit
  <2>2. (Waiting' <=> Waiting)
    BY <1>2, <2>1 DEF Waiting
  <2>3. Settled => Settled' /\ io_dout' = IF Selected(en) THEN io_dout ELSE Zero
    BY <1>1, <2>1 DEF Settled
  <2>4. AnswerComing => AnswerComing'
    <3>1. CASE io_dout = answer /\ answer = Zero
      BY <1>1, <2>1, <3>1 DEF AnswerComing
    <3>2. CASE io_dout = answer /\ Settled /\ Selected(en)
      BY <1>1, <2>3, <3>2 DEF AnswerComing, Selected
    <3>3. CASE answer = Zero /\ en = {}
      BY <1>1, <3>3 DEF AnswerComing
    <3>4. CASE answer = Zero /\ enable = {}
      BY <1>1, <1>4, <3>4 DEF AnswerComing
    <3>5. CASE answer = Zero /\ en1 = {} /\ req1 = ack
      BY <1>1, <1>2, <2>1, <3>5 DEF AnswerComing
    <3> QED
      BY <3>1, <3>2, <3>3, <3>4, <3>5 DEF AnswerComing
  <2>5. io_dout = Answer(Last[1], en) /\ Settled => io_dout' = Answer(Last[1], en)'
    BY <1>1, <2>3 DEF Answer, Selected
  <2>6. /\ req # ack /\ req1' = req => en_was' = en
        /\ req # ack /\ req_s' = req => en1' = en
    BY <1>1, <1>2 DEF AnswerOK
  <2>7. pc \in {"spi_poll", "spi_read"} /\ ~Waiting =>
           dout_core' = answer /\ Settled' /\ (req = ack => io_dout' = Answer(Last[1], en)')
    BY <2>1, <2>3, <2>5 DEF AnswerOK
  <2> QED
    BY <1>1, <1>2, <2>1, <2>2, <2>4, <2>6, <2>7 DEF AnswerOK
<1>6. CASE Capture(io_dout)
  <2>1. /\ UNCHANGED ack /\ state = 0 /\ req_s # ack /\ state' = 1 /\ dout_core' = io_dout
        /\ req # ack /\ req1 = req /\ req_s = req /\ req1 # ack
    BY <1>0, <1>6 DEF Capture, IInv, TypeOK, HandshakeInv, RingInv, Bit
  <2>2. en_was = en /\ en1 = en /\ Waiting /\ Settled'
    BY <1>1, <2>1 DEF AnswerOK, Waiting, Settled
  <2>3. pc = "spi_poll" => dout_core' = answer
    BY <2>1, <2>2 DEF AnswerOK, AnswerComing
  <2> QED
    BY <1>1, <1>2, <1>3, <2>1, <2>2, <2>3 DEF AnswerOK, Settled, Waiting
<1>7. CASE Strobe
  <2>1. UNCHANGED <<ack, dout_core>> /\ state = 1 /\ state' = 2 /\ req # ack /\ req1 = req /\ req_s = req
    BY <1>0, <1>7 DEF Strobe, IInv, TypeOK, HandshakeInv, RingInv, TransactionInv, Bit
  <2>2. Settled' /\ ~Waiting /\ ~Waiting'
    BY <1>1, <1>2, <1>3, <2>1 DEF AnswerOK, Settled, Waiting
  <2> QED
    BY <1>1, <1>2, <1>3, <2>1, <2>2 DEF AnswerOK, Settled
<1>8. CASE Acknowledge
  <2>1. /\ UNCHANGED dout_core /\ state = 2 /\ state' = 0 /\ ack' = req /\ io_strobe = 1 /\ io_din = word
        /\ req # ack /\ req1 = req /\ req_s = req
    BY <1>0, <1>8 DEF Acknowledge, IInv, TypeOK, HandshakeInv, RingInv, TransactionInv, Bit
  <2>2. Settled' /\ ~Waiting /\ ~Waiting' /\ enable = en
    BY <1>1, <1>2, <1>3, <2>1 DEF AnswerOK, Settled, Waiting
  <2>3. io_dout' = Answer(Last[1], en)'
    BY <1>1, <2>1, <2>2 DEF AnswerOK, Answer, Selected
  <2> QED
    BY <1>1, <1>2, <1>3, <2>1, <2>2, <2>3 DEF AnswerOK
<1> QED
  BY <1>1, <1>5, <1>6, <1>7, <1>8 DEF CoreTick

LEMMA AnswerInit == HostInit => AnswerInv
  BY DEF HostInit, Init, AnswerInv, AnswerOK, AnswerComing, Waiting, busy, idle

LEMMA AnswerInvariant == HostSpec => []AnswerInv
<1>1. ASSUME HostInv, RoomInv, AnswerInv, [HostNext]_hvars, SpiOnly', clean' PROVE AnswerOK'
  <2>1. clean
    BY <1>1, AnsweredAtRest
  <2>2. SpiOnly
    BY <1>1, ProgramStays DEF SpiOnly
  <2>3. AnsweredOK /\ AnswerOK
    BY <1>1, <2>1, <2>2, Answered DEF AnswerInv
  <2>4. CASE UNCHANGED hvars
    <3>1. UNCHANGED <<vars, pc, sent, answer, en, en_was, en1, enable, io_dout, dout_was>>
      BY <2>4 DEF hvars, backend, levels, ghosts
    <3>2. (busy' <=> busy) /\ (Waiting' <=> Waiting) /\ Last' = Last /\ (Settled' <=> Settled)
          /\ Answer(Last[1], en)' = Answer(Last[1], en) /\ (AnswerComing' <=> AnswerComing)
      BY <3>1 DEF vars, sysvars, corevars, busy, idle, Waiting, Last, Settled, Answer, AnswerComing, Selected
    <3> QED
      BY <2>3, <3>1, <3>2 DEF AnswerOK, vars, sysvars, corevars
  <2>5. CASE CoreSide
    BY <1>1, <2>3, <2>5, CoreSideKeepsAnswer
  <2>6. CASE HostNext /\ ~CoreSide
    BY <1>1, <2>2, <2>3, <2>6, SpiSteps, BackendKeepsAnswer
  <2> QED
    BY <1>1, <2>4, <2>5, <2>6
<1>2. HostInv /\ RoomInv /\ AnswerInv /\ [HostNext]_hvars => AnswerInv'
  BY <1>1 DEF AnswerInv
<1> QED
  BY <1>2, AnswerInit, HostInvariant, RoomInvariant, PTL DEF HostSpec

\* fpga_spi returns the answer to the word before its own, by whatever path the
\* words, the levels and the answer cross.
THEOREM AnswerIsOfPrevious == HostSpec => AnswerIsPrevious
<1>1. HostInv /\ RoomInv /\ AnswerInv /\ [HostNext]_hvars =>
        [SpiRead /\ clean /\ use.procedures = {"spi"} /\ UNCHANGED failures => result' = answer]_hvars
  <2> SUFFICES ASSUME HostInv, RoomInv, AnswerInv, SpiRead, clean, SpiOnly, failures' = failures
               PROVE  result' = answer
    BY DEF SpiOnly
  <2>1. AnsweredOK /\ AnswerOK /\ pc = "spi_read"
    BY Answered DEF AnswerInv, SpiRead
  <2>2. ~busy
    BY <2>1 DEF AnsweredOK
  <2>3. ~Waiting
    BY <2>2 DEF Waiting, busy, idle, HostInv, IInv, TypeOK, HandshakeInv, RingInv, Bit
  <2>4. dout_was = dout_core /\ dout_core = answer
    BY <2>1, <2>3 DEF AnswerOK
  <2>5. ~ReadFails
    BY DEF ReadFails, HostInv, HostTypeOK
  <2> QED
    BY <2>4, <2>5 DEF SpiRead, ReadDout, Registers
<1> QED
  BY <1>1, HostInvariant, RoomInvariant, AnswerInvariant, PTL DEF HostSpec, AnswerIsPrevious

\* A process leaves a word behind only if it ends inside its call, and then only
\* the word of that call.
THEOREM OneWordIsLeftBehind == HostSpec => OneWordLeftBehind
<1>1. ASSUME HostInv, RoomInv, AnswerInv, clean, SpiOnly, Outstanding # <<>>
      PROVE  pc \in {"spi_poll", "dead"} /\ Outstanding = <<Last[1]>>
  <2>1. /\ AnswerOK
        /\ count = 0 \/ (count = 1 /\ req = ack)
        /\ pc \in {"ready", "spi_poll", "spi_read", "dead"}
        /\ pc \in {"ready", "spi_read"} => ~busy
    BY <1>1 DEF HostInv, RoomInv, AnswerInv, Tracked, IInv, TypeOK, HandshakeInv, RingInv, Bit, idle
  <2>2. (req # ack /\ count = 0) \/ (req = ack /\ count = 1)
    BY <1>1, <2>1 DEF Outstanding, Queued
  <2>3. busy
    <3>1. req # ack \/ count = 1
      BY <2>2
    <3> QED
      BY <1>1, <3>1 DEF busy, idle, HostInv, IInv, TypeOK, HandshakeInv, RingInv, Bit
  <2>4. Outstanding = <<Last[1]>>
    <3>1. <<word>> \in Seq(Word) /\ <<q0>> \in Seq(Word)
      BY <1>1 DEF HostInv, IInv, TypeOK
    <3>2. CASE req # ack /\ count = 0
      <4>1. Outstanding = <<word>> /\ word = Last[1]
        BY <2>1, <3>1, <3>2, ConcatEmptySeq DEF AnswerOK, Outstanding, Queued
      <4> QED
        BY <4>1
    <3>3. CASE req = ack /\ count = 1
      <4>1. Outstanding = <<q0>> /\ q0 = Last[1]
        BY <2>1, <3>1, <3>3, ConcatEmptySeq DEF AnswerOK, Outstanding, Queued
      <4> QED
        BY <4>1
    <3> QED
      BY <2>2, <3>2, <3>3
  <2> QED
    BY <2>1, <2>3, <2>4
<1>2. HostInv /\ RoomInv /\ AnswerInv /\ [HostNext]_hvars =>
        [clean /\ use.procedures = {"spi"} /\ Outstanding # <<>> =>
           /\ Exit => pc = "spi_poll"
           /\ Exit \/ Restart => Outstanding = <<sent[Len(sent)][1]>>]_hvars
  BY <1>1 DEF SpiOnly, Last, Exit
<1> QED
  BY <1>2, HostInvariant, RoomInvariant, AnswerInvariant, PTL DEF HostSpec, OneWordLeftBehind

-----------------------------------------------------------------------------
(* No word of an fpga_spi program is lost *)

LEMMA KeptInit == HostInit => KeptInv
<1> SUFFICES ASSUME HostInit PROVE Words(seen) \o Outstanding = Words(sent)
  BY DEF KeptInv
<1>1. seen = <<>> /\ sent = <<>> /\ count = 0 /\ req = ack
  BY DEF HostInit, Init
<1>2. Outstanding = <<>> /\ Words(seen) = <<>> /\ Words(sent) = <<>>
  BY <1>1 DEF Outstanding, Queued, Words
<1> QED
  BY <1>2, ConcatEmptySeq, EmptySeq

LEMMA TrackedBefore == HostInv /\ [HostNext]_hvars /\ Tracked' => Tracked
<1> SUFFICES ASSUME HostInv, [HostNext]_hvars, ~clean', restarts' = 0, unanswered' < 3
             PROVE  Tracked
  BY AnsweredAtRest DEF Tracked
<1>1. restarts \in Nat /\ unanswered \in 0..3
  BY DEF HostInv, HostTypeOK
<1> USE DEF limits
<1>2. HostStep => restarts' = restarts /\ (unanswered = 3 => unanswered' = 3)
  BY <1>1 DEF HostStep, SpiPoll, GoOn, SpiRead, WritePair, WriteOne, ReadWrite, ReadRead
<1>3. HostCall => restarts' = restarts /\ unanswered' = unanswered
  BY DEF HostCall, SpiWrite, FastWrite, Block, SpiEn
<1>4. Exit \/ SysIdle \/ CoreSide \/ UNCHANGED hvars => restarts' = restarts /\ unanswered' = unanswered
  BY DEF Exit, SysIdle, CoreSide, hvars, ghosts
<1>5. ~Restart
  BY <1>1 DEF Restart
<1> QED
  BY <1>1, <1>2, <1>3, <1>4, <1>5 DEF HostNext, Tracked

LEMMA KeptKept ==
    HostInv /\ HostTypeOK' /\ RoomInv /\ KeptInv /\ [HostNext]_hvars => KeptInv'
<1> SUFFICES ASSUME HostInv, HostTypeOK', RoomInv, KeptInv, [HostNext]_hvars, SpiOnly', Tracked'
             PROVE  Passing' = Written'
  BY DEF KeptInv, Passing, Written
<1>1. SpiOnly /\ Tracked
  BY ProgramStays, TrackedBefore DEF SpiOnly
<1>2. Passing = Written
  BY <1>1 DEF KeptInv, Passing, Written
<1>3. CASE UNCHANGED hvars
  BY <1>2, <1>3 DEF hvars, ghosts, vars, sysvars, corevars, Passing, Written, Outstanding, Queued
<1>4. CASE \E w \in Word : SpiWrite(w)
  <2>1. PICK w \in Word : SpiWrite(w)
    BY <1>4
  <2>2. count < 2
    <3>1. pc = "ready" /\ count \in 0..2 /\ unanswered \in 0..3
      BY <2>1 DEF SpiWrite, HostInv, HostTypeOK, IInv, TypeOK
    <3>2. unanswered < 3
      BY <1>1 DEF Tracked, HostInv
    <3>3. unanswered = 0 => ~busy
      BY <1>1, <3>1 DEF RoomInv
    <3>4. unanswered > 0 => count < unanswered
      BY <1>1, <3>1 DEF RoomInv
    <3> QED
      BY <3>1, <3>2, <3>3, <3>4 DEF busy
  <2>3. PushDin(w) /\ seen' = seen /\ sent' = Append(sent, <<w, en>>)
    BY <2>1 DEF SpiWrite, WriteDin, SysSide, Access
  <2>4. Passing' = Append(Passing, w)
    BY <2>2, <2>3, PushDinPassing
  <2>5. Written' = Append(Written, w)
    BY <2>3, WordWritten DEF Written, HostInv, HostTypeOK
  <2> QED
    BY <1>2, <2>4, <2>5
<1>5. CASE CoreSide
  <2>1. Written' = Written
    BY <1>5 DEF CoreSide, Written
  <2> QED
    BY <1>2, <1>5, <2>1, CoreSideKeepsPassing
<1>6. CASE Exit
  BY <1>2, <1>6 DEF Exit, ghosts, vars, sysvars, corevars, Passing, Written, Outstanding, Queued
<1>7. CASE SpiStep /\ ~CoreSide /\ ~Exit /\ ~ \E w \in Word : SpiWrite(w)
  <2>1. SysTick /\ UNCHANGED <<seen, sent>>
    BY <1>7 DEF SpiStep, SpiPoll, SpiRead, ReadDout, SpiEn, Restart, SysIdle, SysSide, Access
  <2> QED
    BY <1>2, <2>1, SysTickKeepsPassing DEF Written
<1> QED
  BY <1>1, <1>3, <1>4, <1>5, <1>6, <1>7, SpiSteps

LEMMA KeptInvariant == HostSpec => []KeptInv
<1>1. HostInv' => HostTypeOK'
  BY DEF HostInv
<1> QED
  BY <1>1, KeptInit, KeptKept, HostInvariant, RoomInvariant, PTL DEF HostSpec

\* Taken words are never more than written ones.
LEMMA TakenWereWritten ==
    HostInv /\ KeptInv /\ SpiOnly /\ clean =>
        /\ Len(sent) = Len(seen) + InFlight + count
        /\ Len(seen) \in Nat /\ InFlight \in {0, 1} /\ count \in 0..2
<1> SUFFICES ASSUME HostInv, KeptInv, SpiOnly, clean
             PROVE  /\ Len(sent) = Len(seen) + InFlight + count
                    /\ Len(seen) \in Nat /\ InFlight \in {0, 1} /\ count \in 0..2
  OBVIOUS
<1>1. PassingOK
  BY PassingShape DEF HostInv
<1>2. Passing = Words(sent)
  BY DEF KeptInv, Tracked, Passing
<1>3. Len(Words(sent)) = Len(sent)
  BY WordsOf DEF HostInv, HostTypeOK
<1> QED
  BY <1>1, <1>2, <1>3 DEF PassingOK

LEMMA LevelsKept ==
    HostInv /\ RoomInv /\ AnswerInv /\ KeptInv /\ LevelsInv /\ [HostNext]_hvars => LevelsInv'
<1> SUFFICES ASSUME HostInv, RoomInv, AnswerInv, KeptInv, LevelsInv, [HostNext]_hvars, SpiOnly', clean'
             PROVE  \A i \in DOMAIN seen' : seen'[i][2] = sent'[i][2]
  BY DEF LevelsInv
<1>1. SpiOnly /\ clean
  BY ProgramStays, AnsweredAtRest DEF SpiOnly
<1>2. /\ Len(sent) = Len(seen) + InFlight + count
      /\ Len(seen) \in Nat /\ InFlight \in {0, 1} /\ count \in 0..2
  BY <1>1, TakenWereWritten
<1>3. DOMAIN seen = 1..Len(seen) /\ \A i \in 1..Len(seen) : seen[i][2] = sent[i][2]
  BY <1>1, LenProperties DEF LevelsInv, HostInv, HostTypeOK
<1>4. seen \in Seq(Word \X Levels) /\ sent \in Seq(Word \X Levels) /\ en \in Levels
  BY DEF HostInv, HostTypeOK
<1>5. CASE UNCHANGED <<seen, sent>>
  BY <1>3, <1>5
<1>6. CASE \E w \in Word : SpiWrite(w)
  <2>1. PICK w \in Word : seen' = seen /\ sent' = Append(sent, <<w, en>>)
    BY <1>6 DEF SpiWrite, WriteDin, SysSide, Access
  <2>2. \A i \in 1..Len(sent) : sent'[i] = sent[i]
    BY <1>4, <2>1, AppendProperties
  <2> QED
    BY <1>2, <1>3, <2>1, <2>2
<1>7. CASE CoreSide /\ seen' # seen
  <2>1. AnswerOK /\ AnsweredOK /\ IInv /\ enable \in Levels
    BY <1>1, Answered DEF AnswerInv, HostInv, HostTypeOK
  <2>2. io_strobe = 1 /\ seen' = Append(seen, <<io_din, enable>>) /\ sent' = sent
    BY <1>7 DEF CoreSide, HpsIo
  <2>3. state = 2 /\ req # ack /\ io_din \in Word
    BY <2>1, <2>2 DEF IInv, TypeOK, HandshakeInv, RingInv, TransactionInv, Bit
  <2>4. enable = en /\ Last[2] = en /\ count = 0 /\ InFlight = 1
    BY <1>2, <2>1, <2>3 DEF AnswerOK, AnsweredOK, busy, idle, IInv, TypeOK, HandshakeInv, RingInv,
       TransactionInv, Bit, InFlight
  <2>5. Len(sent) = Len(seen) + 1 /\ sent[Len(seen) + 1][2] = en
    BY <1>2, <2>4 DEF Last
  <2>6. /\ seen' \in Seq(Word \X Levels) /\ Len(seen') = Len(seen) + 1
        /\ \A i \in 1..Len(seen) : seen'[i] = seen[i]
        /\ seen'[Len(seen) + 1] = <<io_din, enable>>
    <3>1. <<io_din, enable>> \in Word \X Levels
      BY <2>1, <2>3
    <3> QED
      BY <1>4, <2>2, <3>1, AppendProperties
  <2>7. DOMAIN seen' = 1..Len(seen) + 1
    BY <2>6, LenProperties
  <2>8. ASSUME NEW i \in DOMAIN seen' PROVE seen'[i][2] = sent'[i][2]
    <3>1. CASE i \in 1..Len(seen)
      BY <1>3, <2>2, <2>6, <3>1
    <3>2. CASE i = Len(seen) + 1
      BY <2>2, <2>4, <2>5, <2>6, <3>2
    <3> QED
      BY <1>2, <2>7, <3>1, <3>2
  <2> QED
    BY <2>8
<1> QED
  <2>1. SpiStep \/ UNCHANGED hvars
    BY <1>1, SpiSteps
  <2>2. SpiStep => \/ UNCHANGED <<seen, sent>>
                   \/ \E w \in Word : SpiWrite(w)
                   \/ CoreSide /\ seen' # seen
    BY DEF SpiStep, SpiPoll, SpiRead, ReadDout, SpiEn, Restart, SysIdle, SysSide, Access, Exit, ghosts, CoreSide
  <2>3. UNCHANGED hvars => UNCHANGED <<seen, sent>>
    BY DEF hvars, ghosts
  <2> QED
    BY <1>5, <1>6, <1>7, <2>1, <2>2, <2>3

LEMMA LevelsInvariant == HostSpec => []LevelsInv
<1>1. HostInit => LevelsInv
  BY DEF HostInit, LevelsInv
<1> QED
  BY <1>1, LevelsKept, HostInvariant, RoomInvariant, AnswerInvariant, KeptInvariant, PTL DEF HostSpec

\* The words of a program that only calls fpga_spi all reach the core, once, in
\* order and under their levels.
THEOREM NothingIsLost == HostSpec => []Lossless
<1>1. KeptInv /\ LevelsInv => Lossless
  BY DEF KeptInv, LevelsInv, Lossless, SpiOnly, Tracked, Words
<1> QED
  BY <1>1, KeptInvariant, LevelsInvariant, PTL
=============================================================================
