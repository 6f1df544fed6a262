------------------------------ MODULE HpsBridge ------------------------------
(***************************************************************************)
(* HPSBridge of overlay/rtl/hps_pcie/hps_pcie.py: the two-word queue and   *)
(* the req/ack toggle handshake that carry 16-bit HPS words from the PCIe  *)
(* registers (clock domain sys) to the core's HPS_BUS (clock domain core). *)
(*                                                                         *)
(* One step is one rising edge of one of the two clocks; which clock ticks *)
(* next is free, so every frequency ratio and phase is covered.  A         *)
(* MultiReg is two registers of the destination clock.  A first register   *)
(* that samples a bit while it changes resolves to the old or to the new   *)
(* value: those are the two orders of the two edges.                       *)
(***************************************************************************)
EXTENDS Naturals, Sequences

CONSTANTS Word,     \* the values of a 16-bit word that the properties tell apart
          Zero,     \* the reset value of the word registers
          NoWord    \* not a word: the output of the pipe between two strobes

ASSUME BridgeAssumption == /\ Zero \in Word
                           /\ NoWord \notin Word

VARIABLES
    \* clock domain sys
    q0, q1,       \* the queue, q0 first
    count,        \* words queued
    word,         \* the word handed to the core side
    req,          \* toggles once per word
    ack1, ack_s,  \* the MultiReg ack -> sys
    \* clock domain core
    req1, req_s,  \* the MultiReg req -> core
    ack,          \* follows req_s when the word has been strobed
    state,        \* 0: waiting, 1: word presented, 2: strobe high
    io_din, io_strobe,
    dout_core     \* io_dout captured with the word

sysvars  == <<q0, q1, count, word, req, ack1, ack_s>>
corevars == <<req1, req_s, ack, state, io_din, io_strobe, dout_core>>
vars     == <<sysvars, corevars>>

Bit == {0, 1}

Init == /\ q0 = Zero /\ q1 = Zero /\ count = 0
        /\ word = Zero
        /\ req = 0 /\ ack1 = 0 /\ ack_s = 0
        /\ req1 = 0 /\ req_s = 0 /\ ack = 0
        /\ state = 0
        /\ io_din = Zero /\ io_strobe = 0 /\ dout_core = Zero

idle == req = ack_s

\* Slip: only the queue counts as busy, not the word in flight.
busyQueued == count # 0

busy == count # 0 \/ ~idle

-----------------------------------------------------------------------------
(* Edges of the sys clock *)

\* Slip: the second register of the synchroniser is never loaded.
SampleAckStuck == ack1' = ack /\ UNCHANGED ack_s

SampleAck == ack1' = ack /\ ack_s' = ack1

\* Slip: the queue is taken to be deeper than it is.
PushDinUnchecked(w) ==
    /\ q1' = w /\ count' = count + 1
    /\ SampleAck
    /\ UNCHANGED <<q0, word, req, corevars>>

\* A write of hps_din: one word, dropped when two are queued.
PushDin(w) ==
    /\ \/ /\ count = 0
          /\ q0' = w /\ count' = 1
          /\ UNCHANGED q1
       \/ /\ count = 1
          /\ q1' = w /\ count' = 2
          /\ UNCHANGED q0
       \/ /\ count > 1
          /\ UNCHANGED <<q0, q1, count>>
    /\ SampleAck
    /\ UNCHANGED <<word, req, corevars>>

\* A write of hps_din2: two words, low half first, whatever was queued.
PushDin2(w1, w2) ==
    /\ q0' = w1 /\ q1' = w2 /\ count' = 2
    /\ SampleAck
    /\ UNCHANGED <<word, req, corevars>>

\* Slip: the next word is handed over without waiting for the last one.
PopEarly ==
    /\ count # 0
    /\ word' = q0 /\ q0' = q1 /\ count' = count - 1
    /\ req' = 1 - req
    /\ SampleAck
    /\ UNCHANGED <<q1, corevars>>

\* Slip: the queue is not shifted.
PopUnshifted ==
    /\ count # 0 /\ idle
    /\ word' = q0 /\ count' = count - 1
    /\ req' = 1 - req
    /\ SampleAck
    /\ UNCHANGED <<q0, q1, corevars>>

\* No write on this edge: hand the next word over once the last one is back.
Pop ==
    /\ count # 0 /\ idle
    /\ word' = q0 /\ q0' = q1 /\ count' = count - 1
    /\ req' = 1 - req
    /\ SampleAck
    /\ UNCHANGED <<q1, corevars>>

SysWait ==
    /\ count = 0 \/ ~idle
    /\ SampleAck
    /\ UNCHANGED <<q0, q1, count, word, req, corevars>>

SysTick == Pop \/ SysWait

-----------------------------------------------------------------------------
(* Edges of the core clock; d is the core's io_dout at that edge *)

SampleReq == req1' = req /\ req_s' = req1

\* Slip: the request is acknowledged when its word is presented.
CaptureAcks(d) ==
    /\ state = 0 /\ req_s # ack
    /\ dout_core' = d /\ io_din' = word
    /\ state' = 1 /\ io_strobe' = 0
    /\ ack' = req_s
    /\ SampleReq
    /\ UNCHANGED sysvars

\* Slip: io_dout is followed all the time, not only with a request.
CaptureAlways(d) ==
    /\ state = 0
    /\ dout_core' = d
    /\ IF req_s # ack THEN io_din' = word /\ state' = 1
                       ELSE UNCHANGED <<io_din, state>>
    /\ io_strobe' = 0
    /\ SampleReq
    /\ UNCHANGED <<ack, sysvars>>

\* state 0: a new request.  Take the answer to the previous word, present this one.
Capture(d) ==
    /\ state = 0 /\ req_s # ack
    /\ dout_core' = d /\ io_din' = word
    /\ state' = 1 /\ io_strobe' = 0
    /\ SampleReq
    /\ UNCHANGED <<ack, sysvars>>

CoreWait ==
    /\ state = 0 /\ req_s = ack
    /\ io_strobe' = 0
    /\ SampleReq
    /\ UNCHANGED <<ack, state, io_din, dout_core, sysvars>>

Strobe ==
    /\ state = 1
    /\ io_strobe' = 1 /\ state' = 2
    /\ SampleReq
    /\ UNCHANGED <<ack, io_din, dout_core, sysvars>>

\* Slip: the strobe is not cleared by default.
AcknowledgeStrobing ==
    /\ state = 2
    /\ ack' = req_s /\ state' = 0
    /\ SampleReq
    /\ UNCHANGED <<io_din, io_strobe, dout_core, sysvars>>

Acknowledge ==
    /\ state = 2
    /\ ack' = req_s /\ state' = 0 /\ io_strobe' = 0
    /\ SampleReq
    /\ UNCHANGED <<io_din, dout_core, sysvars>>

CoreTick(d) == Capture(d) \/ CoreWait \/ Strobe \/ Acknowledge

-----------------------------------------------------------------------------

Push == \/ \E w \in Word : PushDin(w)
        \/ \E w1, w2 \in Word : PushDin2(w1, w2)

CoreEdge == \E d \in Word : CoreTick(d)

Next == Push \/ SysTick \/ CoreEdge

Spec == Init /\ [][Next]_vars

\* Both clocks run for ever, and a sys edge without a register write comes
\* again and again: a write strobe lasts one cycle of the sys clock.
Fairness == WF_vars(SysTick) /\ WF_vars(CoreEdge)

FairSpec == Spec /\ Fairness

-----------------------------------------------------------------------------
(* Properties *)

\* The words in the queue, first to leave first.
Queued == IF count = 0 THEN <<>>
          ELSE IF count = 1 THEN <<q0>> ELSE <<q0, q1>>

\* Every register holds a value of its width; the queue never counts past two
\* (count is two bits wide and 3 is not a length).
TypeOK == /\ q0 \in Word /\ q1 \in Word /\ count \in 0..2
          /\ word \in Word
          /\ req \in Bit /\ ack1 \in Bit /\ ack_s \in Bit
          /\ req1 \in Bit /\ req_s \in Bit /\ ack \in Bit
          /\ state \in 0..2
          /\ io_din \in Word /\ io_strobe \in Bit /\ dout_core \in Word

\* The ring req, req1, req_s, ack, ack1, ack_s carries at most one change of
\* value: a request that has been seen, or an acknowledge, on its way round.
RingInv == /\ req1 # req => /\ req_s = req1 /\ ack = req1
                            /\ ack1 = req1 /\ ack_s = req1
           /\ req_s # req1 => ack = req_s /\ ack1 = req_s /\ ack_s = req_s
           /\ ack # req_s => ack1 = ack /\ ack_s = ack
           /\ ack1 # ack => ack_s = ack1

\* A transaction past state 0 belongs to the request that is still open, and
\* what it presents is the word that request carries.
TransactionInv == /\ state # 0 => req_s = req /\ ack # req
                                  /\ io_din = word
                  /\ io_strobe = 1 <=> state = 2

HandshakeInv == RingInv /\ TransactionInv

\* busy = 0 tells the host that nothing is queued, that the core side is back
\* in state 0 and that no request or acknowledge is still crossing: the answer
\* in dout is that of the last word and will not move.
BusyHonest == ~busy => /\ state = 0
                       /\ count = 0
                       /\ req1 = req /\ req_s = req /\ ack = req /\ ack1 = req

\* "quasi-static while req != ack": the sys side never changes word while the
\* core side may still sample it or is presenting it.
WordQuasiStatic == [][word' # word => req_s = ack /\ req1 = ack /\ state = 0]_vars

\* "quasi-static once ack has toggled": the captured answer changes only in a
\* transaction the host sees as busy, never after it has seen busy = 0.
DoutHeld == [][dout_core' # dout_core => busy /\ busy']_vars

\* io_strobe is high for one core clock: the core never counts a word twice.
StrobeOneClock == [][CoreEdge => ~(io_strobe = 1 /\ io_strobe' = 1)]_vars

\* The bridge is a pipe of words: each one that leaves the queue is strobed
\* exactly once, in order, and is the one on io_din when the strobe is high.
Pipe == INSTANCE WordPipe WITH
            Depth  <- 2,
            queue  <- Queued,
            flight <- IF req # ack /\ state # 2 THEN <<word>> ELSE <<>>,
            out    <- IF io_strobe = 1 THEN io_din ELSE NoWord

PipeSpec == Pipe!Spec

\* The same with the pipe's fairness: no accepted word waits for ever.
PipeFairSpec == Pipe!FairSpec

=============================================================================
