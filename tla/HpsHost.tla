------------------------------- MODULE HpsHost -------------------------------
(***************************************************************************)
(* Main's fpga_io backend (host/main_mistex_pcie/fpga_io_pcie.cpp) driving *)
(* the bridge, and the core's hps_io answering on the other side.          *)
(*                                                                         *)
(* The backend is one thread.  Every register access it makes is one edge  *)
(* of the sys clock; two accesses over PCIe are at least a clock apart.    *)
(* Its procedures are the values of pc, and the words and the enable level *)
(* it writes are nondeterministic, as its callers choose them.  hps_io is  *)
(* not part of this repository: it is modelled from the way hps_io_wrap.sv *)
(* and tb_hps.sv use it.                                                   *)
(***************************************************************************)
EXTENDS HpsBridge

CONSTANTS MaxPolls,     \* busy polls before wait_not_busy gives up (1000)
          Uses          \* the programs that use the backend, and their bounds

\* procedures: those of the backend that are called; lengths: of their blocks;
\* masks: the sets of enable levels that are raised together; words: bound on
\* the words written between two restarts; restarts, failures: bounds on the
\* restarts of the process and on the register reads that fail.
ASSUME HostAssumption ==
    /\ MaxPolls \in Nat \ {0}
    /\ \A u \in Uses :
           /\ u.procedures \subseteq {"spi", "fast", "write", "write_be", "read"}
           /\ u.masks \subseteq SUBSET {"fpga", "osd", "io"} /\ {} \notin u.masks
           /\ u.lengths \subseteq Nat
           /\ {u.words, u.restarts, u.failures} \subseteq Nat

VARIABLES
    use,         \* the program
    pc,          \* where the backend is
    left,        \* words of the block still to do
    polls,       \* polls made by wait_not_busy
    result,      \* the last value read from hps_dout
    en,          \* the enable levels set in control_shadow and hps_control
    en_was,      \* the levels before the last write, until the core clock ticks
    en1, enable, \* the levels in the two registers of the MultiRegs to core
    io_dout,     \* hps_io's answer on HPS_BUS
    dout_was,    \* dout_core before the sys clock last ticked
    spaced,      \* the sys clock has ticked since the last register access
    \* history, for the properties only
    sent,        \* the words written to hps_din and hps_din2, each with the
                 \* levels it was written under
    seen,        \* the words strobed, each with the levels the core then saw
    answer,      \* what the core answers to the last word that was sent
    unanswered,  \* calls of fpga_spi in a row that did not see busy = 0, up to
                 \* three of them
    clean,       \* wait_not_busy never gave up, no process left words behind,
                 \* and the core sampled every low enable level
    restarts, failures

backend == <<pc, left, polls, result>>
levels  == <<en1, enable>>
limits  == <<restarts, failures>>
ghosts  == <<sent, seen, answer, unanswered, clean, limits>>
hvars   == <<vars, use, backend, en, en_was, levels, io_dout, dout_was, spaced, ghosts>>

HostInit ==
    /\ Init
    /\ use \in Uses
    /\ pc = "ready" /\ left = 0 /\ polls = 0 /\ result = Zero
    /\ en = {} /\ en_was = {} /\ en1 = {} /\ enable = {}
    /\ io_dout = Zero /\ dout_was = Zero /\ spaced = TRUE
    /\ sent = <<>> /\ seen = <<>> /\ answer = Zero
    /\ unanswered = 0 /\ clean = TRUE /\ restarts = 0 /\ failures = 0

Room(n) == Len(sent) + n <= use.words

\* The registers as a read finds them (io_wide, a constant of the core, left out).
Registers == [control |-> en, status |-> busy, dout |-> dout_core]

\* What stays as it is on any edge of the sys clock.
SysSide == dout_was' = dout_core /\ UNCHANGED <<use, levels, io_dout, seen>>

\* A register access.  Between two of them the sys clock ticks at least once
\* without: each is a transaction of its own on PCIe.
Access == spaced /\ spaced' = FALSE /\ SysSide

\* pcie_writel(csr_din, w) and pcie_writel(csr_din2, w1 | w2 << 16)
WriteDin(w) == /\ PushDin(w) /\ Access
               /\ sent' = Append(sent, <<w, en>>)

WriteDin2(w1, w2) == /\ PushDin2(w1, w2) /\ Access
                     /\ sent' = sent \o <<<<w1, en>>, <<w2, en>>>>

\* hps_io_wrap.sv: hps_io is addressed when the OSD is not.
Selected(l) == "osd" \notin l /\ ("fpga" \in l \/ "io" \in l)

\* What the core shows after word w, written under the levels l: hps_io answers
\* with a value that tells the word, and shows zero while it is not addressed.
Answer(w, l) == IF Selected(l) THEN w ELSE Zero

\* A register read that fails: pcie_readl returns 0.
ReadFails == failures < use.failures /\ failures' = failures + 1

\* pcie_readl(csr_dout): dout_core is read straight across the clock domains,
\* so while it is changing the bits that are read may come from either value.
ReadDout == /\ SysTick /\ Access
            /\ \/ /\ result' \in IF dout_was = dout_core THEN {Registers.dout} ELSE Word
                  /\ UNCHANGED failures
               \/ result' = Zero /\ ReadFails

-----------------------------------------------------------------------------
(* fpga_spi *)

SpiWrite(w) ==
    /\ "spi" \in use.procedures /\ pc = "ready" /\ en # {} /\ Room(1)
    /\ WriteDin(w)
    /\ pc' = "spi_poll" /\ polls' = 0
    /\ UNCHANGED <<left, result, en, en_was, answer, unanswered, clean, limits>>

\* Slip: the answer is taken without waiting for the transaction.
SpiPollOnce ==
    /\ pc = "spi_poll"
    /\ SysTick /\ Access
    /\ pc' = "spi_read"
    /\ UNCHANGED <<left, polls, result, en, en_was, sent, answer, unanswered, clean, limits>>

\* Slip: the polls are not counted.
SpiPollForever ==
    /\ pc = "spi_poll"
    /\ SysTick /\ Access
    /\ IF busy THEN UNCHANGED pc ELSE pc' = "spi_read"
    /\ UNCHANGED <<left, polls, result, en, en_was, sent, answer, unanswered, clean, limits>>

\* The call goes on without having seen busy = 0.
GoOn == /\ pc' = "spi_read" /\ clean' = FALSE
        /\ unanswered' = IF unanswered = 3 THEN 3 ELSE unanswered + 1

\* wait_not_busy: one read of hps_status, which a failing read takes for 0
SpiPoll ==
    /\ pc = "spi_poll"
    /\ SysTick /\ Access
    /\ \/ /\ ~Registers.status
          /\ pc' = "spi_read"
          /\ unanswered' = IF unanswered = 3 THEN 3 ELSE 0
          /\ UNCHANGED <<polls, clean, failures>>
       \/ /\ Registers.status /\ polls + 1 < MaxPolls
          /\ polls' = polls + 1 /\ UNCHANGED <<pc, unanswered, clean, failures>>
       \/ /\ Registers.status /\ polls + 1 = MaxPolls
          /\ polls' = MaxPolls /\ GoOn /\ UNCHANGED failures
       \/ /\ Registers.status /\ ReadFails
          /\ GoOn /\ UNCHANGED polls
    /\ UNCHANGED <<left, result, en, en_was, sent, answer, restarts>>

SpiRead ==
    /\ pc = "spi_read"
    /\ ReadDout
    /\ pc' = "ready"
    /\ answer' = Answer(sent[Len(sent)][1], en)
    /\ UNCHANGED <<left, polls, en, en_was, sent, unanswered, clean, restarts>>

-----------------------------------------------------------------------------
(* fpga_spi_fast and the block procedures *)

FastWrite(w) ==
    /\ "fast" \in use.procedures /\ pc = "ready" /\ en # {} /\ Room(1)
    /\ WriteDin(w)
    /\ answer' = Answer(w, en)
    /\ UNCHANGED <<backend, en, en_was, unanswered, clean, limits>>

\* block_prologue: one zero word before every block
Block(kind, n) ==
    /\ kind \in use.procedures /\ pc = "ready" /\ en # {} /\ Room(1 + n)
    /\ WriteDin(Zero)
    /\ pc' = IF n = 0 THEN "ready" ELSE kind
    /\ left' = n
    /\ answer' = Zero
    /\ UNCHANGED <<polls, result, en, en_was, unanswered, clean, limits>>

EndBlock(kind, n) == /\ left' = left - n
                     /\ pc' = IF left' = 0 THEN "ready" ELSE kind

\* fpga_spi_fast_block_write and _write_8: two words at a time, then the odd one
WritePair(w1, w2) ==
    /\ pc = "write" /\ left >= 2
    /\ WriteDin2(w1, w2)
    /\ EndBlock("write", 2)
    /\ answer' = Answer(w2, en)
    /\ UNCHANGED <<polls, result, en, en_was, unanswered, clean, limits>>

\* ... and fpga_spi_fast_block_write_be: one word at a time
WriteOne(w) ==
    /\ (pc = "write" /\ left = 1) \/ pc = "write_be"
    /\ WriteDin(w)
    /\ EndBlock(pc, 1)
    /\ answer' = Answer(w, en)
    /\ UNCHANGED <<polls, result, en, en_was, unanswered, clean, limits>>

\* fpga_spi_fast_block_read, _read_8 and _read_be: a zero word, then its answer
ReadWrite ==
    /\ pc = "read"
    /\ WriteDin(Zero)
    /\ pc' = "read_dout"
    /\ UNCHANGED <<left, polls, result, en, en_was, answer, unanswered, clean, limits>>

ReadRead ==
    /\ pc = "read_dout"
    /\ ReadDout
    /\ EndBlock("read", 1)
    /\ answer' = Zero
    /\ UNCHANGED <<polls, en, en_was, sent, unanswered, clean, restarts>>

-----------------------------------------------------------------------------
(* fpga_spi_en, and the process itself *)

\* The core has taken over the low levels since one was last high.
LowWasSampled == en1 = {} \/ enable = {}

\* Slip: the levels are changed inside a call as well.
SpiEnAnytime(mask, high) ==
    /\ pc # "dead" /\ en = IF high THEN {} ELSE mask
    /\ SysTick /\ Access
    /\ en' = IF high THEN en \cup mask ELSE en \ mask
    /\ en_was' = en
    /\ answer' = Zero
    /\ clean' = (clean /\ (high => LowWasSampled))
    /\ UNCHANGED <<backend, sent, unanswered, limits>>

\* Levels are raised from none and lowered to none: the callers bracket their
\* words (EnableIO .. DisableIO, EnableOsd .. DisableOsd, EnableFpga ..).
SpiEn(mask, high) ==
    /\ pc = "ready" /\ en = IF high THEN {} ELSE mask
    /\ SysTick /\ Access
    /\ en' = IF high THEN en \cup mask ELSE en \ mask
    /\ en_was' = en
    /\ answer' = Zero
    /\ clean' = (clean /\ (high => LowWasSampled))
    /\ UNCHANGED <<backend, sent, unanswered, limits>>

\* The process ends, wherever it is: app_restart, exit, a signal.
Exit ==
    /\ pc # "dead" /\ restarts < use.restarts
    /\ pc' = "dead"
    /\ UNCHANGED <<vars, use, left, polls, result, en, en_was, levels, io_dout, dout_was, spaced, ghosts>>

Outstanding == (IF req # ack THEN <<word>> ELSE <<>>) \o Queued

\* fpga_io_init of the next process clears hps_control and nothing else: words
\* of the process before it may still be in the bridge.
Restart ==
    /\ pc = "dead"
    /\ SysTick /\ Access
    /\ pc' = "ready" /\ left' = 0 /\ polls' = 0 /\ result' = Zero
    /\ en' = {} /\ en_was' = en
    /\ restarts' = restarts + 1
    /\ clean' = (clean /\ ~busy)
    /\ answer' = Zero
    /\ UNCHANGED <<sent, unanswered, failures>>

-----------------------------------------------------------------------------

HostStep == \/ SpiPoll \/ SpiRead
            \/ \E w1, w2 \in Word : WritePair(w1, w2)
            \/ \E w \in Word : WriteOne(w)
            \/ ReadWrite \/ ReadRead

HostCall == \/ \E w \in Word : SpiWrite(w) \/ FastWrite(w)
            \/ \E kind \in {"write", "write_be", "read"}, n \in use.lengths : Block(kind, n)
            \/ \E mask \in use.masks, high \in BOOLEAN : SpiEn(mask, high)

\* An edge of the sys clock on which the backend makes no access.
SysIdle == SysTick /\ SysSide /\ spaced' = TRUE
           /\ UNCHANGED <<backend, en, en_was, sent, answer, unanswered, clean, limits>>

\* hps_io sees the strobe on the edge after it rises.  It takes the word and
\* answers it; while it is not addressed it is reset.
HpsIo ==
    /\ io_dout' = IF ~Selected(enable) THEN Zero
                  ELSE IF io_strobe = 1 THEN io_din ELSE io_dout
    /\ seen' = IF io_strobe = 1 THEN Append(seen, <<io_din, enable>>) ELSE seen

\* Every level has a MultiReg of its own: those that a write changes just before
\* the edge may be taken over one by one.
SampleLevels ==
    /\ en1' \in {l \in SUBSET (en \cup en_was) : en \cap en_was \subseteq l}
    /\ enable' = en1
    /\ en_was' = en

CoreSide ==
    /\ CoreTick(io_dout)
    /\ HpsIo
    /\ SampleLevels
    /\ dout_was' = IF dout_core' # dout_core THEN dout_core ELSE dout_was
    /\ UNCHANGED <<use, backend, en, spaced, sent, answer, unanswered, clean, limits>>

HostNext == HostStep \/ HostCall \/ Exit \/ Restart \/ SysIdle \/ CoreSide

HostSpec == HostInit /\ [][HostNext]_hvars

\* The backend runs, its register accesses complete, and the sys clock ticks
\* between them.  Nothing is assumed of the core's clock: a core without a clock
\* is what the poll limit is for.
HostFairSpec == HostSpec /\ WF_hvars(HostStep) /\ WF_hvars(SysIdle)

-----------------------------------------------------------------------------
(* Properties *)

\* The words of a program that only calls fpga_spi all reach the core, once and
\* in order, although the wait for the answer may give up: the bridge holds the
\* words of three calls that went on without it.  And as long as every call was
\* answered each word is taken under the levels it was written for, although
\* word and levels cross by different paths.
Lossless ==
    use.procedures = {"spi"} =>
        /\ clean \/ (restarts = 0 /\ unanswered < 3) =>
              [i \in DOMAIN seen |-> seen[i][1]] \o Outstanding = [i \in DOMAIN sent |-> sent[i][1]]
        /\ clean => \A i \in DOMAIN seen : seen[i][2] = sent[i][2]

\* fpga_spi returns the answer to the previous word of the exchange (the zero
\* that hps_io shows before its first one).
AnswerIsPrevious ==
    [][SpiRead /\ clean /\ use.procedures = {"spi"} /\ UNCHANGED failures => result' = answer]_hvars

\* A process that ends outside a call of fpga_spi leaves no word in the bridge,
\* and one that ends inside it at most the word of that call; the process that
\* follows finds no more than that.
OneWordLeftBehind ==
    [][clean /\ use.procedures = {"spi"} /\ Outstanding # <<>> =>
         /\ Exit => pc = "spi_poll"
         /\ Exit \/ Restart => Outstanding = <<sent[Len(sent)][1]>>]_hvars

\* s is what is left of t when some of its elements are taken out.
IsSubsequence(s, t) ==
    \E at \in [DOMAIN s -> DOMAIN t] :
        /\ \A i \in DOMAIN s : s[i] = t[at[i]]
        /\ \A i, j \in DOMAIN s : i < j => at[i] < at[j]

\* Whatever the unpolled procedures do to the queue, hps_io never takes a word
\* twice, out of order, or one that was not written.
InOrder == IsSubsequence([i \in DOMAIN seen |-> seen[i][1]] \o Outstanding,
                         [i \in DOMAIN sent |-> sent[i][1]])

\* A call of fpga_spi that saw busy = 0 is a barrier: every word written before
\* it, with or without polling and by this process or one before it, has been
\* taken or was lost on the way in (until three calls in a row have gone on
\* without seeing it, which is where the history stops telling).
SpiIsBarrier == [][SpiRead /\ unanswered = 0 => Outstanding = <<>>]_hvars

\* Every call of the backend returns, even when the core's clock has stopped.
CallsReturn == (pc \notin {"ready", "dead"}) ~> (pc \in {"ready", "dead"})

-----------------------------------------------------------------------------
(* What comments in the code say of it, checked as they stand *)

\* hps_pcie.py:95 "software waits for busy = 0 between transactions, so at most
\* two words are ever queued": no write finds the queue without room for it.
AtMostTwoQueued ==
    [][sent' # sent => Len(Queued) + Len(sent') - Len(sent) <= 2]_hvars
=============================================================================
