------------------------------ MODULE HardIPStatus ------------------------------
(***************************************************************************)
(* The latched events of the PCIe hard block and its message counter       *)
(* (HardIPStatus in overlay/mistex_boards/c1100_pcie_diag.py), seen from   *)
(* the sys domain through two-register synchronisers, and the tool that    *)
(* clears and reads them over a UART (tools/pcie-hardip.py).               *)
(*                                                                         *)
(* Every pulse has the same latch: the one of msg_received, which is also  *)
(* counted, stands for them.  A bit that changed on the last edge of the   *)
(* pcie clock may be sampled by sys before or after the change, each bit   *)
(* of a counter for itself.                                                *)
(***************************************************************************)
EXTENDS Naturals

CONSTANTS Bits,     \* width of msg_count (16)
          Ratio,    \* pcie clocks in a sys clock, at most; at least one
          Gap,      \* sys clocks between two accesses over the UART, at least
          MaxMsgs   \* bound: messages between two clears

ASSUME StatusAssumption == {Bits, Ratio, Gap} \subseteq Nat \ {0} /\ MaxMsgs \in Nat

\* An access is some twenty bytes over the UART, thousands of sys clocks.
ASSUME SlowUart == Gap >= 5

VARIABLES
    \* pcie domain
    clear1, clear_pcie,          \* MultiReg(clear.re, pcie)
    latch, msg_count,
    latch_was, count_was,        \* before the last edge, if sys may still meet it
    edges,                       \* pcie edges since the last sys edge
    \* sys domain
    re,                          \* clear.re: the register has just been written
    seen1, seen, count1, count,  \* MultiReg(latch, sys), MultiReg(msg_count, sys)
    \* pcie-hardip.py
    pc, waited,                  \* sys clocks since its last access, up to Gap
    got_seen, got_count,
    \* history, for the properties only
    fresh, kept,  \* messages since the last clear; those the clear cannot meet
    quiet         \* sys edges since the last message, up to 3

pcie == <<clear1, clear_pcie, latch, msg_count>>
tool == <<pc, waited, got_seen, got_count>>
vars == <<pcie, latch_was, count_was, edges, re, seen1, seen, count1, count, tool,
          fresh, kept, quiet>>

\* The weights of the bits; a value has Bits of them.
Weight[i \in 0..Bits] == IF i = 0 THEN 1 ELSE 2 * Weight[i - 1]
CountMod == Weight[Bits]

Init ==
    /\ clear1 = FALSE /\ clear_pcie = FALSE /\ latch = FALSE /\ msg_count = 0
    /\ latch_was = FALSE /\ count_was = 0 /\ edges = 0
    /\ re = FALSE /\ seen1 = FALSE /\ seen = FALSE /\ count1 = 0 /\ count = 0
    /\ pc = "idle" /\ waited = Gap /\ got_seen = FALSE /\ got_count = 0
    /\ fresh = 0 /\ kept = 0 /\ quiet = 3

-----------------------------------------------------------------------------
(* pcie domain *)

\* Slip: the latch follows the pulse.
LatchUnheld(msg) == latch' = (~clear_pcie /\ msg)

\* Slip: the clear does not reach the latch.
LatchUncleared(msg) == latch' = (latch \/ msg)

\* A clear wins over an event on the same edge.
Latch(msg) == latch' = (~clear_pcie /\ (latch \/ msg))

\* Slip: the counter is not cleared with the flags.
CountOn(msg) == msg_count' = IF msg THEN (msg_count + 1) % CountMod ELSE msg_count

Count(msg) == msg_count' = IF clear_pcie THEN 0
                           ELSE IF msg THEN (msg_count + 1) % CountMod ELSE msg_count

\* The clear of the tool may still be on its way.
Clearing == pc = "cleared" /\ waited < Gap

PcieEdge(msg) ==
    /\ edges < Ratio /\ edges' = edges + 1
    /\ clear1' = re /\ clear_pcie' = clear1
    /\ Latch(msg) /\ Count(msg)
    /\ latch_was' = latch /\ count_was' = msg_count
    /\ IF msg THEN /\ fresh < MaxMsgs /\ fresh' = fresh + 1
                   /\ kept' = IF Clearing THEN kept ELSE kept + 1
                   /\ quiet' = 0
              ELSE UNCHANGED <<fresh, kept, quiet>>
    /\ UNCHANGED <<re, seen1, seen, count1, count, tool>>

-----------------------------------------------------------------------------
(* sys domain *)

Bit(n, i) == (n \div Weight[i]) % 2

\* What a synchroniser may take for a value that is changing from a to b.
Mixes(a, b) == {v \in 0..CountMod - 1 : \A i \in 0..Bits - 1 : Bit(v, i) \in {Bit(a, i), Bit(b, i)}}

SampleFlag == seen1' \in {latch_was, latch} /\ seen' = seen1
SampleCount == count1' \in Mixes(count_was, msg_count) /\ count' = count1

SysEdge ==
    /\ edges > 0 /\ edges' = 0
    /\ SampleFlag /\ SampleCount
    /\ latch_was' = latch /\ count_was' = msg_count
    /\ quiet' = IF quiet = 3 THEN 3 ELSE quiet + 1
    /\ UNCHANGED pcie

\* The UART takes its time between two accesses.
Idle == /\ SysEdge
        /\ re' = FALSE
        /\ waited' = IF waited = Gap THEN Gap ELSE waited + 1
        /\ UNCHANGED <<pc, got_seen, got_count, fresh, kept>>

\* An access: the register file answers on one sys clock.
Access(from, to) == /\ waited = Gap /\ pc \in from
                    /\ SysEdge
                    /\ pc' = to /\ waited' = 0

\* --clear
Clear == /\ Access({"idle"}, "cleared")
         /\ re' = TRUE
         /\ fresh' = 0 /\ kept' = 0
         /\ UNCHANGED <<got_seen, got_count>>

ReadCount == /\ Access({"idle", "cleared"}, "counted")
             /\ re' = FALSE
             /\ got_count' = count
             /\ UNCHANGED <<got_seen, fresh, kept>>

\* The flag is printed behind the counter and read after it.
ReadSeen == /\ Access({"counted"}, "idle")
            /\ re' = FALSE
            /\ got_seen' = seen
            /\ UNCHANGED <<got_count, fresh, kept>>

-----------------------------------------------------------------------------

Next == (\E msg \in BOOLEAN : PcieEdge(msg)) \/ Idle \/ Clear \/ ReadCount \/ ReadSeen

Spec == Init /\ [][Next]_vars

-----------------------------------------------------------------------------
(* Properties *)

\* Flag and counter cross separately and are read one after the other, yet the
\* report is consistent: where messages were counted the flag is set.
FlagCountAgree == pc = "idle" => (got_count # 0 => got_seen)

\* A counter read while no message is coming counts every message since the
\* clear and none from before it; those the clear itself may meet are the only
\* doubt.  (While messages come it may be a value the counter never had.)
CountHonest ==
    [][pc' = "counted" /\ pc # "counted" /\ quiet = 3 /\ fresh < CountMod =>
          kept <= got_count' /\ got_count' <= fresh]_vars

\* A flag that is read as set stands for an event after the clear; one that is
\* read as clear for none, unless it came in the last moment or met the clear.
SeenHonest ==
    [][pc = "counted" /\ pc' = "idle" =>
          /\ got_seen' => fresh > 0
          /\ kept > 0 /\ quiet = 3 => got_seen']_vars
=============================================================================
