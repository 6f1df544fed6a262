---------------------------- MODULE HpsControl_proofs ----------------------------
(***************************************************************************)
(* Theorems about hps_control and its writers, for any number of crashes,  *)
(* loads and presses.                                                      *)
(***************************************************************************)
EXTENDS HpsControl, SequenceTheorems, TLAPS

\* What is left of a call: every set has its clear right behind it.
Accesses == {"set", "clear", "exit", "exec"}
SetsAreCleared(t) == \A i \in 1..Len(t) : t[i] = "set" => i < Len(t) /\ t[i + 1] = "clear"
Pending == {t \in Seq(Accesses) : SetsAreCleared(t)}

\* The reset is in the shadow only between the two halves of fpga_core_reset.
ShadowInv == Reset \in control_shadow => csr_ok /\ todo # <<>> /\ Head(todo) = "clear"

ControlInv ==
    /\ todo \in Pending
    /\ alive \in BOOLEAN /\ csr_ok \in BOOLEAN /\ abandoned \in BOOLEAN
    /\ csr_ok => alive
    /\ writer \in {"load", "main", "tool"}
    /\ ShadowInv
    /\ ShadowTrue
    /\ ResetExplained

LEMMA NothingIsPending == <<>> \in Pending
  BY DEF Pending, SetsAreCleared

\* Calls made one after the other are pending as one.
LEMMA PendingConcat == ASSUME NEW s \in Pending, NEW t \in Pending PROVE s \o t \in Pending
<1> DEFINE u == s \o t
<1>1. s \in Seq(Accesses) /\ t \in Seq(Accesses) /\ SetsAreCleared(s) /\ SetsAreCleared(t)
  BY DEF Pending
<1>2. /\ Len(s) \in Nat /\ Len(t) \in Nat
      /\ u \in Seq(Accesses) /\ Len(u) = Len(s) + Len(t)
      /\ \A i \in 1..Len(s) : u[i] = s[i]
      /\ \A i \in 1..Len(t) : u[Len(s) + i] = t[i]
  BY <1>1, ConcatProperties
<1> HIDE DEF u
<1>3. SetsAreCleared(u)
  <2> SUFFICES ASSUME NEW i \in 1..Len(u), u[i] = "set" PROVE i < Len(u) /\ u[i + 1] = "clear"
    BY DEF SetsAreCleared
  <2>1. CASE i <= Len(s)
    <3>1. i < Len(s) /\ s[i + 1] = "clear"
      BY <1>1, <1>2, <2>1 DEF SetsAreCleared
    <3> QED
      BY <1>2, <3>1
  <2>2. CASE i > Len(s)
    <3> DEFINE j == i - Len(s)
    <3>1. j \in 1..Len(t) /\ i = Len(s) + j /\ t[j] = "set"
      BY <1>2, <2>2
    <3> HIDE DEF j
    <3>2. j < Len(t) /\ t[j + 1] = "clear"
      BY <1>1, <3>1 DEF SetsAreCleared
    <3>3. j + 1 \in 1..Len(t) /\ i + 1 = Len(s) + (j + 1)
      BY <1>2, <3>1, <3>2
    <3> QED
      BY <1>2, <3>1, <3>2, <3>3
  <2> QED
    BY <1>2, <2>1, <2>2
<1> QED
  BY <1>2, <1>3 DEF Pending, u

\* What a call puts into todo, and what a step of it leaves there.
LEMMA CallsArePending == Procedures \subseteq Pending
<1>1. CoreReset \in Pending /\ <<"exit">> \in Pending /\ <<"exec">> \in Pending
  BY DEF CoreReset, Pending, SetsAreCleared, Accesses
<1> QED
  BY <1>1, PendingConcat, NothingIsPending DEF Procedures, Reboot, AppRestart, LoadRbf

LEMMA TailIsPending ==
    ASSUME NEW t \in Pending, t # <<>>
    PROVE  /\ Tail(t) \in Pending
           /\ Head(t) = "set" => Tail(t) # <<>> /\ Head(Tail(t)) = "clear"
<1> DEFINE u == Tail(t)
<1>1. t \in Seq(Accesses) /\ SetsAreCleared(t)
  BY DEF Pending
<1>2. /\ u \in Seq(Accesses) /\ Len(u) = Len(t) - 1
      /\ \A i \in 1..Len(u) : u[i] = t[i + 1]
      /\ Len(t) \in Nat \ {0} /\ Len(u) \in Nat /\ Head(t) = t[1] /\ Head(u) = u[1]
  <2>1. Len(t) \in Nat /\ Len(t) # 0
    BY <1>1, EmptySeq
  <2>2. /\ u \in Seq(Accesses) /\ Len(u) = Len(t) - 1
        /\ \A i \in 1..Len(u) : u[i] = t[i + 1]
    BY <1>1, HeadTailProperties
  <2> HIDE DEF u
  <2>3. Head(t) = t[1] /\ Head(u) = u[1]
    OBVIOUS
  <2> QED
    BY <2>1, <2>2, <2>3
<1> HIDE DEF u
<1>3. SetsAreCleared(u)
  <2> SUFFICES ASSUME NEW i \in 1..Len(u), u[i] = "set" PROVE i < Len(u) /\ u[i + 1] = "clear"
    BY DEF SetsAreCleared
  <2>1. i + 1 \in 1..Len(t) /\ t[i + 1] = "set"
    BY <1>2
  <2>2. i + 1 < Len(t) /\ t[(i + 1) + 1] = "clear"
    BY <1>1, <2>1 DEF SetsAreCleared
  <2>3. i + 1 \in 1..Len(u)
    BY <1>2, <2>2
  <2> QED
    BY <1>2, <2>2, <2>3
<1>4. ASSUME Head(t) = "set" PROVE u # <<>> /\ Head(u) = "clear"
  <2>1. 1 \in 1..Len(t) /\ t[1] = "set"
    BY <1>2, <1>4
  <2>2. 1 < Len(t) /\ t[1 + 1] = "clear"
    BY <1>1, <2>1 DEF SetsAreCleared
  <2>3. 1 \in 1..Len(u)
    BY <1>2, <2>2
  <2> QED
    BY <1>2, <2>2, <2>3
<1>5. u \in Pending
  BY <1>2, <1>3 DEF Pending
<1> QED
  BY <1>4, <1>5 DEF u

LEMMA ControlInit == Init => ControlInv
  BY NothingIsPending DEF Init, ControlInv, ShadowInv, ShadowTrue, ResetExplained

\* Main's steps.
LEMMA MainKeepsControlInv == ControlInv /\ MainStep => ControlInv'
<1> SUFFICES ASSUME ControlInv, MainStep PROVE ControlInv'
  OBVIOUS
<1> USE DEF ControlInv, ShadowInv, ShadowTrue, ResetExplained, tool, bounds
<1>1. CASE Start \/ Exec
  BY <1>1, NothingIsPending DEF Start, Exec, Begin
<1>2. CASE IoInit
  BY <1>2 DEF IoInit, WriteControl
<1>3. ASSUME NEW m \in Masks, NEW high \in BOOLEAN, SpiEn(m, high) PROVE ControlInv'
  <2>1. Reset \notin m
    BY ControlAssumption DEF Enables, Reset
  <2>2. Reset \notin control_shadow'
    BY <1>3, <2>1 DEF SpiEn
  <2> QED
    BY <1>3, <2>2 DEF SpiEn, WriteControl
<1>4. CASE GetButtons
  BY <1>4 DEF GetButtons
<1>5. ASSUME NEW p \in Procedures, Call(p) PROVE ControlInv'
  <2>1. p \in Pending
    BY CallsArePending
  <2> QED
    BY <1>5, <2>1 DEF Call
<1>6. CASE ResetStep
  BY <1>6, TailIsPending DEF ResetStep, WriteControl
<1>7. CASE Exit
  BY <1>7, NothingIsPending DEF Exit, End
<1> QED
  BY <1>1, <1>2, <1>3, <1>4, <1>5, <1>6, <1>7 DEF MainStep

\* The steps of everybody else.
LEMMA OthersKeepControlInv ==
    ControlInv /\ (Crash \/ LoadBitstream \/ ToolRead \/ \E b \in Buttons : ToolPress(b) \/ ToolRelease(b))
        => ControlInv'
<1> USE DEF ControlInv, ShadowInv, ShadowTrue, ResetExplained, main, tool, bounds
<1>1. ControlInv /\ Crash => ControlInv'
  BY NothingIsPending DEF Crash, End
<1>2. ControlInv /\ LoadBitstream => ControlInv'
  BY DEF LoadBitstream, WriteControl
<1>3. ControlInv /\ ToolRead => ControlInv'
  BY DEF ToolRead
<1>4. ASSUME NEW b \in Buttons PROVE ControlInv /\ (ToolPress(b) \/ ToolRelease(b)) => ControlInv'
  BY DEF ToolPress, ToolRelease, WriteControl
<1> QED
  BY <1>1, <1>2, <1>3, <1>4

LEMMA ControlInvariant == Spec => []ControlInv
<1>1. ControlInv /\ UNCHANGED vars => ControlInv'
  BY DEF ControlInv, ShadowInv, ShadowTrue, ResetExplained, vars, main, tool, bounds
<1>2. ControlInv /\ [Next]_vars => ControlInv'
  BY <1>1, MainKeepsControlInv, OthersKeepControlInv DEF Next
<1> QED
  BY ControlInit, <1>2, PTL DEF Spec

-----------------------------------------------------------------------------

\* Unless somebody else has written the register since, it is what Main's
\* shadow says.
THEOREM ShadowIsTrue == Spec => []ShadowTrue
<1>1. ControlInv => ShadowTrue
  BY DEF ControlInv
<1> QED
  BY <1>1, ControlInvariant, PTL

\* A core in reset has somebody answerable for it.
THEOREM ResetIsExplained == Spec => []ResetExplained
<1>1. ControlInv => ResetExplained
  BY DEF ControlInv
<1> QED
  BY <1>1, ControlInvariant, PTL
=============================================================================
