------------------------------- MODULE DmaRing -------------------------------
(***************************************************************************)
(* The card's DMA writer fills a ring of host buffers and never waits; the *)
(* viewer's transport (host/viewer/retroview/transport/litepcie.py) reads  *)
(* the driver's counts, hands buffers back and copies them out.  The       *)
(* stream is that of TestFrameSource (c1100_pcie_video.py), which          *)
(* tools/frametest checks word for word over the same calls.               *)
(*                                                                         *)
(* A buffer has two halves of one beat each, so that it can be overwritten *)
(* while it is copied.  Every ioctl, poll and half copy is one step.       *)
(***************************************************************************)
EXTENDS Integers

CONSTANTS Buffers,    \* DMA_BUFFER_COUNT
          Npix,       \* pixels of a test frame
          FrameMod,   \* frame numbers of the test pattern (256)
          Starts,     \* where the pattern may stand: pairs of frame number and index
          MaxBeats    \* bound: the beats the card writes

ASSUME RingAssumption ==
    /\ {Buffers, Npix, FrameMod} \subseteq Nat \ {0} /\ MaxBeats \in Nat
    /\ Starts \subseteq (0..FrameMod - 1) \X (0..Npix - 1)

VARIABLES
    \* TestFrameSource
    enable, frame_no, idx,
    \* the card's DMA and the driver (external)
    beats,              \* beats written since the writer was started
    slots,              \* the ring: two beats in each buffer
    writer,             \* the writer is enabled
    hw, sw,             \* the driver's counts of buffers filled and taken back
    lock,               \* who holds the writer: "none", "me", "other"
    \* LitePCIeTransport
    pc, fd, hw_count, sw_count, avail, offset,
    front,              \* the half of a buffer copied so far
    \* frametest
    prev, errors,
    \* history, for the properties only
    copied,             \* buffers read() has returned
    last, gap,          \* the last beat returned; beats were missing or repeated
    blank               \* a woken read found nothing, and no buffer was returned since

source == <<enable, frame_no, idx>>
driver == <<beats, slots, writer, hw, sw, lock>>
counts == <<hw_count, sw_count, avail, offset, front>>
test == <<prev, errors, last, gap>>
history == <<copied, blank>>
vars == <<source, driver, pc, fd, counts, test, history>>

Nothing == [beat |-> -1, word |-> <<-1, -1>>]
Half == 0..1
Ring == 0..Buffers - 1

Init ==
    /\ enable = FALSE /\ \E s \in Starts : frame_no = s[1] /\ idx = s[2]
    /\ beats = 0 /\ slots = [s \in Ring |-> [h \in Half |-> Nothing]]
    /\ writer = FALSE /\ hw = 0 /\ sw = 0 /\ lock = "none"
    /\ pc = "new" /\ fd = FALSE
    /\ hw_count = 0 /\ sw_count = 0 /\ avail = 0 /\ offset = 0 /\ front = Nothing
    /\ prev = Nothing.word /\ errors = FALSE
    /\ copied = 0 /\ last = -1 /\ gap = FALSE /\ blank = FALSE

-----------------------------------------------------------------------------
(* The source, the card and the driver *)

SetEnable ==
    /\ enable' = ~enable
    /\ UNCHANGED <<frame_no, idx, driver, pc, fd, counts, test, history>>

\* Slip: the frame number is not counted.
PatternUnnumbered == /\ idx' = IF idx = Npix - 1 THEN 0 ELSE idx + 1
                     /\ UNCHANGED frame_no

\* The word after <<frame_no, idx>>
Pattern == IF idx = Npix - 1
           THEN idx' = 0 /\ frame_no' = (frame_no + 1) % FrameMod
           ELSE idx' = idx + 1 /\ UNCHANGED frame_no

\* One beat of the source goes into the ring.  Nobody tells the card what has
\* been read.
Emit ==
    /\ enable /\ writer /\ lock = "me" /\ beats < MaxBeats
    /\ slots' = [slots EXCEPT ![(beats \div 2) % Buffers][beats % 2] =
                     [beat |-> beats, word |-> <<frame_no, idx>>]]
    /\ beats' = beats + 1
    /\ Pattern
    /\ UNCHANGED <<enable, writer, hw, sw, lock, pc, fd, counts, test, history>>

\* The driver learns of the buffers that have been filled.
Interrupt ==
    /\ hw # beats \div 2
    /\ hw' = beats \div 2
    /\ UNCHANGED <<source, beats, slots, writer, sw, lock, pc, fd, counts, test, history>>

\* LITEPCIE_IOCTL_DMA_WRITER: starting the writer starts its counts.  The
\* driver does not ask who holds the lock.
DriverWriter(on) ==
    /\ writer' = on
    /\ IF on /\ ~writer THEN beats' = 0 /\ hw' = 0 /\ sw' = 0 ELSE UNCHANGED <<beats, hw, sw>>

\* Another program takes the writer and gives it back.
OtherTakes ==
    /\ lock = "none" /\ lock' = "other" /\ DriverWriter(TRUE)
    /\ UNCHANGED <<source, slots, pc, fd, counts, test, history>>

OtherLeaves ==
    /\ lock = "other" /\ lock' = "none" /\ DriverWriter(FALSE)
    /\ UNCHANGED <<source, slots, pc, fd, counts, test, history>>

-----------------------------------------------------------------------------
(* open *)

Open == /\ pc = "new"
        /\ pc' = "opened" /\ fd' = TRUE
        /\ UNCHANGED <<source, driver, counts, test, history>>

\* Slip: the device stays open when the lock is refused.
LockKeepsFd ==
    /\ pc = "opened"
    /\ IF lock = "none" THEN lock' = "me" /\ pc' = "locked" /\ UNCHANGED fd
                        ELSE pc' = "raised" /\ UNCHANGED <<fd, lock>>
    /\ UNCHANGED <<source, beats, slots, writer, hw, sw, counts, test, history>>

Lock ==
    /\ pc = "opened"
    /\ IF lock = "none" THEN lock' = "me" /\ pc' = "locked" /\ UNCHANGED fd
                        ELSE pc' = "raised" /\ fd' = FALSE /\ UNCHANGED lock
    /\ UNCHANGED <<source, beats, slots, writer, hw, sw, counts, test, history>>

\* Loopback off, MMAP_DMA_INFO and mmap: the ring may not be the one expected.
Map == /\ pc = "locked"
       /\ pc' \in {"mapped", "raised"}
       /\ UNCHANGED <<source, driver, fd, counts, test, history>>

\* _writer(1): the counts are those of the driver after the call.
Writer == /\ DriverWriter(TRUE)
          /\ hw_count' = hw' /\ sw_count' = sw'

Start == /\ pc = "mapped"
         /\ Writer
         /\ pc' = "ready"
         /\ UNCHANGED <<source, slots, lock, fd, avail, offset, front, test, history>>

-----------------------------------------------------------------------------
(* read *)

\* Slip: the counts of open are used for ever.
RefreshStale == /\ pc = "ready" /\ avail = 0
                /\ DriverWriter(TRUE)
                /\ pc' = "poll"
                /\ UNCHANGED <<source, slots, lock, fd, counts, test, history>>

Refresh == /\ pc = "ready" /\ avail = 0
           /\ Writer
           /\ pc' = "poll"
           /\ UNCHANGED <<source, slots, lock, fd, avail, offset, front, test, history>>

\* select with a time-out: the driver reports data as long as buffers it knows
\* of have not been handed back.
Poll == /\ pc = "poll"
        /\ pc' = IF hw > sw THEN "woken" ELSE "ready"
        /\ UNCHANGED <<source, driver, fd, counts, test, history>>

\* Slip: everything the driver has by now is handed back.
HandBackAll ==
    /\ pc = "woken"
    /\ avail' = hw_count - sw_count
    /\ offset' = sw_count % Buffers
    /\ sw' = hw
    /\ pc' = IF avail' = 0 THEN "ready" ELSE "copy"
    /\ blank' = (avail' = 0)
    /\ UNCHANGED <<source, beats, slots, writer, hw, lock, fd, hw_count, sw_count, front, test, copied>>

\* Slip: the offset is taken from the other count.
HandBackNewest ==
    /\ pc = "woken"
    /\ avail' = hw_count - sw_count
    /\ offset' = hw_count % Buffers
    /\ sw' = sw_count + avail'
    /\ pc' = IF avail' = 0 THEN "ready" ELSE "copy"
    /\ blank' = (avail' = 0)
    /\ UNCHANGED <<source, beats, slots, writer, hw, lock, fd, hw_count, sw_count, front, test, copied>>

\* What the counts showed is handed back, all of it and before it is copied;
\* what woke the poll may be missing from them.
HandBack ==
    /\ pc = "woken"
    /\ avail' = hw_count - sw_count
    /\ offset' = sw_count % Buffers
    /\ sw' = sw_count + avail'
    /\ pc' = IF avail' = 0 THEN "ready" ELSE "copy"
    /\ blank' = (avail' = 0)
    /\ UNCHANGED <<source, beats, slots, writer, hw, lock, fd, hw_count, sw_count, front, test, copied>>

CopyFront ==
    /\ pc = "copy" \/ (pc = "ready" /\ avail > 0)
    /\ front' = slots[offset][0]
    /\ pc' = "copying"
    /\ UNCHANGED <<source, driver, fd, hw_count, sw_count, avail, offset, test, history>>

\* frametest: the word that has to follow w
Expected(w) == IF w[2] = Npix - 1 THEN <<(w[1] + 1) % FrameMod, 0>> ELSE <<w[1], w[2] + 1>>

\* frametest compares every word with the one before it, except the first.
Check(a, b) ==
    /\ errors' = (errors \/ (prev # Nothing.word /\ a.word # Expected(prev)) \/ b.word # Expected(a.word))
    /\ prev' = b.word
    /\ gap' = (gap \/ (last # -1 /\ a.beat # last + 1) \/ b.beat # a.beat + 1)
    /\ last' = b.beat

CopyBack ==
    /\ pc = "copying"
    /\ Check(front, slots[offset][1])
    /\ avail' = avail - 1 /\ offset' = (offset + 1) % Buffers
    /\ front' = Nothing
    /\ copied' = copied + 1 /\ blank' = FALSE
    /\ pc' = "ready"
    /\ UNCHANGED <<source, driver, fd, hw_count, sw_count>>

Read == Refresh \/ Poll \/ HandBack \/ CopyFront \/ CopyBack

-----------------------------------------------------------------------------
(* close *)

\* Slip: the device is left to the driver.
CloseKeepsLock ==
    /\ pc \in {"ready", "raised"} /\ pc' = "closed"
    /\ IF fd THEN fd' = FALSE /\ DriverWriter(FALSE) ELSE UNCHANGED <<fd, beats, writer, hw, sw>>
    /\ UNCHANGED <<source, slots, lock, counts, test, history>>

\* Nothing is left to do after a failed lock.
CloseUnopened ==
    /\ pc = "raised" /\ ~fd
    /\ pc' = "closed"
    /\ UNCHANGED <<source, driver, fd, counts, test, history>>

StopWriter ==
    /\ pc \in {"ready", "raised"} /\ fd
    /\ DriverWriter(FALSE)
    /\ pc' = "stopped"
    /\ UNCHANGED <<source, slots, lock, fd, counts, test, history>>

\* _lock(0, 1), munmap and close
Release ==
    /\ pc = "stopped"
    /\ lock' = "none"
    /\ pc' = "closed" /\ fd' = FALSE
    /\ UNCHANGED <<source, beats, slots, writer, hw, sw, counts, test, history>>

Close == CloseUnopened \/ StopWriter \/ Release

-----------------------------------------------------------------------------

Card == SetEnable \/ Emit \/ Interrupt \/ OtherTakes \/ OtherLeaves
Next == Card \/ Open \/ Lock \/ Map \/ Start \/ Read \/ Close

Spec == Init /\ [][Next]_vars

\* The viewer calls read() again and again until it closes the transport, and
\* interrupts arrive.
FairSpec == Spec /\ WF_vars(Read) /\ WF_vars(Interrupt)

-----------------------------------------------------------------------------
(* Properties *)

Reading == {"ready", "poll", "woken", "copy", "copying"}

\* The beats that read() is about to return.
Returned == [h \in Half |-> IF h = 0 THEN front.beat ELSE slots[offset][1].beat]

\* The buffer that the k-th read returns is the k-th that the card filled as
\* long as the card is less than a ring ahead of the copy; a card that went
\* round has put beats of later rounds in its place, never earlier ones.  It
\* heals by itself: a lap spoils nothing but the buffers it ran over.
ChunkRight ==
    [][copied' # copied =>
         \A h \in Half :
            LET due == 2 * copied + h
            IN  /\ Returned[h] >= due /\ (Returned[h] - due) % (2 * Buffers) = 0
                /\ beats <= 2 * (copied + Buffers) => Returned[h] = due]_vars

\* frametest's verdict is right both ways, across the wraps of the index and
\* of the frame number: it reports errors exactly when beats are missing,
\* repeated or out of order, torn buffers and the jump back after a lap
\* included.
VerdictHonest == errors <=> gap

\* The counts are read before the poll, so a read that was woken may find
\* nothing: only when buffers arrived between the two, and never again before a
\* buffer has been returned.  The empty reads are at most one more than the
\* buffers that were returned.
BlankThenData ==
    [][pc = "woken" /\ pc' = "ready" => hw > hw_count /\ ~blank]_vars

\* Opening and closing the transport never stops the writer of another program
\* or takes its lock away.
OthersUndisturbed == [][lock = "other" /\ pc' # pc => writer' /\ lock' = "other"]_vars

\* However opening failed, closing leaves the writer stopped and free.
NothingLeftBehind == pc = "closed" => ~fd /\ lock # "me" /\ (lock = "none" => ~writer)

\* Every buffer the driver knows of is returned, unless the transport is closed.
EverythingReturned ==
    \A n \in 1..MaxBeats \div 2 : (pc \in Reading /\ hw >= n) ~> (copied >= n \/ pc \notin Reading)
=============================================================================
