------------------------------ MODULE VideoSink ------------------------------
(***************************************************************************)
(* VideoSink of overlay/rtl/video_sink/video_sink.py: a core's video       *)
(* signals packed into FRM1 beats, pushed into an asynchronous FIFO that   *)
(* the DMA writer empties.                                                 *)
(*                                                                         *)
(* VidEdge is one clock of the video domain with the levels the core shows *)
(* on it; every register takes its next value from the values before the   *)
(* edge, and where the source assigns a register twice the later           *)
(* assignment wins.  ReadBeat is the host side taking a beat.              *)
(*                                                                         *)
(* A pixel is the <<row, column>> it was shown at.  The 32-bit counters    *)
(* wrap at CountMod.                                                       *)
(***************************************************************************)
EXTENDS Naturals, Sequences

CONSTANTS Lanes,     \* pixels in a beat (4)
          Depth,     \* beats the FIFO holds (1024)
          CountMod,  \* the counters wrap here (2^32)
          MaxWidth, MaxHeight,  \* bound on the frames the core shows
          Porch,     \* clocks between DE and VS changing, at least
          CePix,     \* the values of ce_pix: {TRUE}, or also FALSE
          Enables    \* the values the host writes to enable

ASSUME SinkAssumption ==
    /\ Lanes \in Nat \ (0..2) /\ Depth \in Nat \ {0} /\ CountMod \in Nat \ {0, 1}
    /\ MaxWidth \in Nat \ {0} /\ MaxHeight \in Nat \ {0}
    /\ Porch \in Nat \ {0} /\ CePix \subseteq BOOLEAN /\ Enables \subseteq BOOLEAN

VARIABLES
    \* video domain
    vs_prev, de_prev, vs_seen,
    x, y,                        \* column and row being shown
    w_meas, h_meas, measured,    \* the dimensions of the frame before this one
    frame_no, frames_v, drops_v,
    in_frame, dropping,
    pack,                        \* the pixels of the pending beat
    push,                        \* the beat to be written on this clock, or NoBeat
    enable1, enable_v,           \* the MultiReg enable -> vid
    \* sys domain
    enable,
    \* the FIFO
    fifo,       \* beats written and not yet read
    unseen,     \* reads that the writing side has not seen yet
    \* the core's timing
    since,      \* clocks since DE or VS last changed, up to Porch
    \* history, for the properties only
    last,       \* the last beat written into the FIFO
    lastpix     \* the last pixel the core showed in this frame

counters == <<frame_no, frames_v, drops_v>>
vars == <<vs_prev, de_prev, vs_seen, x, y, w_meas, h_meas, measured, counters,
          in_frame, dropping, pack, push, enable1, enable_v, enable,
          fifo, unseen, since, last, lastpix>>

Stream == INSTANCE Frm1Stream
NoBeat == Stream!NoBeat
Header(w, h, n) == Stream!Header(w, h, n)

Inc(n) == IF n + 1 = CountMod THEN 0 ELSE n + 1

\* The number of the frame being shown: frame_no is one ahead.
own == IF frame_no = 0 THEN CountMod - 1 ELSE frame_no - 1
Pixels(ps) == Stream!Pixels(own, ps)

Init ==
    /\ vs_prev = FALSE /\ de_prev = FALSE /\ vs_seen = FALSE
    /\ x = 0 /\ y = 0 /\ w_meas = 0 /\ h_meas = 0 /\ measured = FALSE
    /\ frame_no = 0 /\ frames_v = 0 /\ drops_v = 0
    /\ in_frame = FALSE /\ dropping = FALSE
    /\ pack = <<>> /\ push = NoBeat
    /\ enable = FALSE /\ enable1 = FALSE /\ enable_v = FALSE
    /\ fifo = <<>> /\ unseen = 0
    /\ since = 0
    /\ last = NoBeat /\ lastpix = <<>>

-----------------------------------------------------------------------------
(* Combinational signals *)

writable == Len(fifo) + unseen < Depth

\* Slip: a disabled sink still starts frames.
starting_always(de) == de /\ ~de_prev /\ vs_seen

starting(de) == de /\ ~de_prev /\ vs_seen /\ enable_v
line_end(de) == ~de /\ de_prev
frame_end(vs) == vs # vs_prev /\ in_frame
active(de, ce) == de /\ ce /\ (in_frame \/ starting(de))
pixel(de, ce) == active(de, ce) /\ ~dropping

\* Slip: only the first beats of a frame, its header, are watched.
overflow_header == push # NoBeat /\ push[1] = "header" /\ ~writable /\ in_frame /\ ~dropping

\* A beat that cannot be written loses the rest of its frame.
overflow == push # NoBeat /\ ~writable /\ in_frame /\ ~dropping

\* A frame starts to be streamed when there is something to say and room for it.
announced(de) == starting(de) /\ measured /\ writable

here == <<y, x>>

-----------------------------------------------------------------------------
(* What each group of registers does on a clock *)

Sync(vs, de) ==
    /\ vs_prev' = vs /\ de_prev' = de
    /\ vs_seen' = (~de /\ (vs_seen \/ vs # vs_prev))
    /\ in_frame' = (starting(de) \/ (in_frame /\ ~frame_end(vs)))
    /\ enable1' = enable /\ enable_v' = enable1

Measure(vs, de, ce) ==
    /\ x' = IF line_end(de) /\ in_frame THEN 0
            ELSE IF active(de, ce) THEN x + 1
            ELSE IF starting(de) \/ frame_end(vs) THEN 0 ELSE x
    /\ y' = IF line_end(de) /\ in_frame THEN y + 1
            ELSE IF starting(de) \/ frame_end(vs) THEN 0 ELSE y
    /\ w_meas' = IF line_end(de) /\ in_frame /\ x # 0 THEN x ELSE w_meas
    /\ h_meas' = IF frame_end(vs) /\ y # 0 THEN y ELSE h_meas
    /\ measured' = (measured \/ (frame_end(vs) /\ y # 0))

\* Slip: the pending beat is not flushed at the end of a frame.
PackUnflushed(vs, de, ce) ==
    /\ pack' = IF pixel(de, ce)
               THEN IF Len(pack) = Lanes - 1 THEN <<>> ELSE Append(pack, here)
               ELSE IF starting(de) THEN <<>> ELSE pack
    /\ push' = IF pixel(de, ce) /\ Len(pack) = Lanes - 1
               THEN Pixels(Append(pack, here))
               ELSE IF announced(de) THEN Header(w_meas, h_meas, frame_no)
               ELSE NoBeat

\* Slip: a pixel that fills the beat is left for the next one.
PackLate(vs, de, ce) ==
    /\ pack' = IF pixel(de, ce)
               THEN IF Len(pack) = Lanes - 1 THEN <<>> ELSE Append(pack, here)
               ELSE IF starting(de) \/ frame_end(vs) THEN <<>> ELSE pack
    /\ push' = IF pixel(de, ce) /\ Len(pack) = Lanes - 1
               THEN Pixels(pack)
               ELSE IF announced(de) THEN Header(w_meas, h_meas, frame_no)
               ELSE IF frame_end(vs) /\ pack # <<>> /\ ~dropping
               THEN Pixels(pack)
               ELSE NoBeat

Pack(vs, de, ce) ==
    /\ pack' = IF pixel(de, ce)
               THEN IF Len(pack) = Lanes - 1 THEN <<>> ELSE Append(pack, here)
               ELSE IF starting(de) \/ frame_end(vs) THEN <<>> ELSE pack
    /\ push' = IF pixel(de, ce) /\ Len(pack) = Lanes - 1
               THEN Pixels(Append(pack, here))
               ELSE IF announced(de) THEN Header(w_meas, h_meas, frame_no)
               ELSE IF frame_end(vs) /\ pack # <<>> /\ ~dropping
               THEN Pixels(pack)
               ELSE NoBeat

\* Slip: dropping is not cleared at the end of the frame.
DropForever(vs, de) ==
    dropping' = (overflow \/ IF starting(de) THEN dropping \/ ~announced(de)
                             ELSE dropping)

\* Slip: a frame that lost a beat is taken up again when there is room.
DropResumes(vs, de) ==
    dropping' = (overflow \/ IF starting(de) THEN ~announced(de)
                             ELSE dropping /\ ~frame_end(vs) /\ ~writable)

Drop(vs, de) ==
    dropping' = (overflow \/ IF starting(de) THEN ~announced(de)
                             ELSE dropping /\ ~frame_end(vs))

\* Slip: a dropped frame is counted as streamed as well.
CountBoth(vs, de) ==
    /\ frame_no' = IF starting(de) THEN Inc(frame_no) ELSE frame_no
    /\ frames_v' = IF frame_end(vs) THEN Inc(frames_v) ELSE frames_v
    /\ drops_v' = IF overflow \/ (starting(de) /\ measured /\ ~writable)
                  THEN Inc(drops_v) ELSE drops_v

Count(vs, de) ==
    /\ frame_no' = IF starting(de) THEN Inc(frame_no) ELSE frame_no
    /\ frames_v' = IF frame_end(vs) /\ ~dropping THEN Inc(frames_v) ELSE frames_v
    /\ drops_v' = IF overflow \/ (starting(de) /\ measured /\ ~writable)
                  THEN Inc(drops_v) ELSE drops_v

\* fifo.we = push & fifo.writable; the writing side learns of reads late.
Write ==
    /\ IF push # NoBeat /\ writable
       THEN fifo' = Append(fifo, push) /\ last' = push
       ELSE UNCHANGED <<fifo, last>>
    /\ unseen' \in 0..unseen

-----------------------------------------------------------------------------
(* The two sides *)

\* The core's timing: VS changes while DE is low, at least Porch clocks after DE
\* fell and before it rises, and every line that DE shows has a pixel.
Timing(vs, de) ==
    /\ vs # vs_prev => ~de /\ ~de_prev /\ since >= Porch
    /\ de /\ ~de_prev => since >= Porch
    /\ line_end(de) /\ in_frame => x # 0
    /\ since' = IF vs # vs_prev \/ de # de_prev THEN 1
                ELSE IF since < Porch THEN since + 1 ELSE since

\* The frames the core shows are at most MaxWidth by MaxHeight.
Bounded(de, ce) == /\ de /\ ce => x < MaxWidth
                   /\ de /\ ~de_prev => y < MaxHeight \/ vs_seen

VidEdge(vs, de, ce) ==
    /\ Timing(vs, de) /\ Bounded(de, ce)
    /\ Sync(vs, de)
    /\ Measure(vs, de, ce)
    /\ Pack(vs, de, ce)
    /\ Drop(vs, de)
    /\ Count(vs, de)
    /\ Write
    /\ lastpix' = IF active(de, ce) THEN here ELSE lastpix
    /\ UNCHANGED enable

ReadBeat ==
    /\ fifo # <<>>
    /\ fifo' = Tail(fifo)
    /\ unseen' = unseen + 1
    /\ UNCHANGED <<vs_prev, de_prev, vs_seen, x, y, w_meas, h_meas, measured,
                   counters, in_frame, dropping, pack, push, enable1, enable_v,
                   enable, since, last, lastpix>>

\* The host writes the enable register.
SetEnable(e) ==
    /\ enable # e
    /\ enable' = e
    /\ UNCHANGED <<vs_prev, de_prev, vs_seen, x, y, w_meas, h_meas, measured,
                   counters, in_frame, dropping, pack, push, enable1, enable_v,
                   fifo, unseen, since, last, lastpix>>

AnyVidEdge == \E vs, de \in BOOLEAN, ce \in CePix : VidEdge(vs, de, ce)

Next == \/ AnyVidEdge
        \/ ReadBeat
        \/ \E e \in Enables : SetEnable(e)

Spec == Init /\ [][Next]_vars

\* The video clock runs, the core goes on showing frames, the DMA goes on.
FairSpec == /\ Spec
            /\ WF_vars(AnyVidEdge) /\ WF_vars(ReadBeat)
            /\ []<><<vs_prev' # vs_prev>>_vars

-----------------------------------------------------------------------------
(* Properties *)

Coordinates == (0..MaxHeight - 1) \X (0..MaxWidth - 1)

\* Every register is in range, the FIFO never overflows, no pixel waits in the
\* pending beat between two frames, and no beat is pending while dropping.
TypeOK ==
    /\ x \in 0..MaxWidth /\ y \in 0..MaxHeight
    /\ w_meas \in 0..MaxWidth /\ h_meas \in 0..MaxHeight
    /\ {vs_prev, de_prev, vs_seen, measured, in_frame, dropping,
        enable, enable1, enable_v} \subseteq BOOLEAN
    /\ {frame_no, frames_v, drops_v} \subseteq 0..CountMod - 1
    /\ Len(pack) < Lanes /\ \A i \in DOMAIN pack : pack[i] \in Coordinates
    /\ Len(fifo) + unseen <= Depth
    /\ ~in_frame => pack = <<>>

\* Whatever is lost, and however late the host is, the beats written into the
\* FIFO make a FRM1 stream: no pixels without the header of their frame, none
\* after some pixels of their frame were lost, none repeated or out of order.
StreamSpec == Stream!Spec

\* Every frame after the first is counted once, as streamed or as dropped, when
\* it ends or is given up: the three counters agree up to their wrap.
CountedOnce ==
    LET counted == 1 + frames_v + drops_v + (IF in_frame /\ ~dropping THEN 1 ELSE 0)
    IN measured => counted \in {frame_no, frame_no + CountMod, frame_no + 2 * CountMod}

\* A frame counted as streamed has handed over its last pixel: it is in the
\* pending beat, in the beat being written or in the last one that was.
CompleteWhenCounted ==
    [][frames_v' # frames_v =>
        lastpix = IF pack # <<>> THEN pack[Len(pack)]
                  ELSE IF push # NoBeat THEN Stream!FinalPixel(push)
                  ELSE Stream!FinalPixel(last)]_vars

\* A sink that gave up frames takes up streaming again by itself: enabled for
\* good, shown frames, and with a FIFO that has room from some time on, it
\* completes frame after frame.
StreamsAgain ==
    <>[]enable /\ <>[]writable /\ []<>in_frame => []<><<frames_v' # frames_v>>_vars

\* A sink disabled for good, wherever it was in a frame, finishes that frame and
\* falls silent: every beat is read and no other is written.
FallsSilent == <>[]~enable => <>[](~in_frame /\ push = NoBeat /\ fifo = <<>>)

-----------------------------------------------------------------------------
(* What a comment in the code says of it, checked as it stands *)

\* video_sink.py:26 "When the FIFO is full the sink drops the rest of the
\* current frame ... and counts the drops": no beat is lost from a frame that
\* is being streamed without a drop being counted.
LossIsCounted ==
    [][AnyVidEdge /\ push # NoBeat /\ ~writable /\ ~dropping
        => drops_v' = Inc(drops_v)]_vars
=============================================================================
