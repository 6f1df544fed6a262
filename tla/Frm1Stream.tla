------------------------------ MODULE Frm1Stream ------------------------------
(***************************************************************************)
(* What the card promises about the FRM1 stream it hands to the host       *)
(* (overlay/rtl/video_sink/video_sink.py), and what the parser may rely    *)
(* on: which beat may come after which.  Frames may be missing or cut      *)
(* short, and a header may lie about the size of its frame, but pixels     *)
(* come after the header of their own frame, from the first one on,        *)
(* without a gap.                                                          *)
(*                                                                         *)
(* A pixel is the <<row, column>> it was shown at; a pixel beat names the  *)
(* number of its frame, which the wire does not carry.                     *)
(***************************************************************************)
EXTENDS Naturals, Sequences

CONSTANT Lanes    \* words in a beat (4)

VARIABLE last     \* the last beat of the stream, or NoBeat

NoBeat == <<"none">>
Header(w, h, n) == <<"header", w, h, n>>
Pixels(n, ps) == <<"pixels", n, ps>>

IsHeader(b) == b[1] = "header"
IsPixels(b) == b[1] = "pixels"
FrameOf(b) == IF IsHeader(b) THEN b[4] ELSE b[2]
FinalPixel(b) == b[3][Len(b[3])]

\* q is shown right after p in a frame.
Follows(p, q) == \/ q = <<p[1], p[2] + 1>>
                 \/ q = <<p[1] + 1, 0>>

\* Pixels go on where the beat before stopped, and only after a full beat.
Continues(a, b) ==
    \/ IsHeader(a) /\ b[3][1] = <<0, 0>>
    \/ IsPixels(a) /\ Len(a[3]) = Lanes /\ Follows(FinalPixel(a), b[3][1])

MayFollow(a, b) ==
    \/ IsHeader(b)
    \/ /\ IsPixels(b) /\ a # NoBeat
       /\ FrameOf(a) = FrameOf(b)
       /\ Len(b[3]) \in 1..Lanes
       /\ Continues(a, b)
       /\ \A i \in 1..Len(b[3]) - 1 : Follows(b[3][i], b[3][i + 1])

Init == last = NoBeat
Next == MayFollow(last, last')
Spec == Init /\ [][Next]_last
=============================================================================
