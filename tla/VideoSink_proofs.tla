--------------------------- MODULE VideoSink_proofs ---------------------------
(***************************************************************************)
(* VideoSink implements Frm1Stream, for every number of lanes, depth of    *)
(* the FIFO, width of the counters and size of the frames.                 *)
(*                                                                         *)
(* The inductive invariant looks at the tip of the stream, the beat being  *)
(* written or, when there is none, the last one written.  While a frame is *)
(* streamed the pending beat goes on from the tip, and the pixel that is   *)
(* shown next goes on from the pending beat (PathInv).  A beat is only     *)
(* ever requested when none waits (FrameInv), so when one is lost nothing  *)
(* that would follow it is under way.                                      *)
(***************************************************************************)
EXTENDS VideoSink, SequenceTheorems, TLAPS

Pixel == Nat \X Nat

Chained(ps) == \A i \in 1..Len(ps) - 1 : Stream!Follows(ps[i], ps[i + 1])

BeatOK(b) ==
    \/ b = NoBeat
    \/ b[1] = "header" /\ b = Header(b[2], b[3], b[4])
    \/ b[1] = "pixels" /\ b = Stream!Pixels(b[2], b[3]) /\ b[3] \in Seq(Pixel) /\ b[3] # <<>>

Types ==
    /\ x \in Nat /\ y \in Nat
    /\ frame_no \in 0..CountMod - 1
    /\ vs_prev \in BOOLEAN /\ de_prev \in BOOLEAN /\ vs_seen \in BOOLEAN
    /\ in_frame \in BOOLEAN /\ dropping \in BOOLEAN /\ enable_v \in BOOLEAN
    /\ enable1 \in BOOLEAN /\ enable \in BOOLEAN
    /\ pack \in Seq(Pixel) /\ Len(pack) < Lanes
    /\ BeatOK(push) /\ BeatOK(last)

FrameInv ==
    /\ vs_seen => ~in_frame
    /\ ~in_frame => x = 0 /\ y = 0 /\ pack = <<>> /\ ~dropping
    /\ dropping => push = NoBeat
    /\ push[1] = "header" => in_frame /\ de_prev /\ Len(pack) <= 1
    /\ push[1] = "pixels" => pack = <<>> /\ (in_frame => de_prev)

tip == IF push # NoBeat THEN push ELSE last

\* p was shown right before the pixel that is shown next.
JustShown(p) == IF x = 0 THEN y = p[1] + 1 ELSE p = <<y, x - 1>>

PathInv ==
    in_frame /\ ~dropping =>
        /\ tip # NoBeat /\ Stream!FrameOf(tip) = own
        /\ tip[1] = "pixels" => Len(tip[3]) = Lanes
        /\ Chained(pack)
        /\ pack # <<>> => Stream!Continues(tip, Pixels(pack)) /\ JustShown(pack[Len(pack)])
        /\ pack = <<>> => IF tip[1] = "pixels" THEN JustShown(Stream!FinalPixel(tip))
                          ELSE x = 0 /\ y = 0

PushInv == push # NoBeat => Stream!MayFollow(last, push)

SinkInv == Types /\ FrameInv /\ PathInv /\ PushInv

-----------------------------------------------------------------------------

LEMMA Beats ==
    /\ NoBeat[1] = "none" /\ BeatOK(NoBeat)
    /\ \A w, h, n : Header(w, h, n)[1] = "header" /\ BeatOK(Header(w, h, n))
    /\ \A w, h, n : Header(w, h, n) # NoBeat /\ Stream!FrameOf(Header(w, h, n)) = n
    /\ \A n, ps : /\ Stream!Pixels(n, ps)[1] = "pixels"
                  /\ Stream!Pixels(n, ps)[2] = n /\ Stream!Pixels(n, ps)[3] = ps
                  /\ Stream!Pixels(n, ps) # NoBeat
                  /\ Stream!FrameOf(Stream!Pixels(n, ps)) = n
                  /\ ps \in Seq(Pixel) /\ ps # <<>> => BeatOK(Stream!Pixels(n, ps))
  BY DEF NoBeat, Header, BeatOK, Stream!NoBeat, Stream!Header, Stream!Pixels,
         Stream!FrameOf, Stream!IsHeader

\* When a beat of pixels may come after beat a.
LEMMA Fits ==
    ASSUME NEW a, NEW n, NEW ps \in Seq(Pixel), Len(ps) \in 1..Lanes, Chained(ps),
           a # NoBeat, Stream!FrameOf(a) = n, Stream!Continues(a, Stream!Pixels(n, ps))
    PROVE  Stream!MayFollow(a, Stream!Pixels(n, ps))
<1>1. Stream!IsPixels(Stream!Pixels(n, ps)) /\ Stream!FrameOf(Stream!Pixels(n, ps)) = n
      /\ Stream!Pixels(n, ps)[3] = ps
  BY Beats DEF Stream!IsPixels
<1>2. QED
  BY <1>1 DEF Stream!MayFollow, Chained, NoBeat

\* A beat continues what its first pixel continues.
LEMMA SameStart ==
    ASSUME NEW a, NEW n, NEW ps, NEW qs, ps[1] = qs[1],
           Stream!Continues(a, Stream!Pixels(n, ps))
    PROVE  Stream!Continues(a, Stream!Pixels(n, qs))
<1>1. Stream!Pixels(n, ps)[3] = ps /\ Stream!Pixels(n, qs)[3] = qs
  BY Beats
<1>2. QED
  BY <1>1 DEF Stream!Continues

\* A chain of pixels goes on with one that follows its last.
LEMMA Chain ==
    ASSUME NEW ps \in Seq(Pixel), NEW p \in Pixel, Chained(ps),
           ps # <<>> => Stream!Follows(ps[Len(ps)], p)
    PROVE  /\ Append(ps, p) \in Seq(Pixel) /\ Append(ps, p) # <<>>
           /\ Len(Append(ps, p)) = Len(ps) + 1
           /\ Append(ps, p)[Len(ps) + 1] = p
           /\ Append(ps, p)[1] = IF ps = <<>> THEN p ELSE ps[1]
           /\ Chained(Append(ps, p))
<1>1. /\ Append(ps, p) \in Seq(Pixel) /\ Append(ps, p) # <<>>
      /\ Len(Append(ps, p)) = Len(ps) + 1
      /\ Append(ps, p)[Len(ps) + 1] = p
      /\ \A i \in 1..Len(ps) : Append(ps, p)[i] = ps[i]
  BY AppendProperties
<1>2. ps # <<>> => Len(ps) \in Nat \ {0}
  OBVIOUS
<1>3. Chained(Append(ps, p))
  <2> SUFFICES ASSUME NEW i \in 1..Len(ps)
               PROVE  Stream!Follows(Append(ps, p)[i], Append(ps, p)[i + 1])
    BY <1>1 DEF Chained
  <2>1. CASE i = Len(ps)
    BY <1>1, <1>2, <2>1
  <2>2. CASE i \in 1..Len(ps) - 1
    BY <1>1, <2>2 DEF Chained
  <2>3. QED
    BY <2>1, <2>2
<1>4. QED
  BY <1>1, <1>2, <1>3

-----------------------------------------------------------------------------

LEMMA InitSinkInv == Init => SinkInv
<1> SUFFICES ASSUME Init PROVE SinkInv
  OBVIOUS
<1>1. <<>> \in Seq(Pixel) /\ Len(<<>>) = 0
  OBVIOUS
<1>2. Types
  <2>1. BeatOK(push) /\ BeatOK(last)
    BY Beats DEF Init
  <2>2. 0 \in 0..CountMod - 1 /\ 0 < Lanes
    BY SinkAssumption
  <2>3. QED
    BY <1>1, <2>1, <2>2 DEF Init, Types
<1>3. FrameInv /\ PathInv /\ PushInv
  BY Beats DEF Init, FrameInv, PathInv, PushInv
<1>4. QED
  BY <1>2, <1>3 DEF SinkInv

\* What the host does leaves the writing side alone.
LEMMA HostKeepsSinkInv ==
    SinkInv /\ (ReadBeat \/ (\E e \in Enables : SetEnable(e)) \/ UNCHANGED vars) => SinkInv'
<1> SUFFICES ASSUME SinkInv,
                    ReadBeat \/ (\E e \in Enables : SetEnable(e)) \/ UNCHANGED vars
             PROVE  SinkInv'
  OBVIOUS
<1>1. /\ UNCHANGED <<vs_prev, de_prev, vs_seen, x, y, frame_no, in_frame, dropping,
                     pack, push, enable1, enable_v, last>>
      /\ enable' \in BOOLEAN
  BY SinkAssumption DEF ReadBeat, SetEnable, vars, counters, SinkInv, Types
<1>2. Types' /\ FrameInv' /\ PushInv'
  BY <1>1 DEF SinkInv, Types, FrameInv, PushInv
<1>3. PathInv'
  BY <1>1 DEF SinkInv, PathInv, tip, own, Pixels, JustShown
<1>4. QED
  BY <1>2, <1>3 DEF SinkInv

-----------------------------------------------------------------------------
(* One clock of the video domain *)

\* A frame starts only after the one before it has ended.
LEMMA StartFacts ==
    ASSUME SinkInv, NEW de \in BOOLEAN, starting(de)
    PROVE  ~in_frame /\ x = 0 /\ y = 0 /\ pack = <<>> /\ ~dropping /\ de
  BY DEF SinkInv, Types, FrameInv, starting

\* No beat of the frame waits when the frame ends, or when its beat fills.
LEMMA NoneWaits ==
    ASSUME SinkInv, NEW vs \in BOOLEAN, NEW de \in BOOLEAN, NEW ce \in BOOLEAN,
           Timing(vs, de)
    PROVE  /\ frame_end(vs) => push = NoBeat /\ ~de
           /\ Len(pack) = Lanes - 1 => push = NoBeat /\ in_frame
<1>1. push # NoBeat => push[1] = "header" \/ push[1] = "pixels"
  BY DEF SinkInv, Types, BeatOK
<1>2. Len(<<>>) = 0
  OBVIOUS
<1>3. frame_end(vs) => push = NoBeat /\ ~de
  BY <1>1 DEF SinkInv, Types, FrameInv, frame_end, Timing
<1>4. ASSUME Len(pack) = Lanes - 1 PROVE push = NoBeat
  BY <1>1, <1>2, <1>4, SinkAssumption DEF SinkInv, FrameInv, Types
<1>5. ASSUME Len(pack) = Lanes - 1 PROVE in_frame
  BY <1>2, <1>5, SinkAssumption DEF SinkInv, FrameInv, Types
<1>6. QED
  BY <1>3, <1>4, <1>5 DEF SinkInv, Types

\* The registers that hold numbers and flags.
LEMMA PlainTypes ==
    ASSUME SinkInv, NEW vs \in BOOLEAN, NEW de \in BOOLEAN, NEW ce \in BOOLEAN,
           VidEdge(vs, de, ce)
    PROVE  /\ x' \in Nat /\ y' \in Nat
           /\ frame_no' \in 0..CountMod - 1
           /\ vs_prev' \in BOOLEAN /\ de_prev' \in BOOLEAN /\ vs_seen' \in BOOLEAN
           /\ in_frame' \in BOOLEAN /\ dropping' \in BOOLEAN /\ enable_v' \in BOOLEAN
           /\ enable1' \in BOOLEAN /\ enable' \in BOOLEAN
           /\ BeatOK(last') /\ here \in Pixel
<1> USE DEF SinkInv, Types, VidEdge
<1>1. x' \in Nat /\ y' \in Nat /\ here \in Pixel
  BY DEF Measure, here, Pixel
<1>2. frame_no' \in 0..CountMod - 1
  BY SinkAssumption DEF Count, Inc
<1>3. /\ vs_prev' \in BOOLEAN /\ de_prev' \in BOOLEAN /\ vs_seen' \in BOOLEAN
      /\ in_frame' \in BOOLEAN /\ enable_v' \in BOOLEAN
      /\ enable1' \in BOOLEAN /\ enable' \in BOOLEAN
  BY DEF Sync, starting, frame_end
<1>4. dropping' \in BOOLEAN
  BY DEF Drop
<1>5. BeatOK(last')
  BY DEF Write
<1>6. QED
  BY <1>1, <1>2, <1>3, <1>4, <1>5

\* A pixel fills the pending beat, and the beat is requested.
LEMMA FillKeepsSinkInv ==
    ASSUME SinkInv, NEW vs \in BOOLEAN, NEW de \in BOOLEAN, NEW ce \in BOOLEAN,
           VidEdge(vs, de, ce), pixel(de, ce), Len(pack) = Lanes - 1
    PROVE  SinkInv'
<1> DEFINE full == Append(pack, here)
<1>1. push = NoBeat /\ in_frame
  BY NoneWaits DEF VidEdge
<1>2. ~starting(de)
  BY <1>1, StartFacts
<1>3. de /\ ~dropping /\ active(de, ce) /\ ~line_end(de) /\ ~frame_end(vs) /\ ~overflow
  BY <1>1, NoneWaits DEF pixel, active, line_end, overflow, VidEdge
<1>4. pack # <<>> /\ Len(<<>>) = 0
  BY SinkAssumption
<1>5. /\ x' = x + 1 /\ y' = y /\ frame_no' = frame_no /\ in_frame' /\ ~dropping'
      /\ last' = last /\ de_prev' = de /\ ~vs_seen'
  BY <1>1, <1>2, <1>3 DEF VidEdge, Measure, Count, Sync, Drop, Write
<1>6. pack' = <<>> /\ push' = Pixels(full)
  BY DEF VidEdge, Pack
<1>7. /\ tip = last /\ last # NoBeat /\ Stream!FrameOf(last) = own
      /\ last[1] = "pixels" => Len(last[3]) = Lanes
      /\ Chained(pack) /\ Stream!Continues(last, Pixels(pack)) /\ JustShown(pack[Len(pack)])
  BY <1>1, <1>3, <1>4 DEF SinkInv, PathInv, tip
<1>8. pack[Len(pack)] \in Pixel /\ pack \in Seq(Pixel) /\ Len(pack) \in Nat \ {0}
  BY <1>4 DEF SinkInv, Types
<1>9. here \in Pixel /\ Stream!Follows(pack[Len(pack)], here)
  BY <1>7, <1>8, PlainTypes DEF JustShown, here, Stream!Follows, Pixel, SinkInv, Types
<1>10. /\ full \in Seq(Pixel) /\ full # <<>> /\ Len(full) = Lanes /\ full[Lanes] = here
       /\ full[1] = pack[1] /\ Chained(full)
  BY <1>4, <1>7, <1>8, <1>9, Chain, SinkAssumption
<1>11. /\ push'[1] = "pixels" /\ push' # NoBeat /\ BeatOK(push') /\ push'[3] = full
       /\ push'[2] = own
  BY <1>6, <1>10, Beats DEF Pixels
<1>12. own' = own
  BY <1>5 DEF own
<1>13. Types'
  BY <1>4, <1>6, <1>11, PlainTypes, SinkAssumption DEF Types
<1>14. FrameInv'
  BY <1>3, <1>5, <1>6, <1>11 DEF FrameInv
<1>15. PathInv'
  <2>1. tip' = push' /\ Stream!FrameOf(tip') = own'
    BY <1>6, <1>11, <1>12, Beats DEF tip, Pixels
  <2>2. x' # 0 /\ here = <<y', x' - 1>>
    BY <1>5 DEF here, Types, SinkInv
  <2>3. Stream!FinalPixel(tip)' = here
    BY <1>10, <1>11, <2>1 DEF Stream!FinalPixel
  <2>4. JustShown(Stream!FinalPixel(tip))'
    BY <2>2, <2>3 DEF JustShown
  <2>5. Chained(pack)'
    BY <1>4, <1>6 DEF Chained
  <2>6. QED
    BY <1>6, <1>10, <1>11, <2>1, <2>4, <2>5 DEF PathInv
<1>16. PushInv'
  <2>1. Stream!Continues(last, Stream!Pixels(own, full))
    BY <1>7, <1>10, SameStart DEF Pixels
  <2>2. Len(full) \in 1..Lanes
    BY <1>10, SinkAssumption
  <2>3. QED
    BY <1>5, <1>6, <1>7, <1>10, <2>1, <2>2, Fits DEF PushInv, Pixels
<1>17. QED
  BY <1>13, <1>14, <1>15, <1>16 DEF SinkInv

\* A frame starts: its header is requested, or it is dropped.
LEMMA StartKeepsSinkInv ==
    ASSUME SinkInv, NEW vs \in BOOLEAN, NEW de \in BOOLEAN, NEW ce \in BOOLEAN,
           VidEdge(vs, de, ce), starting(de)
    PROVE  SinkInv'
<1>1. ~in_frame /\ x = 0 /\ y = 0 /\ pack = <<>> /\ ~dropping /\ de /\ Len(<<>>) = 0
  BY StartFacts
<1>2. ~overflow /\ ~frame_end(vs) /\ ~line_end(de) /\ (active(de, ce) <=> ce) /\ (pixel(de, ce) <=> ce)
  BY <1>1 DEF overflow, frame_end, line_end, active, pixel
<1>3. here = <<0, 0>>
  BY <1>1 DEF here
<1>4. /\ in_frame' /\ de_prev' /\ ~vs_seen' /\ frame_no' = Inc(frame_no)
      /\ y' = 0 /\ x' = (IF ce THEN 1 ELSE 0)
      /\ dropping' = ~announced(de)
  <2>1. in_frame' /\ de_prev' /\ ~vs_seen'
    BY <1>1 DEF VidEdge, Sync
  <2>2. frame_no' = Inc(frame_no)
    BY DEF VidEdge, Count
  <2>3. y' = 0
    BY <1>1, <1>2 DEF VidEdge, Measure
  <2>4. x' = (IF ce THEN 1 ELSE 0)
    <3>1. CASE ce
      BY <1>1, <1>2, <3>1 DEF VidEdge, Measure
    <3>2. CASE ~ce
      BY <1>1, <1>2, <3>2 DEF VidEdge, Measure, active, line_end
    <3>3. QED
      BY <3>1, <3>2
  <2>5. dropping' = ~announced(de)
    BY <1>2 DEF VidEdge, Drop
  <2>6. QED
    BY <2>1, <2>2, <2>3, <2>4, <2>5
<1>len. Len(pack) # Lanes - 1
  BY <1>1, SinkAssumption
<1>5. push' = IF announced(de) THEN Header(w_meas, h_meas, frame_no) ELSE NoBeat
  BY <1>2, <1>len DEF VidEdge, Pack
<1>6. pack' = IF ce THEN Append(<<>>, here) ELSE <<>>
  BY <1>1, <1>2, <1>len DEF VidEdge, Pack
<1>7. own' = frame_no
  BY <1>4, SinkAssumption DEF own, Inc, SinkInv, Types
<1>8. /\ pack' \in Seq(Pixel) /\ Len(pack') <= 1 /\ Chained(pack')
      /\ ce => pack' # <<>> /\ pack'[1] = <<0, 0>> /\ Len(pack') = 1
  <2>1. <<>> \in Seq(Pixel) /\ Chained(<<>>) /\ here \in Pixel
    BY PlainTypes DEF Chained
  <2>2. CASE ce
    <3>1. /\ Append(<<>>, here) \in Seq(Pixel) /\ Append(<<>>, here) # <<>>
          /\ Len(Append(<<>>, here)) = 1 /\ Append(<<>>, here)[1] = here
          /\ Chained(Append(<<>>, here))
      BY <1>1, <2>1, AppendProperties DEF Chained
    <3>2. QED
      BY <1>3, <1>6, <2>2, <3>1
  <2>3. CASE ~ce
    BY <1>1, <1>6, <2>1, <2>3
  <2>4. QED
    BY <2>2, <2>3
<1>9. BeatOK(push') /\ push'[1] # "pixels"
  BY <1>5, Beats
<1>10. Types'
  BY <1>8, <1>9, PlainTypes, SinkAssumption DEF Types
<1>11. FrameInv'
  BY <1>4, <1>5, <1>8, <1>9 DEF FrameInv
<1>12. PathInv'
  <2> SUFFICES ASSUME ~dropping' PROVE PathInv'
    BY DEF PathInv
  <2>1. push' = Header(w_meas, h_meas, frame_no)
    BY <1>4, <1>5
  <2>2. tip' # NoBeat /\ tip'[1] = "header" /\ Stream!FrameOf(tip') = own'
    BY <1>7, <2>1, Beats DEF tip
  <2>3. ce => Stream!Continues(tip', Pixels(pack)')
    BY <1>8, <2>2, Beats DEF Stream!Continues, Stream!IsHeader, Pixels
  <2>4. ce => JustShown(pack[Len(pack)])'
    BY <1>4, <1>8 DEF JustShown
  <2>5. Stream!FrameOf(tip)' = own'
    BY <2>2
  <2>6. QED
    BY <1>4, <1>6, <1>8, <2>2, <2>3, <2>4, <2>5 DEF PathInv, Chained
<1>13. PushInv'
  BY <1>5, Beats DEF PushInv, Stream!MayFollow, Stream!IsHeader
<1>14. QED
  BY <1>10, <1>11, <1>12, <1>13 DEF SinkInv

\* A frame ends: what is left of it is requested, unless it was dropped.
LEMMA EndKeepsSinkInv ==
    ASSUME SinkInv, NEW vs \in BOOLEAN, NEW de \in BOOLEAN, NEW ce \in BOOLEAN,
           VidEdge(vs, de, ce), frame_end(vs)
    PROVE  SinkInv'
<1>1. push = NoBeat /\ ~de /\ ~de_prev /\ in_frame
  BY NoneWaits DEF VidEdge, frame_end, Timing
<1>2. ~starting(de) /\ ~overflow /\ ~line_end(de) /\ ~active(de, ce) /\ ~pixel(de, ce)
      /\ ~announced(de)
  BY <1>1 DEF starting, overflow, line_end, active, pixel, announced
<1>3. /\ ~in_frame' /\ ~dropping' /\ x' = 0 /\ y' = 0 /\ pack' = <<>> /\ last' = last
  BY <1>1, <1>2 DEF VidEdge, Sync, Drop, Measure, Pack, Write
<1>4. push' = IF pack # <<>> /\ ~dropping THEN Pixels(pack) ELSE NoBeat
  BY <1>2 DEF VidEdge, Pack
<1>5. BeatOK(push') /\ push'[1] # "header"
  BY <1>4, Beats DEF Pixels, SinkInv, Types
<1>6. Types'
  <2>1. <<>> \in Seq(Pixel) /\ Len(<<>>) < Lanes
    BY SinkAssumption
  <2>2. QED
    BY <1>3, <1>5, <2>1, PlainTypes DEF Types
<1>7. FrameInv'
  BY <1>3, <1>5 DEF FrameInv
<1>8. PathInv'
  BY <1>3 DEF PathInv
<1>9. PushInv'
  <2> SUFFICES ASSUME pack # <<>>, ~dropping PROVE Stream!MayFollow(last', push')
    BY <1>4 DEF PushInv
  <2>1. /\ tip = last /\ last # NoBeat /\ Stream!FrameOf(last) = own /\ Chained(pack)
        /\ Stream!Continues(last, Pixels(pack))
    BY <1>1 DEF SinkInv, PathInv, tip
  <2>2. pack \in Seq(Pixel) /\ Len(pack) \in 1..Lanes
    BY SinkAssumption DEF SinkInv, Types
  <2>3. QED
    BY <1>3, <1>4, <2>1, <2>2, Fits DEF Pixels
<1>10. QED
  BY <1>6, <1>7, <1>8, <1>9 DEF SinkInv

\* Any other clock: the pending beat may grow by a pixel, a beat that waited is
\* written, or is lost with the rest of its frame.
LEMMA RestKeepsSinkInv ==
    ASSUME SinkInv, NEW vs \in BOOLEAN, NEW de \in BOOLEAN, NEW ce \in BOOLEAN,
           VidEdge(vs, de, ce), ~starting(de), ~frame_end(vs),
           ~(pixel(de, ce) /\ Len(pack) = Lanes - 1)
    PROVE  SinkInv'
<1>1. ~announced(de)
  BY DEF announced
<1>2. /\ in_frame' = in_frame /\ frame_no' = frame_no
      /\ vs_seen' => ~in_frame
      /\ dropping' = (overflow \/ dropping)
  <2>1. in_frame' = in_frame /\ frame_no' = frame_no
    BY DEF VidEdge, Sync, Count, SinkInv, Types
  <2>2. vs_seen' => ~in_frame
    BY DEF VidEdge, Sync, SinkInv, Types, FrameInv, frame_end
  <2>3. dropping' = (overflow \/ dropping)
    BY DEF VidEdge, Drop, SinkInv, Types
  <2>4. QED
    BY <2>1, <2>2, <2>3
<1>3. push' = NoBeat /\ pack' = IF pixel(de, ce) THEN Append(pack, here) ELSE pack
  BY <1>1 DEF VidEdge, Pack
<1>4. own' = own
  BY <1>2 DEF own
<1>5. ~in_frame => x' = 0 /\ y' = 0 /\ pack' = <<>> /\ ~dropping'
  BY <1>2, <1>3 DEF VidEdge, Measure, active, pixel, overflow, SinkInv, FrameInv
<1>6. pack' \in Seq(Pixel) /\ Len(pack') < Lanes
  <2>1. CASE pixel(de, ce)
    <3>1. here \in Pixel /\ pack \in Seq(Pixel) /\ Len(pack) < Lanes - 1
      BY <2>1, PlainTypes, SinkAssumption DEF SinkInv, Types
    <3>2. QED
      BY <1>3, <2>1, <3>1, AppendProperties, SinkAssumption
  <2>2. CASE ~pixel(de, ce)
    BY <1>3, <2>2 DEF SinkInv, Types
  <2>3. QED
    BY <2>1, <2>2
<1>7. Types'
  BY <1>3, <1>6, PlainTypes, Beats DEF Types
<1>8. FrameInv'
  BY <1>2, <1>3, <1>5, Beats DEF FrameInv
<1>9. PathInv'
  <2> SUFFICES ASSUME in_frame, ~overflow, ~dropping PROVE PathInv'
    BY <1>2 DEF PathInv
  <2>1. last' = tip /\ tip' = tip
    BY <1>3 DEF VidEdge, Write, overflow, tip
  <2>2. /\ tip # NoBeat /\ Stream!FrameOf(tip) = own
        /\ tip[1] = "pixels" => Len(tip[3]) = Lanes
        /\ Chained(pack)
        /\ pack # <<>> => Stream!Continues(tip, Pixels(pack)) /\ JustShown(pack[Len(pack)])
        /\ pack = <<>> => IF tip[1] = "pixels" THEN JustShown(Stream!FinalPixel(tip))
                          ELSE x = 0 /\ y = 0
    BY DEF SinkInv, PathInv
  <2>3. BeatOK(tip)
    BY DEF SinkInv, Types, tip
  <2>4. pixel(de, ce) <=> active(de, ce)
    BY DEF pixel
  <2>5. CASE pixel(de, ce)
    <3> DEFINE more == Append(pack, here)
    <3>1. x' = x + 1 /\ y' = y /\ here = <<y, x>> /\ x' # 0
      <4>1. active(de, ce) /\ ~line_end(de)
        BY <2>5 DEF pixel, active, line_end
      <4>2. x' = x + 1 /\ y' = y
        BY <4>1 DEF VidEdge, Measure
      <4>3. QED
        BY <4>2 DEF here, SinkInv, Types
    <3>2. pack # <<>> => Stream!Follows(pack[Len(pack)], here)
      <4>1. pack # <<>> => pack[Len(pack)] \in Pixel
        BY DEF SinkInv, Types
      <4>2. QED
        BY <2>2, <3>1, <4>1 DEF JustShown, Stream!Follows, Pixel, SinkInv, Types
    <3>3. here \in Pixel /\ pack \in Seq(Pixel)
      BY PlainTypes DEF SinkInv, Types
    <3>4. /\ more # <<>> /\ Len(more) = Len(pack) + 1 /\ more[Len(more)] = here
          /\ more[1] = (IF pack = <<>> THEN here ELSE pack[1]) /\ Chained(more)
      BY <2>2, <3>2, <3>3, Chain
    <3>5. Stream!Continues(tip, Stream!Pixels(own, more))
      <4>1. CASE pack # <<>>
        BY <2>2, <3>4, <4>1, SameStart DEF Pixels
      <4>2. CASE pack = <<>> /\ tip[1] = "pixels"
        <5>1. Stream!FinalPixel(tip) \in Pixel
          BY <2>3, <4>2, Beats DEF BeatOK, Stream!FinalPixel
        <5>2. Stream!Follows(Stream!FinalPixel(tip), here)
          BY <2>2, <3>1, <4>2, <5>1 DEF JustShown, Stream!Follows, Pixel, SinkInv, Types
        <5>3. QED
          BY <2>2, <3>4, <4>2, <5>2, Beats DEF Stream!Continues, Stream!IsPixels
      <4>3. CASE pack = <<>> /\ tip[1] # "pixels"
        <5>1. tip[1] = "header" /\ here = <<0, 0>>
          BY <2>2, <2>3, <3>1, <4>3 DEF BeatOK
        <5>2. QED
          BY <3>4, <4>3, <5>1, Beats DEF Stream!Continues, Stream!IsHeader
      <4>4. QED
        BY <4>1, <4>2, <4>3
    <3>6. pack' = more
      BY <1>3, <2>5
    <3>7. JustShown(pack[Len(pack)])'
      BY <3>1, <3>4, <3>6 DEF JustShown, SinkInv, Types
    <3>8. Stream!Continues(tip, Pixels(pack))'
      BY <1>4, <2>1, <3>5, <3>6 DEF Pixels, Stream!Continues, Stream!Pixels, Stream!IsHeader, Stream!IsPixels, Stream!FinalPixel, Stream!Follows
    <3>9. Stream!FrameOf(tip)' = own'
      BY <1>4, <2>1, <2>2 DEF Stream!FrameOf, Stream!IsHeader
    <3>10. QED
      BY <2>1, <2>2, <3>4, <3>6, <3>7, <3>8, <3>9 DEF PathInv, Chained, Stream!Follows
  <2>6. CASE ~pixel(de, ce)
    <3>1. pack' = pack
      BY <1>3, <2>6
    <3>2. /\ tip' # NoBeat /\ Stream!FrameOf(tip)' = own'
          /\ tip'[1] = "pixels" => Len(tip'[3]) = Lanes
          /\ tip'[1] = tip[1]
          /\ Chained(pack)'
          /\ pack' # <<>> => Stream!Continues(tip, Pixels(pack))'
      BY <1>4, <2>1, <2>2, <3>1
         DEF Stream!FrameOf, Stream!IsHeader, Chained, Stream!Follows, Pixels, Stream!Pixels,
             Stream!Continues, Stream!IsPixels, Stream!FinalPixel
    <3>3. CASE line_end(de)
      <4>1. x' = 0 /\ y' = y + 1 /\ x # 0
        BY <3>3 DEF VidEdge, Measure, Timing
      <4>2. \A p : JustShown(p) => y' = p[1] + 1
        BY <4>1 DEF JustShown
      <4>3. pack # <<>> => JustShown(pack[Len(pack)])'
        BY <2>2, <3>1, <4>1, <4>2 DEF JustShown
      <4>4. pack = <<>> => tip[1] = "pixels" /\ JustShown(Stream!FinalPixel(tip))'
        BY <2>1, <2>2, <4>1, <4>2 DEF JustShown, Stream!FinalPixel
      <4>5. QED
        BY <3>1, <3>2, <4>3, <4>4 DEF PathInv
    <3>4. CASE ~line_end(de)
      <4>1. x' = x /\ y' = y
        BY <2>4, <2>6, <3>4 DEF VidEdge, Measure
      <4>2. pack # <<>> => JustShown(pack[Len(pack)])'
        BY <2>2, <3>1, <4>1 DEF JustShown
      <4>3. pack = <<>> => IF tip[1] = "pixels" THEN JustShown(Stream!FinalPixel(tip))'
                           ELSE x' = 0 /\ y' = 0
        BY <2>1, <2>2, <4>1 DEF JustShown, Stream!FinalPixel
      <4>4. QED
        BY <2>1, <3>1, <3>2, <4>2, <4>3 DEF PathInv
    <3>5. QED
      BY <3>3, <3>4
  <2>7. QED
    BY <2>5, <2>6
<1>10. PushInv'
  BY <1>3 DEF PushInv
<1>11. QED
  BY <1>7, <1>8, <1>9, <1>10 DEF SinkInv

LEMMA NextKeepsSinkInv == SinkInv /\ [Next]_vars => SinkInv'
<1> SUFFICES ASSUME SinkInv, [Next]_vars PROVE SinkInv'
  OBVIOUS
<1>1. ASSUME NEW vs \in BOOLEAN, NEW de \in BOOLEAN, NEW ce \in CePix, VidEdge(vs, de, ce)
      PROVE  SinkInv'
  <2>1. ce \in BOOLEAN
    BY SinkAssumption
  <2>2. QED
    BY <1>1, <2>1, FillKeepsSinkInv, StartKeepsSinkInv, EndKeepsSinkInv, RestKeepsSinkInv
<1>2. QED
  BY <1>1, HostKeepsSinkInv DEF Next, AnyVidEdge

\* The types, the state of a frame and the tip of the stream, kept by every step.
LEMMA InductiveSinkInv == Spec => []SinkInv
  BY InitSinkInv, NextKeepsSinkInv, PTL DEF Spec

\* Whatever the core shows, however slow the host is and whenever the sink is
\* enabled: what reaches the FIFO is a FRM1 stream.
THEOREM SinkImplementsStream == Spec => StreamSpec
<1>1. Init => Stream!Init
  BY DEF Init, Stream!Init, NoBeat
<1>2. SinkInv /\ [Next]_vars => [Stream!Next]_last
  <2> SUFFICES ASSUME SinkInv, [Next]_vars, last' # last PROVE Stream!Next
    OBVIOUS
  <2>1. PICK vs \in BOOLEAN, de \in BOOLEAN, ce \in CePix : VidEdge(vs, de, ce)
    BY DEF Next, AnyVidEdge, ReadBeat, SetEnable, vars
  <2>2. push # NoBeat /\ last' = push
    BY <2>1 DEF VidEdge, Write
  <2>3. QED
    BY <2>2 DEF SinkInv, PushInv, Stream!Next
<1>3. QED
  BY InductiveSinkInv, <1>1, <1>2, PTL DEF Spec, StreamSpec, Stream!Spec

-----------------------------------------------------------------------------
(* The counters *)

\* The first frame is measured while it is dropped; every later one is counted.
CountInv ==
    /\ frames_v \in 0..CountMod - 1 /\ drops_v \in 0..CountMod - 1
    /\ measured \in BOOLEAN
    /\ in_frame /\ y = 0 => de_prev
    /\ ~measured => /\ frames_v = 0 /\ drops_v = 0
                    /\ in_frame => frame_no = 1 /\ dropping
                    /\ ~in_frame => frame_no = 0
    /\ CountedOnce

LEMMA InitCountInv == Init => CountInv
<1>1. 0 \in 0..CountMod - 1
  BY SinkAssumption
<1>2. QED
  BY <1>1 DEF Init, CountInv, CountedOnce

\* A frame that overflows is neither starting nor ending.
LEMMA OverflowFacts ==
    ASSUME SinkInv, NEW vs \in BOOLEAN, NEW de \in BOOLEAN, Timing(vs, de), overflow
    PROVE  ~starting(de) /\ ~frame_end(vs) /\ in_frame /\ ~dropping
  BY StartFacts DEF overflow, frame_end, Timing, SinkInv, Types, BeatOK, FrameInv

LEMMA VidEdgeKeepsCountInv ==
    ASSUME SinkInv, CountInv, NEW vs \in BOOLEAN, NEW de \in BOOLEAN, NEW ce \in BOOLEAN,
           VidEdge(vs, de, ce)
    PROVE  CountInv'
<1>1. frames_v' \in 0..CountMod - 1 /\ drops_v' \in 0..CountMod - 1
  BY SinkAssumption DEF VidEdge, Count, Inc, CountInv
<1>2. measured' \in BOOLEAN
  BY DEF VidEdge, Measure, CountInv, SinkInv, Types
<1>3. CASE starting(de)
  <2>1. ~in_frame /\ y = 0 /\ ~dropping /\ de /\ ~overflow /\ ~frame_end(vs)
    BY <1>3, StartFacts DEF overflow, frame_end
  <2>2. /\ in_frame' /\ de_prev' /\ dropping' = ~announced(de) /\ measured' = measured
        /\ frame_no' = Inc(frame_no) /\ frames_v' = frames_v
        /\ drops_v' = IF measured /\ ~writable THEN Inc(drops_v) ELSE drops_v
    BY <1>3, <2>1 DEF VidEdge, Sync, Drop, Measure, Count, CountInv
  <2>3. announced(de) <=> measured /\ writable
    BY <1>3 DEF announced
  <2>4. ~measured' => frames_v' = 0 /\ drops_v' = 0 /\ frame_no' = 1 /\ dropping'
    <3> SUFFICES ASSUME ~measured PROVE frames_v' = 0 /\ drops_v' = 0 /\ frame_no' = 1 /\ dropping'
      BY <2>2
    <3>1. frames_v = 0 /\ drops_v = 0 /\ frame_no = 0
      BY <2>1 DEF CountInv
    <3>2. 0 + 1 # CountMod
      BY SinkAssumption
    <3>3. frame_no' = 1
      BY <2>2, <3>1, <3>2 DEF Inc
    <3>4. dropping'
      BY <2>2, <2>3
    <3>5. QED
      BY <2>2, <3>1, <3>3, <3>4
  <2>5. CountedOnce'
    <3> SUFFICES ASSUME measured PROVE CountedOnce'
      BY <2>2 DEF CountedOnce
    <3>1. /\ 1 + frames_v + drops_v \in {frame_no, frame_no + CountMod, frame_no + 2 * CountMod}
          /\ frames_v \in 0..CountMod - 1 /\ drops_v \in 0..CountMod - 1
          /\ frame_no \in 0..CountMod - 1 /\ CountMod \in Nat
      BY <2>1, SinkAssumption DEF CountInv, CountedOnce, SinkInv, Types
    <3>2. CASE writable
      <4>1. ~dropping' /\ drops_v' = drops_v
        BY <2>2, <2>3, <3>2
      <4>2. QED
        BY <2>2, <3>1, <4>1 DEF CountedOnce, Inc
    <3>3. CASE ~writable
      <4>1. dropping' /\ drops_v' = Inc(drops_v)
        BY <2>2, <2>3, <3>3
      <4>2. QED
        BY <2>2, <3>1, <4>1 DEF CountedOnce, Inc
    <3>4. QED
      BY <3>2, <3>3
  <2>6. QED
    BY <1>1, <1>2, <2>2, <2>4, <2>5 DEF CountInv
<1>4. CASE frame_end(vs)
  <2>1. in_frame /\ ~de /\ ~de_prev /\ ~starting(de) /\ ~overflow /\ y # 0
    BY <1>4, OverflowFacts DEF VidEdge, Timing, frame_end, starting, CountInv
  <2>2. /\ ~in_frame' /\ ~dropping' /\ measured' /\ frame_no' = frame_no
        /\ frames_v' = (IF dropping THEN frames_v ELSE Inc(frames_v)) /\ drops_v' = drops_v
    BY <1>4, <2>1 DEF VidEdge, Sync, Drop, Measure, Count
  <2>3. CountedOnce'
    <3>1. CASE measured
      BY <2>1, <2>2, <3>1, SinkAssumption DEF CountInv, CountedOnce, Inc, SinkInv, Types
    <3>2. CASE ~measured
      BY <2>1, <2>2, <3>2, SinkAssumption DEF CountInv, CountedOnce
    <3>3. QED
      BY <3>1, <3>2
  <2>4. QED
    BY <1>1, <1>2, <2>2, <2>3 DEF CountInv
<1>5. CASE ~starting(de) /\ ~frame_end(vs)
  <2>1. /\ in_frame' = in_frame /\ measured' = measured /\ frame_no' = frame_no
        /\ frames_v' = frames_v /\ drops_v' = (IF overflow THEN Inc(drops_v) ELSE drops_v)
        /\ dropping' = (overflow \/ dropping)
    BY <1>5 DEF VidEdge, Sync, Drop, Measure, Count, SinkInv, Types, CountInv
  <2>2. in_frame' /\ y' = 0 => de_prev'
    BY <1>5, <2>1 DEF VidEdge, Sync, Measure, line_end, CountInv, SinkInv, Types
  <2>3. overflow => in_frame /\ ~dropping /\ measured
    BY OverflowFacts DEF VidEdge, CountInv, SinkInv, Types
  <2>4. CountedOnce'
    BY <2>1, <2>3, SinkAssumption DEF CountInv, CountedOnce, Inc, SinkInv, Types
  <2>5. QED
    BY <1>1, <1>2, <2>1, <2>2, <2>3, <2>4 DEF CountInv
<1>6. QED
  BY <1>3, <1>4, <1>5

LEMMA HostKeepsCountInv ==
    CountInv /\ (ReadBeat \/ (\E e \in Enables : SetEnable(e)) \/ UNCHANGED vars) => CountInv'
  BY DEF CountInv, CountedOnce, ReadBeat, SetEnable, vars, counters

\* The counters, and what is so before the first frame was measured.
LEMMA InductiveCountInv == Spec => []CountInv
<1>1. SinkInv /\ CountInv /\ [Next]_vars => CountInv'
  <2> SUFFICES ASSUME SinkInv, CountInv, [Next]_vars PROVE CountInv'
    OBVIOUS
  <2>1. ASSUME NEW vs \in BOOLEAN, NEW de \in BOOLEAN, NEW ce \in CePix, VidEdge(vs, de, ce)
        PROVE  CountInv'
    <3>1. ce \in BOOLEAN
      BY SinkAssumption
    <3>2. QED
      BY <2>1, <3>1, VidEdgeKeepsCountInv
  <2>2. QED
    BY <2>1, HostKeepsCountInv DEF Next, AnyVidEdge
<1>2. QED
  BY InitCountInv, InductiveSinkInv, <1>1, PTL DEF Spec

\* Every frame after the first is counted exactly once, as streamed or dropped.
THEOREM FramesCountedOnce == Spec => []CountedOnce
<1>1. CountInv => CountedOnce
  BY DEF CountInv
<1>2. QED
  BY InductiveCountInv, <1>1, PTL

-----------------------------------------------------------------------------
(* The last pixel *)

\* While a frame is streamed the pixel shown last is the last of the pending
\* beat, or else of the tip, unless the tip is still the header.
ShownInv ==
    in_frame /\ ~dropping =>
        /\ pack # <<>> => lastpix = pack[Len(pack)]
        /\ pack = <<>> /\ tip[1] = "pixels" => lastpix = Stream!FinalPixel(tip)

LEMMA VidEdgeKeepsShownInv ==
    ASSUME SinkInv, ShownInv, NEW vs \in BOOLEAN, NEW de \in BOOLEAN, NEW ce \in BOOLEAN,
           VidEdge(vs, de, ce)
    PROVE  ShownInv'
<1> DEFINE more == Append(pack, here)
<1>1. lastpix' = IF active(de, ce) THEN here ELSE lastpix
  BY DEF VidEdge
<1>2. /\ more \in Seq(Pixel) /\ more # <<>> /\ Len(more) = Len(pack) + 1
      /\ more[Len(more)] = here /\ Len(pack) \in Nat
  <2>1. pack \in Seq(Pixel) /\ here \in Pixel
    BY PlainTypes DEF SinkInv, Types
  <2>2. QED
    BY <2>1, AppendProperties
<1>3. CASE pixel(de, ce) /\ Len(pack) = Lanes - 1
  <2>1. pack' = <<>> /\ push' = Pixels(more) /\ lastpix' = here
    BY <1>1, <1>3 DEF VidEdge, Pack, pixel
  <2>2. tip' = Pixels(more) /\ tip'[3] = more
    BY <2>1, Beats DEF tip, Pixels
  <2>3. Stream!FinalPixel(tip)' = here
    BY <1>2, <2>2 DEF Stream!FinalPixel
  <2>4. QED
    BY <2>1, <2>3 DEF ShownInv
<1>4. CASE starting(de)
  <2>1. ~in_frame /\ pack = <<>> /\ ~dropping /\ de /\ Len(<<>>) = 0
    BY <1>4, StartFacts
  <2>2. (active(de, ce) <=> ce) /\ (pixel(de, ce) <=> ce) /\ ~overflow /\ ~frame_end(vs)
    BY <1>4, <2>1 DEF active, pixel, overflow, frame_end
  <2>3. Len(pack) # Lanes - 1
    BY <2>1, SinkAssumption
  <2>4. pack' = (IF ce THEN more ELSE <<>>)
    BY <1>4, <2>1, <2>2, <2>3 DEF VidEdge, Pack
  <2>5. ~dropping' => push' = Header(w_meas, h_meas, frame_no)
    BY <1>4, <2>2, <2>3 DEF VidEdge, Pack, Drop
  <2>6. ~dropping' => tip'[1] = "header"
    BY <2>5, Beats DEF tip
  <2>7. QED
    BY <1>1, <1>2, <2>2, <2>4, <2>6 DEF ShownInv
<1>5. CASE frame_end(vs)
  <2>1. ~starting(de)
    BY <1>5, NoneWaits DEF VidEdge, starting, SinkInv, Types
  <2>2. ~in_frame'
    BY <1>5, <2>1 DEF VidEdge, Sync, SinkInv, Types
  <2>3. QED
    BY <2>2 DEF ShownInv
<1>6. CASE ~starting(de) /\ ~frame_end(vs) /\ ~(pixel(de, ce) /\ Len(pack) = Lanes - 1)
  <2> SUFFICES ASSUME in_frame', ~dropping' PROVE ShownInv'
    BY DEF ShownInv
  <2>1. in_frame /\ ~dropping /\ ~overflow
    BY <1>6 DEF VidEdge, Sync, Drop, SinkInv, Types
  <2>2. push' = NoBeat /\ pack' = IF pixel(de, ce) THEN more ELSE pack
    BY <1>6 DEF VidEdge, Pack, announced
  <2>3. last' = tip /\ tip' = tip
    BY <2>1, <2>2 DEF VidEdge, Write, overflow, tip
  <2>4. pixel(de, ce) <=> active(de, ce)
    BY <2>1 DEF pixel
  <2>5. CASE pixel(de, ce)
    BY <1>1, <1>2, <2>2, <2>4, <2>5 DEF ShownInv
  <2>6. CASE ~pixel(de, ce)
    <3>1. lastpix' = lastpix /\ pack' = pack
      BY <1>1, <2>2, <2>4, <2>6
    <3>2. Stream!FinalPixel(tip)' = Stream!FinalPixel(tip)
      BY <2>3 DEF Stream!FinalPixel
    <3>3. QED
      BY <2>1, <2>3, <3>1, <3>2 DEF ShownInv
  <2>7. QED
    BY <2>5, <2>6
<1>7. QED
  BY <1>3, <1>4, <1>5, <1>6

\* No frame ends before a line of it was shown, so a frame that is counted as
\* streamed has handed over a pixel, and the last one.
LEMMA CountedIsComplete ==
    ASSUME SinkInv, CountInv, ShownInv, NEW vs \in BOOLEAN, NEW de \in BOOLEAN,
           NEW ce \in BOOLEAN, VidEdge(vs, de, ce), frames_v' # frames_v
    PROVE  lastpix = IF pack # <<>> THEN pack[Len(pack)]
                     ELSE IF push # NoBeat THEN Stream!FinalPixel(push)
                     ELSE Stream!FinalPixel(last)
<1>1. frame_end(vs) /\ ~dropping
  BY DEF VidEdge, Count
<1>2. push = NoBeat /\ in_frame /\ ~de_prev
  BY <1>1, NoneWaits DEF VidEdge, frame_end, Timing
<1>3. y # 0
  BY <1>2 DEF CountInv
<1>4. tip = last
  BY <1>2 DEF tip
<1>5. pack = <<>> => tip[1] = "pixels"
  BY <1>1, <1>2, <1>3 DEF SinkInv, PathInv
<1>6. QED
  BY <1>1, <1>2, <1>4, <1>5 DEF ShownInv

\* A frame counted as streamed has handed over its last pixel: none is left
\* behind in the measuring of lines, and none was lost without a drop.
THEOREM CountedFramesAreComplete == Spec => CompleteWhenCounted
<1> DEFINE Handed == lastpix = IF pack # <<>> THEN pack[Len(pack)]
                               ELSE IF push # NoBeat THEN Stream!FinalPixel(push)
                               ELSE Stream!FinalPixel(last)
<1>1. Init => ShownInv
  BY DEF Init, ShownInv
<1>2. SinkInv /\ ShownInv /\ [Next]_vars => ShownInv'
  <2> SUFFICES ASSUME SinkInv, ShownInv, [Next]_vars PROVE ShownInv'
    OBVIOUS
  <2>1. ASSUME NEW vs \in BOOLEAN, NEW de \in BOOLEAN, NEW ce \in CePix, VidEdge(vs, de, ce)
        PROVE  ShownInv'
    <3>1. ce \in BOOLEAN
      BY SinkAssumption
    <3>2. QED
      BY <2>1, <3>1, VidEdgeKeepsShownInv
  <2>2. ASSUME ReadBeat \/ (\E e \in Enables : SetEnable(e)) \/ UNCHANGED vars
        PROVE  ShownInv'
    <3>1. UNCHANGED <<in_frame, dropping, pack, push, last, lastpix>>
      BY <2>2 DEF ReadBeat, SetEnable, vars
    <3>2. QED
      BY <3>1 DEF ShownInv, tip, Stream!FinalPixel
  <2>3. QED
    BY <2>1, <2>2 DEF Next, AnyVidEdge
<1>3. SinkInv /\ CountInv /\ ShownInv /\ [Next]_vars => [frames_v' # frames_v => Handed]_vars
  <2> SUFFICES ASSUME SinkInv, CountInv, ShownInv, [Next]_vars, frames_v' # frames_v PROVE Handed
    OBVIOUS
  <2>1. PICK vs \in BOOLEAN, de \in BOOLEAN, ce \in CePix : VidEdge(vs, de, ce)
    BY DEF Next, AnyVidEdge, ReadBeat, SetEnable, vars, counters
  <2>2. ce \in BOOLEAN
    BY SinkAssumption
  <2>3. QED
    BY <2>1, <2>2, CountedIsComplete
<1>4. QED
  BY InductiveSinkInv, InductiveCountInv, <1>1, <1>2, <1>3, PTL DEF Spec, CompleteWhenCounted
=============================================================================
