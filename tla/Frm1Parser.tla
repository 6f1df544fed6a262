------------------------------ MODULE Frm1Parser ------------------------------
(***************************************************************************)
(* Frm1Parser of host/viewer/retroview/stream.py, fed in chunks of any     *)
(* size from whatever stream Frm1Stream allows the card to produce.        *)
(*                                                                         *)
(* Emit is the card adding a beat to what is on its way; Feed is feed() of *)
(* a chunk, after which frames() drives _next() until it yields nothing:   *)
(* each return or tail call of _next is an action, and no chunk arrives    *)
(* until one of them has returned None.                                    *)
(*                                                                         *)
(* A beat is Lanes words; its header is the magic word, a word with the    *)
(* size and number, and padding.  Frame numbers on the wire wrap at        *)
(* NumMod.  Pixel words hold no magic: their top byte is zero.             *)
(***************************************************************************)
EXTENDS Naturals, Sequences, FiniteSets, SequencesExt, FiniteSetsExt

CONSTANTS Lanes,               \* words in a beat (4)
          MaxWidth, MaxHeight, \* bound on the frames the core shows
          Sizes,               \* the <<width, height>> headers may claim
          MaxDim,              \* header_ok refuses more (2048)
          NumMod,              \* frame numbers wrap here (2^32)
          FirstNumber,         \* number of the card's first frame
          MaxFrames,           \* bound on the frames the card counts
          MaxSkip,             \* bound on frames missing in a row
          MaxJunk,             \* words left over from before the parser started
          MaxWire              \* bound on the words on their way

ASSUME ParserAssumption ==
    /\ {Lanes, MaxWidth, MaxHeight, MaxDim, NumMod} \subseteq Nat \ {0} /\ Lanes > 1
    /\ {FirstNumber, MaxFrames, MaxSkip, MaxJunk, MaxWire} \subseteq Nat
    /\ Sizes \subseteq Nat \X Nat

VARIABLES
    \* the card
    last,       \* the last beat it sent; frames are counted 1, 2, ...
    wire,       \* words sent and not yet fed
    \* the parser
    buf, synced,
    busy,       \* frames() is being driven
    frames, dropped, resyncs, discarded, bad_headers, last_number,
    \* history, for the properties only
    shown,      \* the last frame delivered
    got,        \* the frames delivered
    filled,     \* <<frame, size, pixels in place so far>> of the frame being sent
    complete    \* the frames of which every pixel was sent

stats == <<frames, dropped, resyncs, discarded, bad_headers, last_number>>
card == <<last, filled, complete>>
vars == <<card, wire, buf, synced, busy, stats, shown, got>>

Stream == INSTANCE Frm1Stream

Magic == <<"magic">>
Pad == <<"pad">>
Px(n, p) == <<"px", n, p>>
Info(w, h, n) == <<"info", w, h, n>>

\* Where the parser starts in the stream: at a header, inside a frame, or
\* behind a magic that belongs to no frame.
Leftovers == {[i \in 1..k |-> Px(0, <<0, 0>>)] : k \in 0..MaxJunk}
             \cup {Append([i \in 1..k |-> Px(0, <<0, 0>>)], Magic)
                       \o [i \in 1..Lanes - 1 |-> Info(0, MaxDim, 0)] : k \in 0..MaxJunk}

Init ==
    /\ last = Stream!NoBeat
    /\ wire \in Leftovers
    /\ buf = <<>> /\ synced = FALSE /\ busy = FALSE
    /\ frames = 0 /\ dropped = 0 /\ resyncs = 0 /\ discarded = 0 /\ bad_headers = 0
    /\ last_number = <<>>
    /\ shown = [frame |-> 0, width |-> 0, height |-> 0, pixels |-> <<>>]
    /\ got = {} /\ filled = <<0, <<0, 0>>, 0>> /\ complete = {}

-----------------------------------------------------------------------------
(* The card *)

Words(b) ==
    IF Stream!IsHeader(b)
    THEN <<Magic, Info(b[2], b[3], b[4])>> \o [i \in 1..Lanes - 2 |-> Pad]
    ELSE [i \in 1..Lanes |-> IF i <= Len(b[3]) THEN Px(b[2], b[3][i]) ELSE Pad]

Pixel == (0..MaxHeight - 1) \X (0..MaxWidth - 1)

\* What may be sent next, within the bounds of the model.
NextHeaders == {Stream!Header(s[1], s[2], n) : s \in Sizes,
                   n \in {k \in 1..MaxFrames :
                            /\ last # Stream!NoBeat => k > Stream!FrameOf(last)
                            /\ k <= filled[1] + MaxSkip + 1}}
NextPixels ==
    IF last = Stream!NoBeat THEN {}
    ELSE {b \in {Stream!Pixels(Stream!FrameOf(last), ps) : ps \in SeqOf(Pixel, Lanes) \ {<<>>}} :
             Stream!MayFollow(last, b)}

\* Where the k-th pixel of a frame that is w wide belongs.
Place(w, k) == <<(k - 1) \div w, (k - 1) % w>>

Tracked(b) ==
    IF Stream!IsHeader(b) THEN <<b[4], <<b[2], b[3]>>, 0>>
    ELSE LET w == filled[2][1]
             size == w * filled[2][2]
             k == filled[3] + Len(b[3])
         IN IF /\ w > 0 /\ k = (IF filled[3] + Lanes < size THEN filled[3] + Lanes ELSE size)
               /\ \A i \in DOMAIN b[3] : b[3][i] = Place(w, filled[3] + i)
            THEN [filled EXCEPT ![3] = k]
            ELSE <<filled[1], <<0, 0>>, 0>>

Emit(b) ==
    /\ Len(wire) + Lanes <= MaxWire
    /\ last' = b
    /\ wire' = wire \o Words(b)
    /\ filled' = Tracked(b)
    /\ complete' = IF filled'[3] > 0 /\ filled'[3] = filled'[2][1] * filled'[2][2]
                   THEN complete \cup {filled'[1]} ELSE complete
    /\ UNCHANGED <<buf, synced, busy, stats, shown, got>>

-----------------------------------------------------------------------------
(* The parser *)

Beats(w, h) == (w * h + Lanes - 1) \div Lanes
Need(w, h) == Lanes + Lanes * Beats(w, h)

header_ok(info) == /\ info[2] \in 1..MaxDim /\ info[3] \in 1..MaxDim
IsHeaderAt(i) == /\ buf[i] = Magic /\ buf[i + 1][1] = "info" /\ header_ok(buf[i + 1])

\* Magics from position start on of which the whole beat has arrived, up to the
\* first whose beat has not.
Magics(start) == {i \in start..Len(buf) : buf[i] = Magic /\ i + Lanes - 1 <= Len(buf)}

\* _find_header: the first plausible header, or 0, and the bad ones before it.
Found(start) == LET good == {i \in Magics(start) : IsHeaderAt(i)}
                IN IF good = {} THEN 0 ELSE Min(good)
BadBefore(start) == Cardinality({i \in Magics(start) :
                                   ~IsHeaderAt(i) /\ (Found(start) # 0 => i < Found(start))})

DropWords(n) == buf' = SubSeq(buf, n + 1, Len(buf))

\* feed(data), and frames() starts to be driven.
Feed(k) ==
    /\ ~busy
    /\ buf' = buf \o SubSeq(wire, 1, k)
    /\ wire' = SubSeq(wire, k + 1, Len(wire))
    /\ busy' = TRUE
    /\ UNCHANGED <<card, synced, stats, shown, got>>

\* Slip: nothing is kept of a chunk without a header.
kept_none == 0

\* What is kept of a chunk without a header: it may hold the start of one.
kept == IF Len(buf) < Lanes THEN Len(buf) ELSE Lanes - 1

\* Not in sync: look for a header.
Search ==
    /\ busy /\ ~synced
    /\ bad_headers' = bad_headers + BadBefore(1)
    /\ LET i == Found(1)
           n == IF i # 0 THEN i - 1 ELSE Len(buf) - kept
       IN /\ discarded' = discarded + n
          /\ DropWords(n)
          /\ synced' = (i # 0) /\ busy' = (i # 0)
    /\ UNCHANGED <<card, wire, frames, dropped, resyncs, last_number, shown, got>>

AtHeader == busy /\ synced /\ Len(buf) >= Lanes

\* A header that is there is plausible.
Plausible == AtHeader /\ IsHeaderAt(1)
Width == buf[2][2]
Height == buf[2][3]

\* Slip: a frame waits for the first byte behind it.
WholeLate == Plausible /\ Len(buf) > Need(Width, Height)

Whole == Plausible /\ Len(buf) >= Need(Width, Height)

\* Less than a header, or less than the frame it announces.
NeedMore ==
    /\ busy /\ synced
    /\ Len(buf) < Lanes \/ (Plausible /\ ~Whole)
    /\ busy' = FALSE
    /\ UNCHANGED <<card, wire, buf, synced, stats, shown, got>>

\* What should be a header is none.
BadHeader ==
    /\ AtHeader /\ ~IsHeaderAt(1)
    /\ synced' = FALSE
    /\ resyncs' = resyncs + 1
    /\ DropWords(1)
    /\ discarded' = discarded + 1
    /\ UNCHANGED <<card, wire, busy, frames, dropped, bad_headers, last_number, shown, got>>

\* Slip: the payload is not searched.
CutAtNever == 0

\* The position of the header that cuts the frame at the front short, or 0.
CutAt == LET j == Found(Lanes + 1) IN IF j \in 1..Need(Width, Height) THEN j ELSE 0

\* A header inside the payload: the card gave up on this frame.
CutShort ==
    /\ Whole /\ CutAt # 0
    /\ bad_headers' = bad_headers + BadBefore(Lanes + 1)
    /\ resyncs' = resyncs + 1
    /\ discarded' = discarded + CutAt - 1
    /\ DropWords(CutAt - 1)
    /\ UNCHANGED <<card, wire, synced, busy, frames, dropped, last_number, shown, got>>

OnWire(n) == (FirstNumber + n) % NumMod
number == OnWire(buf[2][4])

\* Slip: the gap is not taken modulo the width of the number.
Gap_unwrapped == IF last_number = <<>> \/ number < last_number[1] THEN 0
                 ELSE number - last_number[1] - 1

\* Frames the card did not send since the last one delivered.
Gap == IF last_number = <<>> THEN 0
       ELSE LET gap == (number + NumMod - last_number[1] - 1) % NumMod
            IN IF gap < NumMod \div 2 THEN gap ELSE 0

\* The frame at the front of the buffer.
Frame == [frame |-> buf[2][4], width |-> Width, height |-> Height,
          pixels |-> SubSeq(buf, Lanes + 1, Lanes + Width * Height)]

Deliver ==
    /\ Whole /\ CutAt = 0
    /\ bad_headers' = bad_headers + BadBefore(Lanes + 1)
    /\ dropped' = dropped + Gap
    /\ last_number' = <<number>>
    /\ frames' = frames + 1
    /\ shown' = Frame
    /\ got' = got \cup {Frame.frame}
    /\ DropWords(Need(Width, Height))
    /\ UNCHANGED <<card, wire, synced, busy, resyncs, discarded>>

Parse == Search \/ NeedMore \/ BadHeader \/ CutShort \/ Deliver

Next == \/ \E b \in NextHeaders \cup NextPixels : Emit(b)
        \/ \E k \in 1..Len(wire) : Feed(k)
        \/ Parse

Spec == Init /\ [][Next]_vars

-----------------------------------------------------------------------------
(* Properties *)

\* A delivered frame holds pixels of no other frame, from the first one on and
\* in the order in which they were shown, with padding only behind them, however
\* frames were cut, lost or announced with a wrong size.
NoMix ==
    \A i \in DOMAIN shown.pixels :
       LET p == shown.pixels[i]
       IN  p # Pad => /\ p[1] = "px" /\ p[2] = shown.frame
                      /\ IF i = 1 THEN p[3] = <<0, 0>>
                         ELSE LET before == shown.pixels[i - 1]
                              IN  before # Pad /\ Stream!Follows(before[3], p[3])

HoldsHeaderOf(n, words) == \E i \in DOMAIN words : words[i][1] = "info" /\ words[i][4] = n

\* A frame all of whose pixels were sent under a plausible header is never
\* thrown away: it is delivered, or still to be parsed.
NoneLost ==
    \A n \in complete : n \in got \/ HoldsHeaderOf(n, buf) \/ HoldsHeaderOf(n, wire)

\* When everything sent has been fed and parsed, a frame that just became
\* complete has been delivered, unless it waits behind a frame that announced
\* more pixels than it has.
Prompt ==
    LET n == Stream!FrameOf(last)
    IN ~busy /\ wire = <<>> /\ last # Stream!NoBeat /\ n \in complete \ got
       => /\ IsHeaderAt(1) /\ buf[2][4] < n
          /\ Need(Width, Height) > Len(buf)

\* The frames delivered and the frames counted as dropped are all the frames
\* from the first delivered to the last, also when the numbers wrap.
StatsAddUp ==
    got # {} => frames + dropped = Max(got) - Min(got) + 1

-----------------------------------------------------------------------------
(* What a comment in the code says of it, checked as it stands *)

\* video_sink.py:24 "the header carries the dimensions of the PREVIOUS frame
\* ..., so this is only wrong for one frame after a mode change, which the
\* viewer detects and drops": every pixel of a delivered frame is in its place.
InPlace ==
    \A k \in DOMAIN shown.pixels : shown.pixels[k] # Pad =>
        shown.pixels[k] = Px(shown.frame, Place(shown.width, k))
=============================================================================
