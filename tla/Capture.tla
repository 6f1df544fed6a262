-------------------------------- MODULE Capture --------------------------------
(***************************************************************************)
(* The capture sinks of the viewer (host/viewer/retroview/capture.py): the *)
(* screenshots with their contact sheet, and the MJPEG AVI.  A frame is    *)
(* its place in the session; a file is the sequence of its RIFF pieces,    *)
(* each with the size its header states, so that what read_avi_index makes *)
(* of it follows from byte positions as in the code.                       *)
(***************************************************************************)
EXTENDS Integers, SequencesExt

CONSTANTS ShotEvery, VideoEvery,   \* --shot-every, --video-every
          ContactMax,              \* ShotSink.max: tiles of the sheet (36)
          Lengths,                 \* sizes of encoded frames
          HdrlBytes,               \* size of the LIST hdrl (200)
          SizeLimit                \* what a 32-bit size field cannot hold (2^32)

ASSUME CaptureAssumption ==
    /\ {ShotEvery, VideoEvery, ContactMax, HdrlBytes} \subseteq Nat \ {0}
    /\ Lengths \subseteq Nat \ {0} /\ SizeLimit \in Nat

VARIABLES
    \* ShotSink
    count,           \* frames offered (both sinks count alike)
    saved, keep,     \* frames saved; frames kept for the sheet
    sheet,           \* the frames on the contact sheet, once it is written
    \* MjpegAvi
    file,            \* the pieces of the file, empty before the first frame
    index,           \* <<offset within movi, size>> of every frame
    finished         \* the file has been closed with its sizes filled in

shot == <<saved, keep, sheet>>
avi == <<file, index, finished>>
sinks == <<count, shot, avi>>

ShotInit == count = 0 /\ saved = <<>> /\ keep = <<>> /\ sheet = <<>>
AviInit == file = <<>> /\ index = <<>> /\ finished = FALSE

-----------------------------------------------------------------------------
(* ShotSink *)

\* s[::2]
EveryOther(s) == [i \in 1..(Len(s) + 1) \div 2 |-> s[2 * i - 1]]

\* Slip: thinned at an even number, which loses the newest frame.
ThinEven(s) == IF Len(s) >= 2 * ContactMax THEN EveryOther(s) ELSE s

Thin(s) == IF Len(s) > 2 * ContactMax THEN EveryOther(s) ELSE s

ShotAdd(f) ==
    IF count % ShotEvery # 0 THEN UNCHANGED shot
    ELSE /\ saved' = Append(saved, f)
         /\ keep' = Thin(Append(keep, f))
         /\ UNCHANGED sheet

\* The tiles of the sheet: at most ContactMax of the kept frames.
Tiles(s) == IF Len(s) > ContactMax
            THEN [i \in 1..ContactMax |-> s[((i - 1) * Len(s)) \div ContactMax + 1]]
            ELSE s

ShotClose == /\ sheet' = Tiles(keep)
             /\ UNCHANGED <<saved, keep>>

-----------------------------------------------------------------------------
(* MjpegAvi *)

Piece(tag, size) == [tag |-> tag, size |-> size, frames |-> 0]

\* Slip: the byte that pads an odd chunk is left out.
BytesUnpadded(p) == CASE p.tag = "RIFF" -> 12
                      [] p.tag = "hdrl" -> HdrlBytes
                      [] p.tag = "movi" -> 12
                      [] OTHER -> 8 + p.size

\* The bytes a piece takes in the file; those of LIST movi are its header only.
Bytes(p) == CASE p.tag = "RIFF" -> 12
              [] p.tag = "hdrl" -> HdrlBytes
              [] p.tag = "movi" -> 12
              [] OTHER -> 8 + p.size + (p.size % 2)

\* f.tell() when the first n pieces of f have been written
Tell(f, n) ==
    LET tell[i \in 0..n] == IF i = 0 THEN 0 ELSE tell[i - 1] + Bytes(f[i])
    IN  tell[n]
MoviStart(f) == Tell(f, 2)

\* _open: sizes and counts are placeholders
Opened == <<Piece("RIFF", 0), Piece("hdrl", HdrlBytes - 8), Piece("movi", 0)>>

\* Slip: the offset is counted from the start of the list.
AviAddFromList(f, len) ==
    LET was == IF file = <<>> THEN Opened ELSE file
    IN  IF count % VideoEvery # 0 THEN UNCHANGED avi
        ELSE /\ file' = Append(was, Piece("00dc", len))
             /\ index' = Append(index, <<Tell(was, Len(was)) - MoviStart(was), len>>)
             /\ UNCHANGED finished

AviAdd(f, len) ==
    LET was == IF file = <<>> THEN Opened ELSE file
    IN  IF count % VideoEvery # 0 THEN UNCHANGED avi
        ELSE /\ file' = Append(was, Piece("00dc", len))
             /\ index' = Append(index, <<Tell(was, Len(was)) - MoviStart(was) - 8, len>>)
             /\ UNCHANGED finished

\* The index goes to the end, then the sizes are filled in and the header is
\* written again.
Finished ==
    LET movi_end == Tell(file, Len(file))
        all == Append(file, Piece("idx1", 16 * Len(index)))
    IN  [all EXCEPT ![1].size = Tell(all, Len(all)) - 8,
                    ![2].frames = Len(index),
                    ![3].size = movi_end - MoviStart(file) - 8]

\* No size field of a file that is too long can be packed: struct.error.
Overflows == file # <<>> /\ Finished[1].size >= SizeLimit

AviClose == /\ ~Overflows
            /\ file' = IF file = <<>> THEN file ELSE Finished
            /\ finished' = TRUE
            /\ UNCHANGED index

-----------------------------------------------------------------------------
(* read_avi_index *)

\* The walk over the pieces of the file: after the header, and from the movi
\* list to the piece behind it.
MoviEnd(f) == MoviStart(f) + 8 + f[3].size
InMovi(f) == {i \in 4..Len(f) : Tell(f, i - 1) + 8 <= MoviEnd(f)}
WellFormed(f) == /\ f[1].size = Tell(f, Len(f)) - 8
                 /\ \E i \in 4..Len(f) : f[i].tag = "idx1" /\ Tell(f, i - 1) = MoviEnd(f) + (f[3].size % 2)
ReadBack(f) == [i \in 1..Cardinality(InMovi(f)) |-> f[3 + i].size]
=============================================================================
