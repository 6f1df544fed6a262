-------------------------------- MODULE Viewer --------------------------------
(***************************************************************************)
(* The viewer's main loop (host/viewer/retroview/viewer.py) over the       *)
(* transports it may be given (transport/base.py, file.py, and the card,   *)
(* which hands out what it likes), with the capture sinks.                 *)
(*                                                                         *)
(* A chunk is the sequence of the frames that the parser completes with    *)
(* it; a frame is its number; a recording is the frames it is made of, for *)
(* a replay cuts it anew.  The first session shows the card or the         *)
(* generator and may record; later ones may replay the recording.  Any     *)
(* call on the outside world may fail, MaxFaults times in all.             *)
(***************************************************************************)
EXTENDS Capture

CONSTANTS DrainMax,    \* reads in a pass (64)
          DropEvery,   \* --synth-drop
          Limits,      \* values of --frames
          MaxFrames,   \* bound: frames of a session
          MaxRecorded, \* ... of one that records
          MaxSessions, MaxFaults  \* bounds

ASSUME ViewerAssumption ==
    /\ {DrainMax, DropEvery} \subseteq Nat \ {0} /\ Limits \subseteq Nat
    /\ {MaxFrames, MaxRecorded, MaxSessions, MaxFaults} \subseteq Nat

VARIABLES
    \* the command line
    kind,           \* --transport
    limit, timed,   \* --frames; --timeout is given
    recording,      \* --record is given
    \* Viewer
    pc, running, reads, newest, queue, rendered, timed_out,
    parsed,         \* the frames the parser delivered
    \* the transport
    is_open, number, pending, pos, eof,
    \* the recording, on disk
    tape, tape_open,
    \* bounds
    sessions, faults,
    \* history, for the properties only
    ended_by,       \* "" or what took running away last
    raised,         \* an exception is on its way out
    cleanup_failed  \* ... and it was raised by the cleanup itself

options == <<kind, limit, timed, recording>>
loop == <<running, reads, newest, rendered, timed_out, ended_by>>
parser == <<parsed, queue>>
transport == <<is_open, number, pending, pos, eof>>
disk == <<tape, tape_open>>
errors == <<faults, raised, cleanup_failed>>
vars == <<options, pc, loop, parser, transport, disk, sessions, errors, sinks>>

\* What open_transport knows.
Transports == {"card", "synth", "file", "windows"}

\* There is nothing to replay yet.
Init ==
    /\ kind \in Transports \ {"file"} /\ limit \in Limits /\ timed \in BOOLEAN
    /\ recording \in BOOLEAN
    /\ pc = "open" /\ running = TRUE /\ reads = 0 /\ newest = 0 /\ rendered = 0
    /\ timed_out = FALSE /\ ended_by = ""
    /\ parsed = <<>> /\ queue = <<>>
    /\ is_open = FALSE /\ number = 1 /\ pending = FALSE /\ pos = 1 /\ eof = FALSE
    /\ tape_open = FALSE /\ raised = FALSE /\ cleanup_failed = FALSE
    /\ ShotInit /\ AviInit
    /\ tape = <<>> /\ sessions = 1 /\ faults = 0

\* Another process: it replays the recording, or makes another one.
NextSession ==
    /\ pc = "done" /\ sessions < MaxSessions
    /\ kind' \in {"synth", "file"} /\ limit' \in Limits /\ timed' \in BOOLEAN
    /\ recording' = (kind' = "synth")
    /\ pc' = "open" /\ running' = TRUE /\ reads' = 0 /\ newest' = 0 /\ rendered' = 0
    /\ timed_out' = FALSE /\ ended_by' = ""
    /\ parsed' = <<>> /\ queue' = <<>>
    /\ is_open' = FALSE /\ number' = 1 /\ pending' = FALSE /\ pos' = 1 /\ eof' = FALSE
    /\ tape_open' = FALSE /\ raised' = FALSE /\ cleanup_failed' = FALSE
    /\ count' = 0 /\ saved' = <<>> /\ keep' = <<>> /\ sheet' = <<>>
    /\ file' = <<>> /\ index' = <<>> /\ finished' = FALSE
    /\ sessions' = sessions + 1
    /\ UNCHANGED <<tape, faults>>

\* A call of the outside world raises an exception; what then.
Fail(next) == /\ faults < MaxFaults
              /\ faults' = faults + 1
              /\ raised' = TRUE
              /\ pc' = next

-----------------------------------------------------------------------------
(* Transports: what read() may return, and how it leaves the transport *)

\* b"": nothing right now
NoData == <<0>>

Budget == IF recording THEN MaxRecorded ELSE MaxFrames

\* The card: nothing, or a chunk that completes up to two frames.
CardRead(d) ==
    /\ kind = "card"
    /\ \/ d = NoData /\ UNCHANGED number
       \/ \E n \in 0..2 : /\ number + n <= Budget + 1
                          /\ d = [i \in 1..n |-> number + i - 1]
                          /\ number' = number + n
    /\ UNCHANGED <<is_open, pending, pos, eof>>

\* SynthTransport.read: the rest of a frame; a frame that is due, two chunks
\* long; a frame the card would have skipped; nothing while none is due.
SynthRead(d) ==
    /\ kind = "synth"
    /\ \/ /\ pending /\ d = <<number - 1>>
          /\ pending' = FALSE /\ UNCHANGED number
       \/ /\ ~pending /\ number <= Budget
          /\ number' = number + 1
          /\ pending' = (number % DropEvery # 0)
          /\ d = IF pending' THEN <<>> ELSE NoData
       \/ /\ ~pending /\ d = NoData /\ UNCHANGED <<number, pending>>
    /\ UNCHANGED <<is_open, pos, eof>>

\* FileTransport.read: the file is cut without regard to the chunks it was
\* recorded in, inside a frame or behind any number of them; the end is noticed
\* behind the last one.
FileRead(d) ==
    /\ kind = "file"
    /\ \/ ~pending /\ d = <<>> /\ pending' = TRUE /\ UNCHANGED <<pos, eof>>
       \/ \E q \in pos..Len(tape) : /\ d = SubSeq(tape, pos, q) /\ pos' = q + 1
                                  /\ pending' = FALSE /\ UNCHANGED eof
       \/ pos > Len(tape) /\ d = NoData /\ eof' = TRUE /\ UNCHANGED <<pos, pending>>
    /\ UNCHANGED <<is_open, number>>

\* What read() may be about to return.
Offered == {NoData, <<>>, <<number>>, <<number, number + 1>>, <<number - 1>>}
           \cup {SubSeq(tape, pos, q) : q \in pos..Len(tape)}

\* Recorder.read: what the inner transport returned is kept, if it is something.
Record(d) ==
    IF recording /\ d # NoData THEN tape' = tape \o d /\ UNCHANGED tape_open ELSE UNCHANGED disk

-----------------------------------------------------------------------------
(* Viewer.run *)

\* transport.open(); a Recorder opens its inner transport and then the file,
\* which starts empty.
Open ==
    /\ pc = "open" /\ kind # "windows" /\ pc' = "pass" /\ is_open' = TRUE
    /\ IF recording THEN tape_open' = TRUE /\ tape' = <<>> ELSE UNCHANGED disk
    /\ UNCHANGED <<options, loop, parser, number, pending, pos, eof, sessions, errors, sinks>>

\* WindowsTransport.open has no driver to open yet.
OpenRefused ==
    /\ pc = "open" /\ kind = "windows"
    /\ pc' = "shot" /\ raised' = TRUE
    /\ UNCHANGED <<options, loop, parser, transport, disk, sessions, faults,
                   cleanup_failed, sinks>>

OpenFails ==
    /\ pc = "open" /\ kind # "windows" /\ Fail("shot")
    /\ is_open' \in {FALSE, recording}    \* before or after the inner transport
    /\ UNCHANGED <<options, loop, parser, number, pending, pos, eof, disk, sessions,
                   cleanup_failed, sinks>>

\* Events first: the window may be closed.
Events ==
    /\ pc = "pass" /\ pc' = "drain"
    /\ newest' = 0 /\ reads' = 0
    /\ \/ UNCHANGED <<running, ended_by>>
       \/ running' = FALSE /\ ended_by' = "quit"
    /\ UNCHANGED <<options, rendered, timed_out, parser, transport, disk, sessions, errors, sinks>>

\* Slip: a pass reads until nothing is left.
ReadAll ==
    /\ pc = "drain" /\ queue = <<>>
    /\ reads' = (reads + 1) % DrainMax
    /\ \E d \in Offered :
         /\ CardRead(d) \/ SynthRead(d) \/ FileRead(d)
         /\ Record(d)
         /\ IF d = NoData THEN pc' = "draw" /\ UNCHANGED queue
                          ELSE queue' = d /\ UNCHANGED pc
    /\ UNCHANGED <<options, running, newest, rendered, timed_out, ended_by, parsed,
                   sessions, errors, sinks>>

\* Slip: the bound is looked at behind the read, and its chunk is not parsed.
ReadOneMore ==
    /\ pc = "drain" /\ queue = <<>> /\ reads < DrainMax
    /\ reads' = reads + 1
    /\ \E d \in Offered :
         /\ CardRead(d) \/ SynthRead(d) \/ FileRead(d)
         /\ Record(d)
         /\ IF d = NoData \/ reads' = DrainMax
            THEN pc' = "draw" /\ UNCHANGED queue ELSE queue' = d /\ UNCHANGED pc
    /\ UNCHANGED <<options, running, newest, rendered, timed_out, ended_by, parsed,
                   sessions, errors, sinks>>

\* One turn of the loop over the reads of a pass.
Read ==
    /\ pc = "drain" /\ queue = <<>> /\ reads < DrainMax
    /\ reads' = reads + 1
    /\ \E d \in Offered :
         /\ CardRead(d) \/ SynthRead(d) \/ FileRead(d)
         /\ Record(d)
         /\ IF d = NoData THEN pc' = "draw" /\ UNCHANGED queue
                          ELSE queue' = d /\ UNCHANGED pc
    /\ UNCHANGED <<options, running, newest, rendered, timed_out, ended_by, parsed,
                   sessions, errors, sinks>>

ReadsDone ==
    /\ pc = "drain" /\ queue = <<>> /\ reads = DrainMax
    /\ pc' = "draw"
    /\ UNCHANGED <<options, loop, parser, transport, disk, sessions, errors, sinks>>

\* transport.read() raises, or the recorder cannot write what it read.
ReadFails ==
    /\ pc = "drain" /\ queue = <<>> /\ reads < DrainMax
    /\ Fail("shot")
    /\ UNCHANGED <<options, loop, parser, transport, disk, sessions, cleanup_failed, sinks>>

\* The parser delivers a frame, and every sink gets it.
Deliver(f) ==
    /\ queue' = Tail(queue)
    /\ parsed' = Append(parsed, f)
    /\ newest' = f
    /\ count' = count + 1

Frame ==
    /\ pc = "drain" /\ queue # <<>>
    /\ Deliver(Head(queue))
    /\ ShotAdd(Head(queue))
    /\ \E len \in Lengths : AviAdd(Head(queue), len)
    /\ UNCHANGED <<options, pc, running, reads, rendered, timed_out, ended_by, transport, disk,
                   sessions, errors>>

\* An image cannot be saved or encoded: the first sink has the frame or not,
\* the second has not.
FrameFails ==
    /\ pc = "drain" /\ queue # <<>>
    /\ Deliver(Head(queue))
    /\ ShotAdd(Head(queue)) \/ UNCHANGED shot
    /\ UNCHANGED avi
    /\ Fail("shot")
    /\ UNCHANGED <<options, running, reads, rendered, timed_out, ended_by, transport, disk,
                   sessions, cleanup_failed>>

\* Slip: the time-out is only noted.
EndPassNoted ==
    /\ pc = "draw"
    /\ IF newest # 0
       THEN rendered' = rendered + 1 /\ UNCHANGED timed_out
       ELSE timed_out' \in {timed_out, timed} /\ UNCHANGED rendered
    /\ LET full == limit # 0 /\ rendered' >= limit
           over == newest = 0 /\ eof
       IN  /\ running' = (running /\ ~full /\ ~over)
           /\ ended_by' = CASE over -> "eof" [] full -> "limit" [] OTHER -> ended_by
    /\ pc' = IF running' THEN "pass" ELSE "shot"
    /\ UNCHANGED <<options, reads, newest, parser, transport, disk, sessions, errors, sinks>>

\* Only the newest frame of a pass is drawn; a pass without one may find that
\* the time-out has passed.  The end of a pass may end the loop.
EndPass ==
    /\ pc = "draw"
    /\ IF newest # 0
       THEN rendered' = rendered + 1 /\ UNCHANGED timed_out
       ELSE timed_out' \in {timed_out, timed} /\ UNCHANGED rendered
    /\ LET full == limit # 0 /\ rendered' >= limit
           over == newest = 0 /\ eof
       IN  /\ running' = (running /\ ~timed_out' /\ ~full /\ ~over)
           /\ ended_by' = CASE over -> "eof" [] full -> "limit" [] timed_out' -> "timeout"
                            [] OTHER -> ended_by
    /\ pc' = IF running' THEN "pass" ELSE "shot"
    /\ UNCHANGED <<options, reads, newest, parser, transport, disk, sessions, errors, sinks>>

\* The window cannot be opened anew, or the picture not be made or drawn.
DrawFails ==
    /\ pc \in {"pass", "draw"} /\ Fail("shot")
    /\ rendered' \in IF pc = "draw" /\ newest # 0 THEN {rendered, rendered + 1} ELSE {rendered}
    /\ UNCHANGED <<options, running, reads, newest, timed_out, ended_by, parser, transport, disk,
                   sessions, cleanup_failed, sinks>>

-----------------------------------------------------------------------------
(* The cleanup: screenshot, sinks, transport.  What raises ends it. *)

Screenshot == /\ pc = "shot" /\ pc' = "sheet"
              /\ UNCHANGED <<options, loop, parser, transport, disk, sessions, errors, sinks>>

CloseSheet == /\ pc = "sheet" /\ pc' = "avi"
              /\ ShotClose
              /\ UNCHANGED <<options, loop, parser, transport, disk, sessions, errors, count, avi>>

CloseAvi == /\ pc = "avi" /\ pc' = "transport"
            /\ AviClose
            /\ UNCHANGED <<options, loop, parser, transport, disk, sessions, errors, count, shot>>

\* Slip: a Recorder leaves its inner transport open.
CloseTransportInner ==
    /\ pc = "transport" /\ pc' = "done"
    /\ is_open' = (is_open /\ recording) /\ tape_open' = FALSE
    /\ UNCHANGED <<options, loop, parser, number, pending, pos, eof, tape, sessions, errors, sinks>>

CloseTransport ==
    /\ pc = "transport" /\ pc' = "done"
    /\ is_open' = FALSE /\ tape_open' = FALSE
    /\ UNCHANGED <<options, loop, parser, number, pending, pos, eof, tape, sessions, errors, sinks>>

\* The screenshot, the sheet or the AVI cannot be written, the last one also
\* because it is too long for its size fields.
CleanupFails ==
    /\ pc \in {"shot", "sheet", "avi"}
    /\ \/ Fail("done")
       \/ pc = "avi" /\ Overflows /\ pc' = "done" /\ raised' = TRUE /\ UNCHANGED faults
    /\ cleanup_failed' = TRUE
    /\ UNCHANGED <<options, loop, parser, transport, disk, sessions, sinks>>

\* The recording cannot be closed, and what it had not written yet is lost; or
\* the transport behind it cannot.
CloseFails ==
    /\ pc = "transport" /\ Fail("done")
    /\ cleanup_failed' = TRUE
    /\ \/ /\ tape_open
          /\ tape' \in {SubSeq(tape, 1, n) : n \in 0..Len(tape)}
          /\ UNCHANGED <<is_open, tape_open>>
       \/ is_open' \in {is_open, FALSE} /\ tape_open' = FALSE /\ UNCHANGED tape
    /\ UNCHANGED <<options, loop, parser, number, pending, pos, eof, sessions, sinks>>

Cleanup == Screenshot \/ CloseSheet \/ CloseAvi \/ CloseTransport \/ CleanupFails \/ CloseFails

-----------------------------------------------------------------------------

Run == Open \/ OpenRefused \/ OpenFails \/ Events \/ Read \/ ReadsDone \/ ReadFails \/ Frame \/ FrameFails
       \/ EndPass \/ DrawFails \/ Cleanup
Next == Run \/ NextSession

Spec == Init /\ [][Next]_vars

\* run() goes on; when nothing comes and a time-out is set, time passes.
FairSpec == /\ Spec
            /\ WF_vars(Run)
            /\ SF_vars(EndPass /\ timed_out')

-----------------------------------------------------------------------------
(* Properties *)

\* Every K-th element of s, the first one included.
EveryKth(s, k) == [i \in 1..(Len(s) + k - 1) \div k |-> s[(i - 1) * k + 1]]

\* What a recorded session showed is what its recording ends with, and a replay
\* that ran to its end has shown the sinks the whole recording, however it was
\* cut into chunks and passes: nothing is missing, repeated or out of order.
ReplayComplete ==
    /\ recording /\ pc = "done" /\ ~raised => IsSuffix(parsed, tape)
    /\ kind = "file" /\ pc = "done" /\ ended_by = "eof" /\ ~raised =>
           /\ parsed = tape
           /\ saved = EveryKth(parsed, ShotEvery)
           /\ Len(index) = Len(EveryKth(parsed, VideoEvery))

\* A finished AVI reads back: the walk of read_avi_index finds every frame with
\* its size, the index points at the chunks, and the header counts them.
AviReadsBack ==
    finished /\ file # <<>> =>
        /\ WellFormed(file)
        /\ ReadBack(file) = [i \in DOMAIN index |-> index[i][2]]
        /\ \A i \in DOMAIN index : MoviStart(file) + 8 + index[i][1] = Tell(file, 2 + i)
        /\ file[2].frames = Len(index)

\* The place among the saved frames of the i-th that was kept.
Place(i) == CHOOSE j \in DOMAIN saved : saved[j] = keep[i]

\* However often it was thinned, what is kept for the sheet is bounded, reaches
\* from the first saved frame to the newest, in order, and is never denser
\* early in the session than late; the sheet is taken from it, as many as it may
\* show, and starts with the first frame.
SheetCovers ==
    /\ Len(keep) <= 2 * ContactMax
    /\ saved # <<>> => keep # <<>> /\ Place(1) = 1 /\ Place(Len(keep)) = Len(saved)
    /\ \A i \in 1..Len(keep) - 1 : Place(i) < Place(i + 1)
    /\ \A i \in 1..Len(keep) - 2 : Place(i + 1) - Place(i) >= Place(i + 2) - Place(i + 1)
    /\ sheet # <<>> => /\ Len(sheet) = IF Len(keep) <= ContactMax THEN Len(keep) ELSE ContactMax
                       /\ sheet[1] = saved[1]
                       /\ \A i \in 1..Len(sheet) - 1 : sheet[i] < sheet[i + 1]
                       /\ ToSet(sheet) \subseteq ToSet(keep)

\* Whatever is raised and wherever, the transport is closed when run() is left,
\* unless the cleanup itself failed.
Released == pc = "done" => cleanup_failed \/ (~is_open /\ ~tape_open)

\* A replay ends by itself, a viewer that was told to quit does so although the
\* source never runs dry, and one with a time-out does when frames cease.
Ends == (kind = "file" \/ ~running) ~> (pc = "done")
TimesOut == timed ~> (newest # 0 \/ pc = "done")
=============================================================================
