------------------------------ MODULE WordPipe ------------------------------
(***************************************************************************)
(* What the HPS bridge promises its two sides, without clocks, toggles or  *)
(* synchronisers: a queue of at most two words, at most one word in        *)
(* flight, and an output on which every word that left the queue appears   *)
(* exactly once, in order, as one strobe.                                  *)
(***************************************************************************)
EXTENDS Naturals, Sequences

CONSTANTS Word,     \* the values of a 16-bit HPS word
          NoWord,   \* "no strobe": not a member of Word
          Depth     \* words the queue holds

VARIABLES queue,    \* words accepted and not yet handed over
          flight,   \* the word handed over and not yet strobed: <<>> or <<w>>
          out       \* the word strobed on the core's bus, or NoWord

vars == <<queue, flight, out>>

Init == /\ queue = <<>>
        /\ flight = <<>>
        /\ out = NoWord

Accept(w) == /\ Len(queue) < Depth
             /\ queue' = Append(queue, w)
             /\ UNCHANGED <<flight, out>>

\* A double write takes the whole queue, whatever waited there.
Replace(w1, w2) == /\ queue' = <<w1, w2>>
                   /\ UNCHANGED <<flight, out>>

Take == /\ queue # <<>>
        /\ flight = <<>>
        /\ flight' = <<Head(queue)>>
        /\ queue' = Tail(queue)
        /\ UNCHANGED out

Deliver == /\ flight # <<>>
           /\ out' = flight[1]
           /\ flight' = <<>>
           /\ UNCHANGED queue

EndStrobe == /\ out # NoWord
             /\ out' = NoWord
             /\ UNCHANGED <<queue, flight>>

Next == \/ \E w \in Word : Accept(w)
        \/ \E w1, w2 \in Word : Replace(w1, w2)
        \/ Take
        \/ Deliver
        \/ EndStrobe

Spec == Init /\ [][Next]_vars

FairSpec == /\ Spec
            /\ WF_vars(Take)
            /\ WF_vars(Deliver)
            /\ WF_vars(EndStrobe)
=============================================================================
