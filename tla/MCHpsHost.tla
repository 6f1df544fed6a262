------------------------------- MODULE MCHpsHost -------------------------------
EXTENDS HpsHost

Program(procedures, lengths, masks, words, restarts_, failures_) ==
    [procedures |-> procedures, lengths |-> lengths, masks |-> masks, words |-> words,
     restarts |-> restarts_, failures |-> failures_]

\* Two levels raised by one write; a process that is replaced, with and without
\* polling; calls that give up and reads that fail; all the procedures, and a
\* block of every length.
MCUses == {Program({"spi"}, {}, {{"osd", "io"}}, 2, 0, 0),
           Program({"spi"}, {}, {{"io"}}, 2, 1, 1),
           Program({"spi", "fast"}, {}, {{"io"}}, 2, 1, 0),
           Program({"spi"}, {}, {{"io"}}, 3, 0, 0),
           Program({"spi", "fast", "write", "write_be", "read"}, {0, 2}, {{"io"}}, 3, 0, 0),
           Program({"write"}, {1, 3}, {{"io"}}, 4, 0, 0)}

MCBlock == {Program({"write"}, {4}, {{"io"}}, 5, 0, 0)}
=============================================================================
