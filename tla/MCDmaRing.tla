------------------------------- MODULE MCDmaRing -------------------------------
EXTENDS DmaRing

\* The pattern begins at its first word, or just before both of its wraps.
MCStarts == {<<0, 0>>, <<FrameMod - 1, Npix - 1>>}
=============================================================================
