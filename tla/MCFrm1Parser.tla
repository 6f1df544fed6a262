----------------------------- MODULE MCFrm1Parser -----------------------------
(* Frames of up to 2x2 pixels: sizes the core may show, all of them plausible.   *)
EXTENDS Frm1Parser

MCSizes == {<<1, 2>>, <<2, 1>>, <<2, 2>>}
=============================================================================
