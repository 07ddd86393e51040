----------------------------- MODULE MCBranding -----------------------------
(* Three threads racing for the four values of a two-bit counter. *)
EXTENDS Branding

CONSTANTS p1, p2, p3

MCProcs == {p1, p2, p3}
MCMaxId == 3
=============================================================================
