------------------------- MODULE MCAnimatedRepeater -------------------------
(* Three rows, two of which may hold the same.                                *)
EXTENDS AnimatedRepeater

=============================================================================
