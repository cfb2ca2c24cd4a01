--------------------------- MODULE MCLowGraphics ----------------------------
(* Eco mode and game mode on a laptop whose battery runs down to, and a point  *)
(* or two above, the warning level.                                           *)
EXTENDS LowGraphics

MCLevels == 5..7
MCWarningLevels == {5, 6}
MCScales == 0..1

=============================================================================
