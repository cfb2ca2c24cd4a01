----------------------------- MODULE MCDisplays -----------------------------
(* Displays on a laptop's panel and a second one, whose logical width is    *)
(* not whole: 1.75 pixels round up.                                         *)
EXTENDS Displays, TLC

CONSTANTS edp, hdmi

MCPanels == {edp, hdmi}
MCRank == edp :> 1 @@ hdmi :> 2 @@ Fallback :> 3
MCWidth == edp :> 8 @@ hdmi :> 7 @@ Fallback :> 4
MCHeight == edp :> 4 @@ hdmi :> 8 @@ Fallback :> 4
=============================================================================
