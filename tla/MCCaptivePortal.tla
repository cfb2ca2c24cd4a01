-------------------------- MODULE MCCaptivePortal ---------------------------
(* CaptivePortal with a redirecting portal (one page safe, one not) and the  *)
(* three kinds of connectivity verdict the code tells apart: one that shows  *)
(* the row, one that does not, and the healthy one.                          *)
EXTENDS CaptivePortal

CONSTANTS login, script

MCConnectivities == {"unknown", "none", "full"}

=============================================================================
