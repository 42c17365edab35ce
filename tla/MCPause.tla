------------------------------ MODULE MCPause ------------------------------
(* Pause for TLC: finite as it stands but for the length of the ending.     *)
EXTENDS Pause
=============================================================================
