--------------------------- MODULE MCBoardLayouts ---------------------------
(* A passport checker and another widget, whose type's height is above it. *)
EXTENDS BoardLayouts, TLC

CONSTANTS passport, clock

DefaultHeights == (passport :> 2) @@ (clock :> 3)
=============================================================================
