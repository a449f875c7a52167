--------------------------- MODULE MCBuildingLoop ---------------------------
(* Small instances of BuildingLoop. *)
EXTENDS BuildingLoop, TLC
=============================================================================
