------------------------- MODULE MCRegionController -------------------------
(* A small instance of RegionController for TLC: two payload levels and    *)
(* one level of everything else.                                           *)
EXTENDS RegionController

MCTop == [k \in KnobSet |-> IF k = "payload" THEN 2 ELSE 1]
=============================================================================
