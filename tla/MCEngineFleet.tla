--------------------------- MODULE MCEngineFleet ---------------------------
(* Bounded instances of EngineFleet for TLC.  Handles are model values: the   *)
(* first fleet takes NumEngines * NodesPerEngine of them, and every engine    *)
(* that is started later takes one more, so six let two engines be replaced   *)
(* twice over, or a whole fleet of two be rebuilt by a restarted manager.     *)
(* No symmetry: start_engines takes its handles with CHOOSE.                  *)
EXTENDS EngineFleet
CONSTANTS h1, h2, h3, h4, h5, h6
=============================================================================
