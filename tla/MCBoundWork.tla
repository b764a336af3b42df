----------------------------- MODULE MCBoundWork -----------------------------
(* Instances of BoundWork for TLC.  The lanes are alike, and so are the    *)
(* calls of spawn_bound_work; no symmetry is declared, for the main run    *)
(* checks liveness.                                                        *)
EXTENDS BoundWork, TLC
=============================================================================
