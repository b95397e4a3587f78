-------------------------- MODULE MCSegmentRender --------------------------
(* Three callers in two processes, two of them in the same one.            *)
EXTENDS SegmentRender, TLC

CONSTANTS a1, a2, b1, pa, pb

MCProcessOf == a1 :> pa @@ a2 :> pa @@ b1 :> pb
=============================================================================
