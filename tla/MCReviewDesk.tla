---------------------------- MODULE MCReviewDesk ----------------------------
EXTENDS ReviewDesk

CONSTANTS r1, r2

Sound(file, peak) ==
  [file |-> file, declared |-> 1000, lufs |-> {-19},
   analysis |-> Analysis(<<FALSE, FALSE>>, 1000, -20, peak, 0)]

MCTake == {Sound("ok", -4)}
MCUserIssue == {<<"blocking", 0>>}
MCMovable == "narrator" :> {"ok", "missing"}
=============================================================================
