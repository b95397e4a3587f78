--------------------------- MODULE MCStructureEdit ---------------------------
EXTENDS StructureEdit

\* Three atoms: one scene of two segments, the same scene cut elsewhere, and
\* two scenes.
OneScene     == << << <<1, 2>>, <<3, 3>> >> >>
CutElsewhere == << << <<1, 1>>, <<2, 3>> >> >>
TwoScenes    == << << <<1, 2>> >>, << <<3, 3>> >> >>

MCParse == {CutElsewhere, TwoScenes}
MCSameParse == {OneScene}
=============================================================================
