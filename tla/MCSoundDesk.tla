---------------------------- MODULE MCSoundDesk ----------------------------
EXTENDS SoundDesk

CONSTANTS p1, p2, e1, w1, w2

Profile(place, tension, events) ==
  [place |-> place, mood |-> "tense", tension |-> tension, events |-> events, noSfx |-> FALSE,
   confidence |-> 80, source |-> "local_llm"]
Knock == [type |-> "knock", sentence |-> <<"he", "knocked">>, confidence |-> 90]
Wood == <<"forest", "none", "night">>

Segment(id, words, dialogue) == [id |-> id, words |-> words, dialogue |-> dialogue]
MCText == << <<Segment(1, <<"night", "fell">>, FALSE)>>, <<Segment(2, <<"then", "he", "knocked">>, FALSE)>> >>
MCExplicit == << NoProfile, Profile(Wood, 25, <<Knock>>) >>
MCAnswers == { Profile(Wood, 90, <<Knock, Knock>>) }
MCUserCue == { <<1, "ambience">> }
MCPermutations == Permutations({p1, p2}) \cup Permutations({w1, w2})
\* Two plans with everything around them once, or directions only.
Budget(p, t, e, m, i) ==
  [plan |-> p, touch |-> t, edit |-> e, mix |-> m, infer |-> i]
MCBudgets == {Budget(2, 1, 0, 1, 1), Budget(0, 0, 2, 0, 3)}
MCFrames == { 1 :> 44100 @@ 2 :> 30000 }
=============================================================================
