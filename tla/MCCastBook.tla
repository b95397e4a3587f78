---------------------------- MODULE MCCastBook ----------------------------
(* A short book with one character known, and a catalogue of three voices. *)
EXTENDS CastBook

Segment(i, name, conf) == [id |-> i, scene |-> 1, speaker |-> name, names |-> <<>>, confidence |-> conf]
MCBook == <<Segment(1, <<"mr", "holmes">>, 80), Segment(2, <<"mary", "watson">>, 80)>>
Row(i, name) ==
  [id |-> i, name |-> name, canonical |-> name, aliases |-> <<>>, traits |-> {}, relations |-> {},
   segment |-> 1, into |-> 0, locked |-> FALSE, confidence |-> 80]
MCCast0 == <<Row(1, <<"holmes">>), Row(2, <<"watson">>)>>
MCLines0 == <<[by |-> 1, words |-> 60, scene |-> 1], [by |-> 2, words |-> 1200, scene |-> 1]>>
Say(action, target) == [about |-> <<>>, action |-> action, target |-> target, named |-> <<"watson">>, confidence |-> 90]
MCSayings == {Say("merge_existing", 0), Say("merge_existing", 9), Say("new", 0), Say("split", 0), Say("unsure", 0)}
MCProfiles0 == {[confidence |-> 60, traits |-> {}, gender |-> {"male"}, age |-> {}, relations |-> {}]}
MCNewNames == {<<"mr", "holmes">>}
Voice(i, facets) ==
  [id |-> i, gender |-> "unknown", age |-> "unknown", timbre |-> {"clear"}, pitch |-> 100 * i, bright |-> 500,
   licence |-> "commercial", facets |-> facets]
MCCatalogue == {Voice(1, {"warm"}), Voice(2, {}), [Voice(3, {}) EXCEPT !.licence = "research"]}
\* Two of people, casting and discovery at a time, or two discoveries.
All == {"v1", "v2", "propose"}
Budget(p, v, a, r, kinds) == [people |-> p, voices |-> v, auto |-> a, run |-> r, kinds |-> kinds]
MCBudgets ==
  {Budget(2, 0, 0, 1, {"v2"}), Budget(1, 0, 0, 1, All), Budget(1, 1, 1, 0, {}), Budget(0, 2, 1, 0, {}),
   Budget(0, 0, 1, 1, All), Budget(0, 0, 0, 2, {"v2", "propose"}), Budget(1, 0, 0, 2, {"propose"})}
Runners == Permutations(Runner)
=============================================================================
