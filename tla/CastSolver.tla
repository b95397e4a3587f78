---------------------------- MODULE CastSolver ----------------------------
(***************************************************************************)
(* How automatic casting chooses a voice for the narrator and for every    *)
(* character that is not locked.  A voice is [id, gender, age, timbre,     *)
(* pitch, bright, licence, facets], a specification [id, required,         *)
(* preferred, timbre, rank, partners]; scores are thousandths.             *)
(***************************************************************************)
EXTENDS Integers, Sequences, FiniteSets, SequencesExt

MinDialogueWords == 5
DistinctThreshold == 350
BacktrackThreshold == 1000
MaxBacktracks == 3
\* Thousandths of the pace, by the place in the pool of a voice.
PoolOffsets == <<0, 40, -40, 50, -50, 30, -30>>

Greater(a, b) == IF a > b THEN a ELSE b
AbsDiff(a, b) == IF a > b THEN a - b ELSE b - a
Sum(f, S) == FoldLeft(LAMBDA n, x : n + f[x], 0, SetToSeq(S))

NormalizeFacet(v) ==
  CASE v \in {"female", "woman"} -> "feminine"
    [] v \in {"male", "man"} -> "masculine"
    [] v = "young" -> "young_adult"
    [] v = "elderly" -> "elder"
    [] OTHER -> v
VoiceFacet(voice, key) ==
  CASE key = "gender" -> NormalizeFacet(voice.gender)
    [] key = "age" -> NormalizeFacet(voice.age)
    [] OTHER -> "unknown"

Eligible(voices) == {v \in voices : v.licence \in {"commercial", "consent"}}
PresetFacets(style) ==
  CASE style = "brisk" -> {"bright", "medium"}
    [] style = "literary" -> {"warm", "soft"}
    [] OTHER -> {"warm", "clear", "medium"}
NarratorScore(voice, style) == Cardinality(PresetFacets(style) \cap voice.facets)

\* select_narrator, of the eligible voices.
Narrator(voices, style) ==
  CHOOSE v \in voices : \A w \in voices :
    \/ NarratorScore(v, style) > NarratorScore(w, style)
    \/ NarratorScore(v, style) = NarratorScore(w, style) /\ v.id <= w.id
-----------------------------------------------------------------------------
(* derive_casting_specs: lines is the approved or accepted dialogue, as
   [by, words, scene]; who plays a part follows from it *)

SpokenWords(lines, c) == FoldLeft(LAMBDA n, l : n + (IF l.by = c THEN l.words ELSE 0), 0, lines)
Partners(lines, c) ==
  {l.by : l \in {x \in ToSet(lines) : \E y \in ToSet(lines) : y.by = c /\ y.scene = x.scene}} \ {c}

Prominence(lines, cast) ==
  LET words == [c \in cast |-> SpokenWords(lines, c)]
      more(a, b) == words[a] > words[b] \/ (words[a] = words[b] /\ a < b)
      positive == SetToSortSeq({c \in cast : words[c] >= MinDialogueWords}, more)
      share == Greater(1, (Len(positive) * 15 + 99) \div 100)
      major == {positive[i] : i \in {j \in DOMAIN positive : j <= share}}
               \cup {c \in cast : words[c] >= 1000}
  IN [c \in cast |-> CASE words[c] < MinDialogueWords -> "walk_on"
                       [] words[c] >= MinDialogueWords /\ c \in major -> "major"
                       [] OTHER -> "minor"]

\* _casting_spec, from the character's traits and speaking style.
RoleTimbre(role) ==
  CASE role = "protagonist" -> {"clear", "warm"}
    [] role \in {"major", "antagonist"} -> {"clear"}
    [] role = "supporting" -> {"neutral"}
    [] OTHER -> {}
StyleTimbre(style) ==
  CASE style = "warm" -> {"warm", "soft"}
    [] style = "bright" -> {"bright", "clear"}
    [] style = "gentle" -> {"warm", "soft"}
    [] OTHER -> {}
CastingSpec(c, lines, rank) ==
  [id |-> c.id, rank |-> rank,
   required |-> {t \in c.traits : t[1] \in {"gender", "age"}},
   preferred |-> {t \in c.traits : t[1] \notin {"gender", "age"}},
   timbre |-> RoleTimbre(c.role) \cup UNION {StyleTimbre(s) : s \in c.styles},
   partners |-> Partners(lines, c.id)]

\* Majors first, then by how much they say.
Specs(lines, characters) ==
  LET rank == Prominence(lines, {c.id : c \in characters})
      place == [major |-> 0, minor |-> 1, walk_on |-> 2]
      before(a, b) ==
        \/ place[a.rank] < place[b.rank]
        \/ /\ a.rank = b.rank
           /\ \/ SpokenWords(lines, a.id) > SpokenWords(lines, b.id)
              \/ SpokenWords(lines, a.id) = SpokenWords(lines, b.id) /\ a.id < b.id
  IN SetToSortSeq({CastingSpec(c, lines, rank[c.id]) : c \in characters}, before)
-----------------------------------------------------------------------------
(* Scores; assigned is a set of <<character, voice>> *)

VoiceDistance(a, b) ==
  IF a.id = b.id THEN 0
  ELSE LET pitch == (1000 * AbsDiff(a.pitch, b.pitch)) \div Greater(100, Greater(a.pitch, b.pitch))
           both == a.timbre \cup b.timbre
           timbre == IF both = {} THEN 0
                     ELSE 1000 - (1000 * Cardinality(a.timbre \cap b.timbre)) \div Cardinality(both)
       IN (pitch + AbsDiff(a.bright, b.bright) + timbre) \div 3

Fits(voice, spec) ==
  \A t \in spec.required : VoiceFacet(voice, t[1]) \in {"unknown", NormalizeFacet(t[2])}

Score(voice, spec, assigned, freeReuse) ==
  LET hits(S) == Cardinality({t \in S : VoiceFacet(voice, t[1]) = NormalizeFacet(t[2])})
      facets == 2 * hits(spec.required) + hits(spec.preferred)
      all == voice.timbre \cup spec.timbre
      timbre == IF voice.timbre = {} \/ spec.timbre = {} THEN 500
                ELSE (1000 * Cardinality(voice.timbre \cap spec.timbre)) \div Cardinality(all)
      reused == Cardinality({a \in assigned : a[2].id = voice.id})
      repeat == IF freeReuse THEN 0 ELSE reused * (IF spec.rank = "major" THEN 4000 ELSE 500)
      near == {a \in assigned : a[1] \in spec.partners /\ VoiceDistance(voice, a[2]) < DistinctThreshold}
      gap == [a \in near |-> 4 * (DistinctThreshold - VoiceDistance(voice, a[2]))]
  IN 2000 * facets + (3 * timbre) \div 2 - repeat - Sum(gap, near)

\* The scored voices, by score and then by id.
Ordered(scored) ==
  SetToSortSeq(scored, LAMBDA a, b : a.score > b.score \/ (a.score = b.score /\ a.voice.id < b.voice.id))
Scored(voices, spec, assigned, freeReuse) ==
  Ordered({[voice |-> v, score |-> Score(v, spec, assigned, freeReuse)] : v \in {w \in voices : Fits(w, spec)}})

\* _rank_candidates: when no voice fits, requirements are given up one by one,
\* the gender after what costs least and before the rest.
RankCandidates(voices, spec, assigned) ==
  LET fitting(s) == \E v \in voices : Fits(v, s)
      anyGender == [spec EXCEPT !.timbre = {}, !.required = {t \in @ : t[1] # "gender"}]
      anyone == [spec EXCEPT !.timbre = {}, !.required = {}]
      gendered == anyGender.required # spec.required
      dropped == (IF spec.timbre = {} THEN <<>> ELSE <<"timbre">>) \o <<"reuse">>
                   \o (IF gendered THEN <<"gender">> ELSE <<>>)
      given == CASE fitting(spec) -> <<spec, FALSE, <<>>>>
                 [] ~fitting(spec) /\ gendered /\ fitting(anyGender) -> <<anyGender, TRUE, dropped>>
                 [] OTHER -> <<anyone, TRUE, Append(dropped, "remaining")>>
      ranked(g) == [order |-> Scored(voices, g[1], assigned, g[2]), relaxed |-> g[3]]
  IN ranked(given)

\* The best voice no major has yet, or the best one.
BestFresh(order, used) ==
  IF \E i \in DOMAIN order : order[i].voice.id \notin used
  THEN SelectSeq(order, LAMBDA c : c.voice.id \notin used)[1] ELSE order[1]

\* The next major takes its best voice, or sends the one before back.
MajorStep(acc, rank, best) ==
  LET before == Last(acc.history)
      back == /\ best.score < BacktrackThreshold
              /\ acc.history # <<>> /\ acc.backtracks < MaxBacktracks
              /\ Len(before.order) > 1
  IN IF back
     THEN [acc EXCEPT !.history[Len(acc.history)].voice = before.order[2].voice, !.backtracks = @ + 1]
     ELSE [acc EXCEPT !.history = Append(@, [voice |-> best.voice, order |-> rank.order, relaxed |-> rank.relaxed])]

\* _assign_majors: a major whose best voice is a poor one sends the major
\* before back to its second best, three times in all.
AssignMajors(majors, voices) ==
  LET taken(history) == {<<majors[i].id, history[i].voice>> : i \in DOMAIN history}
      used(history) == {history[i].voice.id : i \in DOMAIN history}
      ranked(acc, rank) == MajorStep(acc, rank, BestFresh(rank.order, used(acc.history)))
      step(acc, n) ==
        IF Len(acc.history) = Len(majors) THEN acc
        ELSE ranked(acc, RankCandidates(voices, majors[Len(acc.history) + 1], taken(acc.history)))
  IN FoldLeft(step, [history |-> <<>>, backtracks |-> 0],
              [n \in 1..(Len(majors) + MaxBacktracks) |-> n]).history

\* The voices of a pool: the majors' as chosen together, the minors' one by
\* one, each later sharer of a voice at a pace of its own, and the narrator's
\* to who hardly speaks or when the pool is empty.
Given(s, voice, relaxed, offset) ==
  [id |-> s.id, rank |-> s.rank, voice |-> voice, relaxed |-> relaxed, offset |-> offset]
MinorGiven(acc, s, rank) ==
  LET sharers == Len(SelectSeq(acc, LAMBDA a : a.voice = rank.order[1].voice /\ a.rank = "minor"))
  IN Given(s, rank.order[1].voice, rank.relaxed, PoolOffsets[(sharers % Len(PoolOffsets)) + 1])
CastOthers(specs, pool, narrator, majors, chosen) ==
  LET first == {<<majors[i].id, chosen[i].voice>> : i \in DOMAIN chosen}
      at(s) == CHOOSE i \in DOMAIN majors : majors[i].id = s.id
      next(acc, s) ==
        Append(acc,
          CASE s.rank = "walk_on" \/ pool = {} ->
                 Given(s, narrator, IF s.rank = "walk_on" THEN <<>> ELSE <<"narrator">>, 0)
            [] s.rank = "major" /\ pool # {} -> Given(s, chosen[at(s)].voice, chosen[at(s)].relaxed, 0)
            [] OTHER -> MinorGiven(acc, s, RankCandidates(pool, s,
                                             first \cup {<<acc[i].id, acc[i].voice>> : i \in DOMAIN acc})))
  IN FoldLeft(next, <<>>, specs)
CastFrom(specs, pool, narrator) ==
  LET majors == SelectSeq(specs, LAMBDA s : s.rank = "major")
  IN CastOthers(specs, pool, narrator, majors, IF pool = {} THEN <<>> ELSE AssignMajors(majors, pool))

\* Variant of CastAll: the narrator's voice stays in the pool.
CastAllWithNarrator(specs, voices, narrator, locked) ==
  CastFrom(specs, {v \in voices : v.id \notin locked}, narrator)

\* auto_cast: the narrator's voice and those of locked characters are not given.
CastAll(specs, voices, narrator, locked) ==
  CastFrom(specs, {v \in voices : v.id # narrator.id /\ v.id \notin locked}, narrator)

-----------------------------------------------------------------------------
(* Properties of one input; MCAlgorithms says which inputs are tried *)

\* Whatever the cast and the catalogue, everybody gets a voice: nobody who
\* speaks the narrator's or a locked one while another is left, nobody a voice
\* that contradicts a required trait while one fits, and of the minors who
\* share a voice seven in a row sound different; the eighth, and only then,
\* sounds like the first.
EveryoneIsVoiced(cast, specs, voices, narrator, locked) ==
  LET assignable == {v \in voices : v.id # narrator.id /\ v.id \notin locked}
  IN /\ [i \in DOMAIN cast |-> cast[i].id] = [i \in DOMAIN specs |-> specs[i].id]
     /\ \A i \in DOMAIN cast :
          (specs[i].rank # "walk_on" /\ assignable # {}) =>
            /\ cast[i].voice \in assignable
            /\ (\E v \in assignable : Fits(v, specs[i])) => Fits(cast[i].voice, specs[i])
     /\ \A v \in assignable :
          LET sharing == {i \in DOMAIN cast : specs[i].rank = "minor" /\ cast[i].voice = v}
              before(i) == Cardinality({j \in sharing : j < i})
          IN \A i, j \in sharing : cast[i].offset = cast[j].offset <=> before(i) % 7 = before(j) % 7
=============================================================================
