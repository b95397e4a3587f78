----------------------------- MODULE SoundPlan -----------------------------
(***************************************************************************)
(* How a chapter's sound is chosen and laid out: the atmosphere profile of *)
(* a scene, the cues planned from profiles and the timeline of the last    *)
(* render, the bank entry a cue is given, the batches in which directions  *)
(* are inferred, the pauses between segments, and what the mixer makes of  *)
(* the cues.  Confidences, tensions and overlaps are whole percents, times *)
(* milliseconds; waveforms are left out, their lengths and fades are not.  *)
(***************************************************************************)
EXTENDS Integers, Sequences, FiniteSets, SequencesExt

MinSceneConfidence == 65
MinSfxConfidence == 80
MinAnchor == 35
MaxMusicFadeIn == 6000
MusicFadeOut == 1500
PeakTension == 80
PeakDelta == 30
MinSfxMatch == 20
SampleRate == 44100
ParagraphPause == 350
ScenePause == 800
MaxPause == 5000

Smaller(a, b) == IF a < b THEN a ELSE b
Larger(a, b) == IF a > b THEN a ELSE b
Clamped(x, lo, hi) == Larger(lo, Smaller(hi, x))
Round(a, b) == (2 * a + b) \div (2 * b)
-----------------------------------------------------------------------------
(* Atmosphere profiles *)

NoProfile == [confidence |-> 0, source |-> "none"]
Missing(p) == p = NoProfile

\* seen: what the word lists matched, a set of at most one value each; events
\* are the phrases found.
DeterministicProfile(seen, events) ==
  LET evidence == Cardinality({f \in DOMAIN seen : seen[f] # {}}) + Smaller(2, Len(events))
      confidence == Smaller(92, 40 + 14 * evidence)
      or(f, default) == IF seen[f] = {} THEN default ELSE CHOOSE x \in seen[f] : TRUE
      mood == or("mood", "neutral")
  IN IF confidence < MinSceneConfidence THEN NoProfile
     ELSE [place |-> <<or("location", "unspecified"), or("weather", "none"), or("time", "unspecified")>>,
           mood |-> mood,
           tension |-> IF mood \in {"tense", "fearful", "angry"} THEN 65 ELSE 25,
           events |-> [i \in DOMAIN events |-> [events[i] EXCEPT !.confidence = 90]],
           noSfx |-> events = <<>>,
           confidence |-> confidence,
           source |-> "deterministic"]

\* The model's answer for a scene; a word outside the lists becomes the default.
NormalizeProfile(scene, answer, places, moods) ==
  IF answer.scene # scene \/ Clamped(answer.confidence, 0, 100) < MinSceneConfidence
  THEN NoProfile
  ELSE [place |-> IF answer.place \in places THEN answer.place
                  ELSE <<"unspecified", "none", "unspecified">>,
        mood |-> IF answer.mood \in moods THEN answer.mood ELSE "neutral",
        tension |-> Clamped(answer.tension, 0, 100),
        events |-> answer.events,
        noSfx |-> answer.noSfx,
        confidence |-> Clamped(answer.confidence, 0, 100),
        source |-> "local_llm"]
-----------------------------------------------------------------------------
(* Segment inputs: [id, words, timed, start, end, noSfx, dialogue], times from
   the start of their scene *)

Overlap(a, b) == IF a \cup b = {} THEN 0
                 ELSE (100 * Cardinality(a \cap b)) \div Cardinality(a \cup b)
PlacesOf(query, words) ==
  {i \in 1..(Len(words) - Len(query) + 1) : SubSeq(words, i, i + Len(query) - 1) = query}

\* _locate_anchor: the first best timed segment, <<>> below the least overlap.
LocateAnchor(query, segs) ==
  LET usable == {i \in DOMAIN segs : segs[i].timed /\ segs[i].words # <<>>}
      found(i) == PlacesOf(query, segs[i].words)
      score(i) == IF found(i) # {} THEN 100 ELSE Overlap(ToSet(query), ToSet(segs[i].words))
      best == {i \in usable : /\ score(i) >= MinAnchor
                              /\ \A j \in usable : score(j) < score(i)
                                                   \/ (score(j) = score(i) /\ i <= j)}
      at(i) == IF found(i) = {} THEN 0 ELSE (CHOOSE k \in found(i) : \A l \in found(i) : k <= l) - 1
  IN IF query = <<>> \/ best = {} THEN <<>>
     ELSE LET i == CHOOSE x \in best : TRUE
          IN <<segs[i], segs[i].start + Round(at(i) * (segs[i].end - segs[i].start), Len(segs[i].words))>>

MoodBucket(mood) ==
  CASE mood \in {"bright", "warm", "joyful", "romantic", "calm"} -> "bright"
    [] mood \in {"tense", "urgent", "angry", "action"} -> "tense"
    [] OTHER -> "somber"

\* Which rule plans cues of which kind.
KindOf(rule) == CASE rule = "scene_ambience_bed" -> "ambience"
                  [] rule = "explicit_sound_event" -> "sfx"
                  [] OTHER -> "music"

\* _profile_evidence
Evidence(p) == <<p.place, p.mood, p.tension, p.confidence>>

\* Cues of every kind have the same fields.
Cue(scene, kind, rule, tags, evidence) ==
  [scene |-> scene, kind |-> kind, rule |-> rule, tags |-> tags, run |-> <<scene>>, profile |-> evidence,
   segment |-> 0, start |-> 0, said |-> <<>>, duration |-> 0, fadeIn |-> 0, fadeOut |-> 0]

\* _plan_key: the parts that are hashed; a bed or music cue names no moment.
PlanKey(mode, c) == <<mode, c.rule, c.scene, c.tags>> \o
                    (IF c.kind = "sfx" THEN <<c.segment, c.start, c.said>> ELSE <<>>)

\* _plan_music_cue: from the scene's start to its first line of dialogue.
MusicCue(scene, profile, segs, rule) ==
  LET timed == SelectSeq(segs, LAMBDA s : s.timed)
      spoken == SelectSeq(timed, LAMBDA s : s.dialogue)
      ends == {timed[i].end : i \in DOMAIN timed}
      stop == IF spoken # <<>> THEN Head(spoken).start ELSE CHOOSE e \in ends : \A f \in ends : f <= e
      length == stop - Head(timed).start
  IN IF timed = <<>> \/ length <= 0 THEN <<>>
     ELSE <<[Cue(scene, "music", rule, <<MoodBucket(profile.mood), "music">>, Evidence(profile)) EXCEPT
               !.start = Head(timed).start,
               !.duration = length,
               !.fadeIn = Clamped(Head(timed).end - Head(timed).start, 0, MaxMusicFadeIn),
               !.fadeOut = Smaller(MusicFadeOut, length)]>>

\* One ambience bed per run of neighbouring scenes in the same place.
WithBed(acc, scene, p) ==
  IF acc.place = p.place /\ acc.bed # 0
  THEN [acc EXCEPT !.cues[acc.bed].run = Append(@, scene)]
  ELSE [acc EXCEPT !.cues = Append(@, Cue(scene, "ambience", "scene_ambience_bed", Append(p.place, p.mood), Evidence(p))),
                   !.bed = Len(acc.cues) + 1,
                   !.place = p.place]

\* Music opens the chapter; in dramatized mode it also marks the first sharp
\* rise of tension, whether or not there is a timeline to place it on.
WithMusic(acc, scene, p, segs, set) ==
  LET opening == acc.index = 1 /\ set.opening
      peak == /\ ~opening /\ set.mode = "dramatized" /\ set.peak /\ ~acc.peaked
              /\ p.tension >= PeakTension /\ p.tension - acc.tension >= PeakDelta
      rule == IF opening THEN "chapter_opening_music" ELSE "emotional_peak_underscore"
      cue == IF opening \/ peak THEN MusicCue(scene, p, segs, rule) ELSE <<>>
  IN [acc EXCEPT !.cues = @ \o cue,
                 !.window = IF cue = <<>> THEN <<0, 0>>
                            ELSE <<cue[1].start, cue[1].start + cue[1].duration>>,
                 !.peaked = @ \/ peak,
                 !.tension = Larger(@, p.tension),
                 !.skipped = @ \o (IF (opening \/ peak) /\ cue = <<>>
                                   THEN <<<<scene, "no_timeline_for_music_cue">>>> ELSE <<>>)]

\* Variant of WithEvent: the budget is not looked at.
WithEventUnbounded(acc, scene, p, ev, anchor, set) ==
     IF p.noSfx \/ ev.confidence < MinSfxConfidence \/ anchor = <<>>
     THEN [acc EXCEPT !.skipped = Append(@, <<scene, "no_timeline_anchor">>)]
     ELSE [acc EXCEPT !.used = @ + 1,
             !.cues = Append(@, [Cue(scene, "sfx", "explicit_sound_event", <<ev.type>> \o p.place, Evidence(p))
                                   EXCEPT !.segment = anchor[1].id, !.start = anchor[2],
                                          !.said = ev.sentence, !.run = <<>>])]

\* A sound the text names at an anchor: placed, or skipped for the first reason
\* that holds.
WithEvent(acc, scene, p, ev, anchor, set) ==
  LET reason ==
        CASE p.noSfx -> "scene_no_sfx_recommended"
          [] ev.confidence < MinSfxConfidence -> "low_event_confidence"
          [] anchor = <<>> -> "no_timeline_anchor"
          [] anchor[1].noSfx -> "segment_no_sfx_flag"
          [] acc.window[1] <= anchor[2] /\ anchor[2] < acc.window[2] -> "overlaps_music_cue"
          [] acc.used >= set.limit -> "chapter_sfx_budget_exhausted"
          [] OTHER -> "placed"
  IN IF reason # "placed" THEN [acc EXCEPT !.skipped = Append(@, <<scene, reason>>)]
     ELSE [acc EXCEPT !.used = @ + 1,
             !.cues = Append(@, [Cue(scene, "sfx", "explicit_sound_event", <<ev.type>> \o p.place, Evidence(p))
                                   EXCEPT !.segment = anchor[1].id, !.start = anchor[2],
                                          !.said = ev.sentence, !.run = <<>>])]

\* plan_chapter_sound.  set: [mode, opening, peak, limit].
PlanChapter(scenes, profiles, segs, set) ==
  LET start == [cues |-> <<>>, skipped |-> <<>>, used |-> 0, place |-> <<>>, bed |-> 0,
                tension |-> 0, peaked |-> FALSE, index |-> 1, window |-> <<0, 0>>]
      visit(acc, s) ==
        LET p == profiles[s]
            laid == WithMusic(WithBed(acc, s, p), s, p, segs[s], set)
            done == IF p.confidence < MinSceneConfidence
                    THEN [acc EXCEPT !.skipped = Append(@, <<s, "low_or_missing_profile_confidence">>),
                                     !.place = <<>>, !.bed = 0]
                    ELSE FoldLeft(LAMBDA a, ev : WithEvent(a, s, p, ev, LocateAnchor(ev.sentence, segs[s]), set),
                                  laid, p.events)
        IN [done EXCEPT !.index = @ + 1]
  IN IF set.mode = "speech_only" THEN start ELSE FoldLeft(visit, start, scenes)

\* _settings: budgets are whole numbers from 0 to 20, anything else the default.
SfxLimit(mode, budget) ==
  LET kind == IF mode = "dramatized" THEN "dramatized" ELSE "light"
  IN IF budget[kind] = {} THEN (IF kind = "light" THEN 2 ELSE 5)
     ELSE Clamped(CHOOSE x \in budget[kind] : TRUE, 0, 20)
-----------------------------------------------------------------------------
(* The bundled bank; entries of a kind in the order of their ids *)

Entry(id, kind, tags) == [id |-> id, kind |-> kind, tags |-> tags]
Bank == <<
  Entry("crowd", "ambience", {"crowd", "market", "tavern", "public"}),
  Entry("fire", "ambience", {"fire", "hearth", "camp", "interior"}),
  Entry("forest", "ambience", {"forest", "wilderness", "exterior"}),
  Entry("ocean", "ambience", {"ocean", "ship", "coast", "exterior"}),
  Entry("rain", "ambience", {"rain", "storm", "exterior"}),
  Entry("room_tone", "ambience", {"interior", "quiet", "room"}),
  Entry("urban_night", "ambience", {"city", "street", "urban", "night"}),
  Entry("wind", "ambience", {"wind", "exterior", "wilderness"}),
  Entry("door_slam", "sfx", {"door", "door_slam", "interior"}),
  Entry("footsteps", "sfx", {"footsteps", "walking", "running"}),
  Entry("glass_break", "sfx", {"glass", "glass_break"}),
  Entry("knock", "sfx", {"knock", "door", "interior"}),
  Entry("thunder", "sfx", {"thunder", "storm"}),
  Entry("music_pad_bright", "music", {"bright", "music", "pad", "major"}),
  Entry("music_pad_somber", "music", {"somber", "music", "pad", "minor"}),
  Entry("music_pad_tense", "music", {"tense", "music", "pad", "cluster"}) >>

\* resolve: the best overlap, the first id among equals; only a sound effect
\* is refused for lack of overlap.  <<>> or <<entry>>.
Resolve(tags, kind) ==
  LET of == SelectSeq(Bank, LAMBDA e : e.kind = kind)
      score(i) == Overlap(tags, of[i].tags)
      best == CHOOSE i \in DOMAIN of : \A j \in DOMAIN of :
                score(j) < score(i) \/ (score(j) = score(i) /\ i <= j)
  IN IF of = <<>> \/ (kind = "sfx" /\ score(best) < MinSfxMatch) THEN <<>> ELSE <<of[best]>>

\* _bank_query and the bounds of resolve.
BankQuery(c) ==
  CASE c.kind = "sfx" -> [tags |-> {Head(c.tags)}, duration |-> 2000]
    [] c.kind = "music" -> [tags |-> ToSet(c.tags),
                            duration |-> Clamped(IF c.duration = 0 THEN 6000 ELSE c.duration, 250, 60000)]
    [] OTHER -> [tags |-> ToSet(c.tags), duration |-> 10000]

\* _tier_zero_asset_qa_passes, over the analysis of the generated file.
BankQaPasses(a, requested) ==
  /\ a.clipped = 0 /\ a.peak < 0 /\ a.rms > -90
  /\ requested > 0 => a.duration - requested \in -150..150

\* _resolve_bank_asset_with_qa: one more attempt with another seed; good[k]
\* says whether attempt k passes.
ResolveWithQa(c, good) ==
  LET q == BankQuery(c)
      entry == Resolve(q.tags, c.kind)
      asset(retry) == <<[id |-> entry[1].id, duration |-> q.duration, retry |-> retry]>>
  IN CASE entry = <<>> -> <<>>
       [] good[1] -> asset(0)
       [] good[2] -> asset(1)
       [] OTHER -> <<>>

CueFades(c) == CASE c.kind = "music" -> <<c.fadeIn, c.fadeOut>>
                 [] c.kind = "ambience" -> <<800, 800>>
                 [] OTHER -> <<0, 0>>
CueGainRequested(c) == IF c.kind = "ambience" THEN -24 ELSE -20
-----------------------------------------------------------------------------
(* Properties of one chapter *)

\* A rule plans cues of its own kind, and no two beds or pieces of music share
\* a scene (plan_chapter_sound).
CuesAreLaid(planned) ==
  \A i, j \in DOMAIN planned :
    /\ planned[i].kind = KindOf(planned[i].rule)
    /\ (i # j /\ planned[i].kind # "sfx" /\ planned[i].kind = planned[j].kind)
         => planned[i].scene # planned[j].scene

\* Two planned cues have one key.
NamedTwice(mode, planned) ==
  \E i, j \in DOMAIN planned : i # j /\ PlanKey(mode, planned[i]) = PlanKey(mode, planned[j])

\* No two planned cues are taken for each other when they are placed, unless a
\* profile names a sound twice in one sentence, which nothing between the
\* model's answer and the rows removes (normalize_profile, _plan_key).
CuesAreApart(mode, planned, profiles) ==
  /\ CuesAreLaid(planned)
  /\ NamedTwice(mode, planned) =>
       \E s \in DOMAIN profiles : ~Missing(profiles[s]) /\
         \E i, j \in DOMAIN profiles[s].events :
           i # j /\ profiles[s].events[i].type = profiles[s].events[j].type
                 /\ profiles[s].events[i].sentence = profiles[s].events[j].sentence

\* The guardrails of the plan: beds cover each run of like scenes once, music
\* opens the chapter once, marks one peak at most and is over before anybody
\* speaks, no sound effect starts under it or beyond the budget, and no sound
\* of the text is dropped without a reason (plan_chapter_sound).
PlanKeepsItsRules(plan, profiles, segs, limit) ==
  LET scenes == [s \in DOMAIN profiles |-> s]
      of(kind) == SelectSeq(plan.cues, LAMBDA c : c.kind = kind)
      heard == SelectSeq(scenes, LAMBDA s : ~Missing(profiles[s]))
      named == FlattenSeq([i \in DOMAIN heard |-> profiles[heard[i]].events])
      beds == of("ambience")
      music == of("music")
      sfx == of("sfx")
  IN /\ FlattenSeq([i \in DOMAIN beds |-> beds[i].run]) = heard
     /\ \A i \in DOMAIN beds, s \in DOMAIN profiles \ {Len(profiles)} :
          (s \in ToSet(beds[i].run)) =>
            (s + 1 \in ToSet(beds[i].run) <=> ~Missing(profiles[s + 1]) /\ profiles[s].place = profiles[s + 1].place)
     /\ \A rule \in {"chapter_opening_music", "emotional_peak_underscore"} :
          Len(SelectSeq(music, LAMBDA c : c.rule = rule)) <= 1
     /\ \A i \in DOMAIN music, k \in DOMAIN segs :
          segs[k].dialogue => music[i].start + music[i].duration <= segs[k].start
     /\ Len(sfx) <= limit
     /\ \A i \in DOMAIN sfx, j \in DOMAIN music :
          (sfx[i].scene = music[j].scene) => sfx[i].start >= music[j].start + music[j].duration
     /\ Len(sfx) + Len(SelectSeq(plan.skipped, LAMBDA k : k[2] # "no_timeline_for_music_cue"))
          = Len(named) + (Len(profiles) - Len(heard))
=============================================================================
