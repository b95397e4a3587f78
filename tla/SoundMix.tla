------------------------------ MODULE SoundMix ------------------------------
(***************************************************************************)
(* The layout of an assembled chapter: the speech stem and its timeline,   *)
(* the timeline rebuilt for an old manifest, where the mixer puts a cue    *)
(* and how loud, the crossfaded tiles of a bed, mastering; and the batches *)
(* in which delivery directions are inferred.  Lengths are whole frames or *)
(* milliseconds, a power (the square of a fade) is counted in parts of the *)
(* fade's length.                                                          *)
(***************************************************************************)
EXTENDS SoundPlan

RoomToneHead == 1000
RoomToneTail == 2000

\* Binary division and multiplication lose a further millisecond for these
\* numbers of frames and a few hundred more.
RoundedDown == {88641, 89523}
FramesToMs(frames) == (frames * 1000) \div SampleRate - (IF frames \in RoundedDown THEN 1 ELSE 0)
MsToFrames(ms) == (SampleRate * ms) \div 1000
-----------------------------------------------------------------------------
(* The speech stem.  inputs: [segment, scene, frames, before, after] *)

\* _clamp_pause
ClampPause(ms) == Clamped(ms, 0, MaxPause)

\* The longest of the gap the place asks for and what either side asks for.
PauseAfter(inputs, i) ==
  LET gap == IF inputs[i].scene # inputs[i + 1].scene THEN ScenePause ELSE ParagraphPause
  IN Larger(gap, Larger(ClampPause(inputs[i].after), ClampPause(inputs[i + 1].before)))

\* Variant of SpeechStem: the pause is not counted in the cursor.
SpeechStemNoPause(inputs) ==
  LET lay(acc, i) == [acc EXCEPT !.cursor = @ + inputs[i].frames,
                        !.timeline = Append(@, [segment |-> inputs[i].segment, scene |-> inputs[i].scene,
                                                start |-> FramesToMs(acc.cursor),
                                                end |-> FramesToMs(acc.cursor + inputs[i].frames)])]
  IN FoldLeft(lay, [cursor |-> 0, timeline |-> <<>>, pauses |-> <<>>], [i \in DOMAIN inputs |-> i])

\* _write_speech_stem: times are truncated from the frame cursor.
SpeechStem(inputs) ==
  LET lay(acc, i) ==
        LET end == acc.cursor + inputs[i].frames
            pause == IF i < Len(inputs) THEN <<PauseAfter(inputs, i)>> ELSE <<>>
        IN [cursor |-> end + (IF pause = <<>> THEN 0 ELSE MsToFrames(pause[1])),
            timeline |-> Append(acc.timeline, [segment |-> inputs[i].segment, scene |-> inputs[i].scene,
                                               start |-> FramesToMs(acc.cursor), end |-> FramesToMs(end)]),
            pauses |-> acc.pauses \o pause]
  IN FoldLeft(lay, [cursor |-> 0, timeline |-> <<>>, pauses |-> <<>>], [i \in DOMAIN inputs |-> i])

Duration(stem) == FramesToMs(stem.cursor)
SceneOffset(stem, scene) ==
  LET of == SelectSeq(stem.timeline, LAMBDA e : e.scene = scene)
  IN IF of = <<>> THEN 0 ELSE Head(of).start

\* assemble: the stored timeline starts behind the room tone.
StoredTimeline(stem) ==
  [i \in DOMAIN stem.timeline |->
     [stem.timeline[i] EXCEPT !.start = @ + RoomToneHead, !.end = @ + RoomToneHead]]

\* _timeline_entries of a manifest without a timeline: durations and pauses
\* are added up; a render whose row is gone counts for nothing.
RebuiltTimeline(inputs, pauses) ==
  LET lay(acc, i) ==
        LET end == acc.cursor + FramesToMs(inputs[i].frames)
        IN [cursor |-> end + (IF i \in DOMAIN pauses THEN pauses[i] ELSE 0),
            out |-> Append(acc.out, [segment |-> inputs[i].segment, scene |-> inputs[i].scene,
                                     start |-> acc.cursor, end |-> end])]
  IN FoldLeft(lay, [cursor |-> RoomToneHead, out |-> <<>>], [i \in DOMAIN inputs |-> i]).out

\* _issue_marker: an issue without a place spans the chapter from its start.
Marker(timeline, segment, durationMs) ==
  LET of == SelectSeq(timeline, LAMBDA e : e.segment = segment)
      start == IF of = <<>> THEN 0 ELSE Head(of).start
  IN <<start, Larger(start, IF of = <<>> THEN durationMs ELSE Head(of).end)>>
-----------------------------------------------------------------------------
(* The mix.  A stored cue: [scene, kind, start, gain, length, mode, noSfx, muted] *)

CanonicalMode(mode) == CASE mode = "clean" -> "speech_only"
                         [] mode = "light" -> "light_cinematic"
                         [] OTHER -> mode

\* _resolve_sound_cues
Plays(cue, mode) ==
  /\ ~cue.muted
  /\ CASE mode = "light_cinematic" -> cue.mode \in {"light", "all", "light_cinematic"}
       [] mode = "dramatized" -> cue.mode \in {"light", "all", "light_cinematic", "dramatized"}
       [] OTHER -> FALSE

CueGain(kind, gain, mode) ==
  Smaller(gain, CASE mode = "light_cinematic" -> (IF kind = "sfx" THEN -14 ELSE -18)
                  [] OTHER -> (IF kind = "sfx" THEN -10 ELSE -14))

\* _write_sound_mix, _cue_samples: a bed fills the chapter up to its end, any
\* other clip sounds once.  {} when the cue is skipped.
Placed(cue, offset, total, file) ==
  LET start == offset + cue.start
      end == IF cue.kind = "ambience" THEN total ELSE Smaller(total, start + cue.length)
  IN IF (cue.noSfx /\ cue.kind = "sfx") \/ file # "ok" \/ cue.length = 0 \/ start >= total
     THEN {} ELSE {<<start, end>>}

\* Power at frame x of copy k, in parts of the fade: sqrt ramps at each seam.
CopyPower(x, k, copies, length, fade) ==
  LET at == x - k * (length - fade)
  IN CASE at < 0 \/ at >= length -> 0
       [] k > 0 /\ at < fade -> at
       [] k < copies - 1 /\ at >= length - fade -> length - at
       [] OTHER -> fade

\* _tile_with_crossfade: the power of a looped bed at frame x of total frames.
TilePower(x, length, total, crossfade) ==
  LET fade == Smaller(crossfade, length \div 2)
      hop == length - fade
      copies == ((total - length) + hop - 1) \div hop + 1
  IN IF fade = 0 \/ length >= total THEN Larger(1, fade)
     ELSE FoldLeft(LAMBDA sum, k : sum + CopyPower(x, k - 1, copies, length, fade),
                   0, [i \in 1..copies |-> i])

\* _cue_envelope, _duck_curve: <<power of the fades, 1 for a ducked frame>>.
CuePower(x, count, fadeIn, fadeOut, parts) ==
  LET in == Smaller(fadeIn, count)
      out == Smaller(fadeOut, count)
      rising == IF x < in THEN (parts * x) \div in ELSE parts
      falling == IF x >= count - out THEN (parts * (count - x)) \div out ELSE parts
  IN IF out > 0 /\ x >= count - out THEN Smaller(rising, falling) ELSE rising
Ducked(x, count, ramp) ==
  LET r == Smaller(ramp, count \div 2) IN x >= r /\ x < count - r

\* _apply_mastering: the file always gets its room tone; it is called mastered
\* only when ffmpeg measured, mastered and measured it again.
Mastered(hasFfmpeg, measures, masters, measuresAgain) ==
  hasFfmpeg /\ measures /\ masters /\ measuresAgain
-----------------------------------------------------------------------------
(* Direction windows.  A segment: [id, scene, chars] *)

BatchChars == 5000
BatchSegments == 20

Chars(segs) == FoldLeft(LAMBDA n, s : n + s.chars, 0, segs)
Fits(segs) == Len(segs) <= BatchSegments /\ Chars(segs) <= BatchChars

\* _segment_batches: a segment too long for any batch has one of its own.
Batches(segs) ==
  LET add(acc, s) ==
        IF acc # <<>> /\ Chars(Last(acc)) + s.chars <= BatchChars /\ Len(Last(acc)) < BatchSegments
        THEN [acc EXCEPT ![Len(acc)] = Append(@, s)] ELSE Append(acc, <<s>>)
  IN FoldLeft(add, <<>>, segs)

\* _bounded_scene_window: from the first target to the last, then outwards in
\* turns while the window fits.  Each turn adds a neighbour or is the last.
BoundedWindow(scene, targets) ==
  LET at == {i \in DOMAIN scene : scene[i].id \in targets}
      lo == CHOOSE i \in at : \A j \in at : i <= j
      hi == CHOOSE i \in at : \A j \in at : j <= i
      widen(w, turn) ==
        LET l == IF w[1] > 1 /\ Fits(SubSeq(scene, w[1] - 1, w[2])) THEN w[1] - 1 ELSE w[1]
            r == IF w[2] < Len(scene) /\ Fits(SubSeq(scene, l, w[2] + 1)) THEN w[2] + 1 ELSE w[2]
        IN <<l, r>>
      w == FoldLeft(widen, <<lo, hi>>, scene)
  IN SubSeq(scene, w[1], w[2])

\* _direction_context_windows, for one scene: [segs, targets].
Windows(scene, targets) ==
  LET wanted == SelectSeq(scene, LAMBDA s : s.id \in targets)
      ids(b) == {b[i].id : i \in DOMAIN b}
  IN CASE wanted = <<>> -> <<>>
       [] Fits(scene) -> <<[segs |-> scene, targets |-> targets]>>
       [] OTHER -> LET b == Batches(wanted)
                   IN [i \in DOMAIN b |-> [segs |-> BoundedWindow(scene, ids(b[i])), targets |-> ids(b[i])]]
-----------------------------------------------------------------------------
(* Properties of one input; MCAlgorithms says which inputs are tried *)

\* Neither the way the pauses are chosen nor the truncation to milliseconds
\* makes segments overlap or closes a gap by more than a millisecond; and the
\* timeline rebuilt for an old manifest is behind the stored one by at most a
\* millisecond per segment before, since every take is truncated by itself,
\* and ahead by at most one and what the pauses that are no whole number of
\* frames add up to, less than a frame each (_write_speech_stem,
\* _timeline_entries).
TimelineIsTrue(inputs) ==
  LET n == Len(inputs)
      stem == SpeechStem(inputs)
      line == StoredTimeline(stem)
      rebuilt == RebuiltTimeline(inputs, stem.pauses)
      gap(i) == IF inputs[i].scene = inputs[i + 1].scene THEN ParagraphPause ELSE ScenePause
  IN /\ \A i \in 1..(n - 1) : line[i + 1].start - line[i].end >= gap(i) - 1
     /\ \A i \in 1..n : /\ rebuilt[i].start - line[i].start \in (1 - i)..(1 + (1000 * (i - 1)) \div SampleRate)
                        /\ line[i].end <= Duration(stem) + RoomToneHead

\* A looped bed keeps its power at every frame, seams included
\* (_tile_with_crossfade: "no click, no level bump").
TilesKeepLevel(length, total, crossfade) ==
  \A x \in 0..(total - 1) :
    TilePower(x, length, total, crossfade) = Larger(1, Smaller(crossfade, length \div 2))

\* Every segment to be directed is the target of one window of its scene, seen
\* with the neighbours that still fit (_direction_context_windows).
EveryTargetHasItsWindow(scene, targets) ==
  LET w == Windows(scene, targets)
  IN /\ UNION {w[k].targets : k \in DOMAIN w} = targets
     /\ \A k, l \in DOMAIN w : k # l => w[k].targets \cap w[l].targets = {}
     /\ \A k \in DOMAIN w :
          LET first == Head(w[k].segs).id
              last == Last(w[k].segs).id
          IN /\ w[k].targets # {} /\ w[k].targets \subseteq first..last
             /\ w[k].segs = SubSeq(scene, first, last)
             /\ first > 1 => ~Fits(SubSeq(scene, first - 1, last))
             /\ last < Len(scene) => ~Fits(SubSeq(scene, first, last + 1))
=============================================================================
