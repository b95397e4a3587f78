------------------------------ MODULE AudioQa ------------------------------
(***************************************************************************)
(* What the program decides from one decoded audio file: the silent and    *)
(* dead-air ranges of the analysis, the QA findings of a segment or        *)
(* chapter, the readiness checks of a chapter, and the verdict of the      *)
(* speech-recognition check.  Levels are whole decibels, times whole       *)
(* milliseconds; sample arithmetic and wording are left out.               *)
(***************************************************************************)
EXTENDS Integers, Sequences, FiniteSets, SequencesExt

WindowMs == 500
DeadAirMinRunMs == 3000
ClippingThreshold == 8
ExcessiveSilenceMs == 5000
LowLoudness == -30
HighLoudness == -14
PeakCeiling == -3
TargetLufs == -19
LufsTolerance == 1
AsrMinTokens == 4

Least(a, b) == IF a < b THEN a ELSE b
Abs(x) == IF x < 0 THEN -x ELSE x
Greatest(S) == CHOOSE x \in S : \A y \in S : y <= x
-----------------------------------------------------------------------------
(* audio_analysis *)

\* The span of the i-th window; the last one ends with the file.
Window(i, durationMs) == <<(i - 1) * WindowMs, Least(i * WindowMs, durationMs)>>

MergeRuns(bounds, flags) ==
  LET step(acc, i) ==
        CASE flags[i] /\ acc.run = <<>> -> [acc EXCEPT !.run = bounds[i]]
          [] flags[i] /\ acc.run # <<>> -> [acc EXCEPT !.run[2] = bounds[i][2]]
          [] ~flags[i] /\ acc.run # <<>> ->
               [out |-> Append(acc.out, acc.run), run |-> <<>>]
          [] OTHER -> acc
      last == FoldLeft(step, [out |-> <<>>, run |-> <<>>], [i \in DOMAIN flags |-> i])
  IN IF last.run = <<>> THEN last.out ELSE Append(last.out, last.run)

\* Silent windows in, silent and dead-air ranges out.  A run touching the
\* head or the tail of the file is room tone, however long.
SilenceWindows(flags, durationMs) ==
  LET runs == MergeRuns([i \in DOMAIN flags |-> Window(i, durationMs)], flags)
  IN [silence |-> runs,
      dead |-> SelectSeq(runs, LAMBDA r : /\ r[1] > 0
                                          /\ r[2] < durationMs
                                          /\ r[2] - r[1] >= DeadAirMinRunMs)]

\* analyze_wav: an empty file has no ranges and the floor for its levels.
Analysis(flags, durationMs, rms, peak, clipped) ==
  LET w == SilenceWindows(flags, durationMs)
  IN IF flags = <<>>
     THEN [duration |-> durationMs, rms |-> -120, peak |-> -120, clipped |-> 0, dead |-> <<>>]
     ELSE [duration |-> durationMs, rms |-> rms, peak |-> peak,
           clipped |-> clipped, dead |-> w.dead]
-----------------------------------------------------------------------------
(* review: QA findings *)

RangeLengths(a) == {a.dead[i][2] - a.dead[i][1] : i \in DOMAIN a.dead}
DeadAirTotal(a) == FoldLeft(LAMBDA sum, r : sum + r[2] - r[1], 0, a.dead)
DeadAirLongest(a) == Greatest(RangeLengths(a) \cup {0})

AudioRules(file, a, declaredMs, textLen) ==
  LET fires == [
        very_short_duration |-> a.duration < 250,
        duration_mismatch   |-> Abs(a.duration - declaredMs) > 50,
        clipping            |-> a.clipped > ClippingThreshold,
        excessive_silence   |-> /\ a.duration > 0
                                /\ \/ DeadAirTotal(a) * 5 > a.duration
                                   \/ DeadAirLongest(a) >= ExcessiveSilenceMs,
        dead_air            |-> a.dead # <<>>,
        low_loudness        |-> a.rms < LowLoudness,
        high_loudness       |-> a.rms > HighLoudness,
        truncation_suspected |-> textLen > 40 /\ a.duration * 60 < textLen * 1000]
  IN CASE file = "missing" -> {<<"missing_audio", "blocking">>}
       [] file = "corrupt" -> {<<"corrupt_audio", "blocking">>}
       [] OTHER -> {<<r, "warning">> : r \in {x \in DOMAIN fires : fires[x]}}

\* qa_chapter; lufs is {} for a chapter that was not mastered.
ChapterFindings(file, a, declaredMs, lufs) ==
  AudioRules(file, a, declaredMs, 0) \cup
  {<<"chapter_loudness_out_of_range", "warning">> :
     x \in {y \in lufs : Abs(y - TargetLufs) > LufsTolerance}}
-----------------------------------------------------------------------------
(* readiness: the checks of one assembled chapter, as {<<check, severity>>}
   of those that fail *)

ReadinessAudio(file, a, declaredMs, lufs) ==
  LET unreadable == \/ file # "ok"
                    \/ Abs(a.duration - declaredMs) > 100
      decoded == file = "ok"
  IN {<<"chapter_audio", "blocking">> : x \in {y \in {1} : unreadable}}
     \cup {<<"chapter_audio_hot", "warning">> : x \in {y \in {1} : decoded /\ a.peak > PeakCeiling}}
     \cup {<<"chapter_audio_dead_air", "warning">> : x \in {y \in {1} : decoded /\ a.dead # <<>>}}
     \cup {<<"chapter_loudness", "warning">> :
             x \in {y \in {1} : decoded /\ ~\E z \in lufs : Abs(z - TargetLufs) <= LufsTolerance}}
-----------------------------------------------------------------------------
(* asr_verification *)

\* Variant of EditDistance: the row above is read one place too far left.
EditDistanceShifted(left, right) ==
  LET fill(word, prev) ==
        FoldLeft(LAMBDA row, j :
                   Append(row, LET sub == prev[j] + (IF word = right[j] THEN 0 ELSE 1)
                               IN Least(Least(row[j] + 1, prev[j] + 1), sub)),
                 <<prev[1] + 1>>, [j \in DOMAIN right |-> j])
  IN Last(FoldLeft(LAMBDA prev, i : fill(left[i], prev),
                   [j \in 1..(Len(right) + 1) |-> j - 1], [i \in DOMAIN left |-> i]))

\* Rows of the edit-distance table, one per expected word.
EditDistance(left, right) ==
  LET fill(word, prev) ==
        FoldLeft(LAMBDA row, j :
                   Append(row, LET sub == prev[j] + (IF word = right[j] THEN 0 ELSE 1)
                               IN Least(Least(row[j] + 1, prev[j + 1] + 1), sub)),
                 <<prev[1] + 1>>, [j \in DOMAIN right |-> j])
  IN Last(FoldLeft(LAMBDA prev, i : fill(left[i], prev),
                   [j \in 1..(Len(right) + 1) |-> j - 1], [i \in DOMAIN left |-> i]))

\* score_word_match: a ratio of at least 0.90 passes.
WordMatch(expected, heard) ==
  CASE Len(expected) < AsrMinTokens -> "skipped_short_text"
    [] 10 * EditDistance(expected, heard) <= Len(expected) -> "passed"
    [] OTHER -> "failed"

\* LocalAsrVerifier.verify; the tool may fail, or write JSON nobody can read.
AsrVerdict(expected, configured, tool, heard) ==
  CASE expected = <<>> -> "skipped_short_text"
    [] ~configured -> "skipped_unconfigured"
    [] tool # "ok" -> "error"
    [] OTHER -> WordMatch(expected, heard)

\* _qa_asr_segment: the finding a verdict leaves on the segment, if any.
AsrFinding(verdict) ==
  CASE verdict = "failed" -> {"asr_word_mismatch"}
    [] verdict = "error" -> {"asr_verification_error"}
    [] OTHER -> {}
-----------------------------------------------------------------------------
(* Properties of one input; MCAlgorithms says which inputs are tried *)

\* The silent ranges are exactly the maximal runs of silent windows, one still
\* open at the end of the file included (_merge_runs).
MergedRunsAreMaximal(flags) ==
  LET n == Len(flags)
      quiet(i) == i \in 1..n /\ flags[i]
      maximal == {m \in (1..n) \X (1..n) :
                    /\ m[1] <= m[2] /\ \A k \in m[1]..m[2] : quiet(k)
                    /\ ~quiet(m[1] - 1) /\ ~quiet(m[2] + 1)}
  IN /\ ToSet(SilenceWindows(flags, n * WindowMs - 1).silence) =
          {<<(m[1] - 1) * WindowMs, Least(m[2] * WindowMs, n * WindowMs - 1)>> : m \in maximal}
     /\ Len(SilenceWindows(flags, n * WindowMs - 1).silence) = Cardinality(maximal)

\* The row-by-row table is the Levenshtein distance: the least number of words
\* replaced, dropped or added (_edit_distance).
Levenshtein(said, heard) ==
  LET lev[i \in 0..Len(said), j \in 0..Len(heard)] ==
        IF i = 0 \/ j = 0 THEN i + j
        ELSE Least(Least(lev[i - 1, j] + 1, lev[i, j - 1] + 1),
                   lev[i - 1, j - 1] + (IF said[i] = heard[j] THEN 0 ELSE 1))
  IN lev[Len(said), Len(heard)]
EditDistanceIsLevenshtein(said, heard) == EditDistance(said, heard) = Levenshtein(said, heard)

\* How much misreading leaves a finding, wrong being the least number of words
\* dropped, added or replaced: none in a text of three words or fewer, a single
\* word in one of four to nine, and from ten words on only more than one word
\* in ten; without a tool nothing is blamed (score_word_match, verify,
\* _qa_asr_segment).
AsrCatchesMisreading(said, heard, wrong) ==
  LET finding == AsrFinding(AsrVerdict(said, TRUE, "ok", heard))
  IN /\ Len(said) <= 3 \/ wrong = 0 => finding = {}
     /\ Len(said) \in 4..9 /\ wrong > 0 => finding = {"asr_word_mismatch"}
     /\ Len(said) >= 10 => finding = IF wrong <= Len(said) \div 10 THEN {} ELSE {"asr_word_mismatch"}
     /\ AsrFinding(AsrVerdict(said, FALSE, "ok", heard)) = {}

\* Audio that readiness refuses to export has an issue of its own from the QA
\* of the render: the two decide by different thresholds, of the same file.
RefusedAudioWasFlagged(file, duration, declared) ==
  LET a == Analysis(<<FALSE>>, duration, -20, -4, 0)
  IN (\E f \in ReadinessAudio(file, a, declared, {-19}) : f[2] = "blocking")
       => ChapterFindings(file, a, declared, {-19}) # {}
=============================================================================
