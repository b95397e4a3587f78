---------------------------- MODULE SpeakerRules ----------------------------
(***************************************************************************)
(* How a line gets its speaker: the hints read off the lines around it,    *)
(* the deterministic decision, the windows the model reads, the vote on    *)
(* its answers, the repair of a two-sided conversation and the tier of a   *)
(* decision.  Confidences are whole percents; "" is no name.               *)
(*   A line is [id, scene, dialogue, quoted, speaker, sure, cue, pronoun,  *)
(* addressed, broken, chars]: what the parser labelled it with, whether it *)
(* is marked as dialogue and whether it looks quoted, and which name or    *)
(* pronoun stands by a verb of speech, which name it opens with and        *)
(* whether it breaks off.  A character is [id, name, aliases, gender].     *)
(***************************************************************************)
EXTENDS Integers, Sequences, FiniteSets, SequencesExt

Narrator == "narrator"
Unknown == "unknown"
Nobody == ""
Sure == 80          \* an explicit label of this confidence is believed
NarrationSure == 90
Mid == 80           \* ATTRIBUTION_MID_CONFIDENCE
VoteSamples == 3
Consensus == 3
RepairSure == 82
BatchSegments == 20
BatchChars == 5000

IgnoredSpeakers == {Narrator, Unknown, "speaker"}

Flattened(seqs) == FoldLeft(LAMBDA out, s : out \o s, <<>>, seqs)
\* The members of a sequence in order, each once.
Once(s) == FoldLeft(LAMBDA out, e : IF Contains(out, e) THEN out ELSE Append(out, e), <<>>, s)
Capped(n) == IF n < 0 THEN 0 ELSE IF n > 100 THEN 100 ELSE n
Greater(a, b) == IF a < b THEN b ELSE a
-----------------------------------------------------------------------------
(* Names *)

CharacterNames(c) == ({c.name} \cup c.aliases) \ {""}

\* _character_index: of characters that share a name the last one has it.
CharacterIndex(cast) ==
  LET of(n) == SelectSeq(cast, LAMBDA c : n \in CharacterNames(c))
  IN [n \in UNION {CharacterNames(c) : c \in ToSet(cast)} |-> Last(of(n))]

\* CharacterIndex.add: a name that is taken stays with its owner.
IndexAdd(index, c) ==
  [n \in DOMAIN index \cup CharacterNames(c) |-> IF n \in DOMAIN index THEN index[n] ELSE c]

\* The character found by name, or {}.
ByName(index, n) == IF n \in DOMAIN index THEN {index[n]} ELSE {}
Known(index) == {index[n] : n \in DOMAIN index}

\* _character_by_reference: an id, or a name.
ByReference(index, ref) ==
  IF \E c \in Known(index) : c.id = ref THEN {CHOOSE c \in Known(index) : c.id = ref}
  ELSE ByName(index, ref)

CanPropose(n) == n # "" /\ n \notin IgnoredSpeakers
-----------------------------------------------------------------------------
(* Hints; a hint is [reason, speaker, sure], and {} is none *)

Hint(reason, speaker, sure) == {[reason |-> reason, speaker |-> speaker, sure |-> sure]}

\* The line itself, the next one and the one before, as far as they exist.
Around(lines, i) == <<i>> \o (IF i < Len(lines) THEN <<i + 1>> ELSE <<>>) \o (IF i > 1 THEN <<i - 1>> ELSE <<>>)
SameScene(lines, i, at) == SelectSeq(at, LAMBDA j : lines[j].scene = lines[i].scene)

\* _named_speech_cue: the character the cue names, by display name.
NamedSpeechCue(line, index) ==
  {c.name : c \in {x \in Known(index) : line.cue # "" /\ line.cue \in CharacterNames(x)}}

CueHint(lines, i, index) ==
  LET cued == SelectSeq(SameScene(lines, i, Around(lines, i)),
                        LAMBDA j : NamedSpeechCue(lines[j], index) # {})
      longest(names) == CHOOSE n \in names : \A m \in names : Len(n) >= Len(m)
  IN IF cued = <<>> THEN {}
     ELSE Hint("speech_action_cue", longest(NamedSpeechCue(lines[cued[1]], index)), 76)

\* _confident_dialogue_speaker
ConfidentSpeaker(line) ==
  IF line.dialogue /\ line.speaker # "" /\ line.sure >= Sure THEN line.speaker ELSE ""

ActiveSpeakers(lines) ==
  Once(SelectSeq([i \in DOMAIN lines |-> ConfidentSpeaker(lines[i])], LAMBDA n : n # ""))

\* Variant of SceneActiveSpeakers: the speakers of the whole chapter.
ChapterActiveSpeakers(lines, i) == ActiveSpeakers(lines)

SceneActiveSpeakers(lines, i) ==
  ActiveSpeakers(SelectSeq(lines, LAMBDA l : l.scene = lines[i].scene))

PronounGender(p) == CASE p = "she" -> "feminine" [] p = "he" -> "masculine"
                      [] p = "they" -> "neutral" [] OTHER -> ""

PronounHint(lines, i, index) ==
  LET spoken == SelectSeq(SameScene(lines, i, Around(lines, i)), LAMBDA j : lines[j].pronoun # "")
      gender == IF spoken = <<>> THEN "" ELSE PronounGender(lines[spoken[1]].pronoun)
      fits == {c \in UNION {ByName(index, n) : n \in ToSet(SceneActiveSpeakers(lines, i))} :
                 c.gender = gender}
  IN IF gender = "" \/ Cardinality(fits) # 1 THEN {}
     ELSE Hint("pronoun_coreference", (CHOOSE c \in fits : TRUE).name, 70)

\* _nearby_turn_hint looks at the lines next to this one in any scene.
NearbyHint(lines, i) ==
  LET label(j) == IF j \in DOMAIN lines THEN lines[j].speaker ELSE ""
      heard == \E j \in ToSet(Around(lines, i)) : lines[j].pronoun # ""
      name == IF label(i - 1) # "" THEN label(i - 1) ELSE label(i + 1)
  IN IF name = "" \/ ~heard THEN {} ELSE Hint("nearby_dialogue_turn", name, 66)

\* _other_active_speaker
Other(pair, n) == IF n \in ToSet(pair) THEN {m \in ToSet(pair) : m # n} ELSE {}

InterruptionHint(lines, i, pair) ==
  LET before == SelectSeq(SubSeq(lines, 1, i - 1),
                          LAMBDA l : l.scene = lines[i].scene /\ ConfidentSpeaker(l) # "")
  IN IF before = <<>> \/ ~Last(before).broken THEN {}
     ELSE UNION {Hint("interruption_exchange", n, 68) : n \in Other(pair, Last(before).speaker)}

VocativeHint(lines, i, pair, index) ==
  LET names(n) == IF ByName(index, n) = {} THEN {n} ELSE UNION {CharacterNames(c) : c \in ByName(index, n)}
      called == SelectSeq(pair, LAMBDA n : lines[i].addressed \in names(n))
  IN IF called = <<>> THEN {}
     ELSE UNION {Hint("vocative_exchange", n, 67) : n \in Other(pair, called[1])}

\* _active_speaker_exchange_hint: only where exactly two people talk.
ExchangeHint(lines, i, index) ==
  LET pair == SceneActiveSpeakers(lines, i)
      interrupted == InterruptionHint(lines, i, pair)
  IN CASE Len(pair) # 2 -> {}
       [] Len(pair) = 2 /\ interrupted # {} -> interrupted
       [] OTHER -> VocativeHint(lines, i, pair, index)

\* _nearest_labeled_speakers, nearest first, each once.
Nearest(lines, i, at) ==
  LET labelled == SelectSeq(SameScene(lines, i, at), LAMBDA j : lines[j].dialogue /\ lines[j].speaker # "")
  IN Once([k \in DOMAIN labelled |-> lines[labelled[k]].speaker])

AlternationHint(lines, i) ==
  LET previous == Nearest(lines, i, [k \in 1..(i - 1) |-> i - k])
      following == Nearest(lines, i, [k \in 1..(Len(lines) - i) |-> i + k])
  IN IF Len(previous) < 2 \/ following = <<>> THEN {}
     ELSE IF following[1] \notin {previous[1], previous[2]} THEN {}
     ELSE Hint("turn_taking_alternation", previous[2], 64)

\* The first hint there is, in the order of their strength.
ContextHint(lines, i, index) ==
  LET hints == << CueHint(lines, i, index), PronounHint(lines, i, index), NearbyHint(lines, i),
                  ExchangeHint(lines, i, index), AlternationHint(lines, i) >>
      given == SelectSeq(hints, LAMBDA h : h # {})
  IN IF given = <<>> THEN {} ELSE given[1]

\* What the parser and the hints say of a line; who is the character, Nobody
\* without one.
RowOfHints(l, hints, index) ==
  LET hint == CHOOSE h \in hints : TRUE
      name == IF hints # {} THEN hint.speaker ELSE l.speaker
      found == ByName(index, name)
      who == IF found = {} THEN Nobody ELSE (CHOOSE c \in found : TRUE).id
      row(n, sure, ok) == [who |-> who, name |-> n, sure |-> sure, tally |-> <<>>,
                           method |-> "deterministic", status |-> IF ok THEN "approved" ELSE "needs_review"]
  IN CASE name = "" /\ ~l.dialogue -> row(Narrator, Greater(l.sure, NarrationSure), TRUE)
       [] name # "" /\ hints = {} -> row(name, l.sure, who # Nobody /\ l.sure >= Sure)
       [] hints # {} -> row(name, hint.sure, FALSE)
       [] OTHER -> row("", 0, FALSE)
Deterministic(lines, i, index) ==
  RowOfHints(lines[i], IF lines[i].speaker = "" /\ lines[i].quoted THEN ContextHint(lines, i, index) ELSE {}, index)

\* A confident label nobody is known by proposes a character.
Proposes(line, index) ==
  line.speaker # "" /\ ByName(index, line.speaker) = {} /\ line.sure >= Sure /\ CanPropose(line.speaker)
-----------------------------------------------------------------------------
(* Windows: sequences of the places of lines *)

Chars(lines, window) == FoldLeft(LAMBDA sum, i : sum + lines[i].chars, 0, window)
Fits(lines, window) == Len(window) <= BatchSegments /\ Chars(lines, window) <= BatchChars

\* _segment_batches
SegmentBatches(lines, targets) ==
  LET put(acc, i) ==
        LET last == Last(acc)
            full == \/ (last # <<>> /\ Chars(lines, last) + lines[i].chars > BatchChars)
                    \/ Len(last) >= BatchSegments
        IN IF full THEN Append(acc, <<i>>) ELSE [acc EXCEPT ![Len(acc)] = Append(@, i)]
  IN SelectSeq(FoldLeft(put, << <<>> >>, targets), LAMBDA b : b # <<>>)

Stretch(scene, a, b) == SubSeq(scene, a, b)

\* _bounded_scene_window: the stretch of the scene with the targets, grown by
\* a line to the left and one to the right for as long as it fits.
BoundedSceneWindow(lines, scene, targets) ==
  LET at == {k \in DOMAIN scene : scene[k] \in targets}
      grow[ab \in (1..Len(scene)) \X (1..Len(scene))] ==
        LET left == IF ab[1] > 1 /\ Fits(lines, Stretch(scene, ab[1] - 1, ab[2])) THEN ab[1] - 1 ELSE ab[1]
            right == IF ab[2] < Len(scene) /\ Fits(lines, Stretch(scene, left, ab[2] + 1))
                     THEN ab[2] + 1 ELSE ab[2]
        IN IF <<left, right>> = ab THEN ab ELSE grow[<<left, right>>]
      first == CHOOSE a \in at : \A b \in at : a <= b
      last == CHOOSE a \in at : \A b \in at : a >= b
      ends == grow[<<first, last>>]
  IN IF at = {} THEN <<>> ELSE Stretch(scene, ends[1], ends[2])

\* Variant of SceneContextWindows: a scene too long is cut at the batches.
SceneContextWindowsCut(lines, targets) ==
  LET scenes == Once([k \in DOMAIN targets |-> lines[targets[k]].scene])
      of(s) == SelectSeq(targets, LAMBDA i : lines[i].scene = s)
      windows(s) ==
        LET batches == SegmentBatches(lines, of(s))
        IN [b \in DOMAIN batches |-> [lines |-> batches[b], targets |-> ToSet(batches[b])]]
  IN Flattened([k \in DOMAIN scenes |-> windows(scenes[k])])

\* _scene_context_windows: a scene that fits is one window.
SceneContextWindows(lines, targets) ==
  LET scenes == Once([k \in DOMAIN targets |-> lines[targets[k]].scene])
      all(s) == SelectSeq([i \in DOMAIN lines |-> i], LAMBDA i : lines[i].scene = s)
      of(s) == SelectSeq(targets, LAMBDA i : lines[i].scene = s)
      windows(s) ==
        LET batches == SegmentBatches(lines, of(s))
        IN IF Fits(lines, all(s)) THEN << [lines |-> all(s), targets |-> ToSet(of(s))] >>
           ELSE [b \in DOMAIN batches |-> [lines |-> BoundedSceneWindow(lines, all(s), ToSet(batches[b])),
                                           targets |-> ToSet(batches[b])]]
  IN Flattened([k \in DOMAIN scenes |-> windows(scenes[k])])
-----------------------------------------------------------------------------
(* Votes; a vote is [key, sure], the key Narrator, Unknown or an id *)

Vote(key, sure) == [key |-> key, sure |-> sure]
Tally(votes) == [k \in {v.key : v \in ToSet(votes)} |-> Len(SelectSeq(votes, LAMBDA v : v.key = k))]
Leaders(votes) == {k \in DOMAIN Tally(votes) : \A m \in DOMAIN Tally(votes) : Tally(votes)[k] >= Tally(votes)[m]}

\* Variant of MajorityVote: a tie goes to the answer that came last.
MajorityVoteLast(votes) ==
  LET leaders == Leaders(votes)
      latest == IF votes = <<>> THEN Unknown ELSE Last(SelectSeq(votes, LAMBDA v : v.key \in leaders)).key
      count == IF votes = <<>> THEN 0 ELSE Tally(votes)[latest]
  IN IF votes = <<>> THEN [key |-> Unknown, sure |-> 0, method |-> "llm", tally |-> <<>>]
     ELSE [key |-> latest, sure |-> (100 * count) \div Len(votes),
           method |-> IF Len(votes) > 1 THEN "vote" ELSE "llm", tally |-> Tally(votes)]

\* majority_vote: a tie keeps the first answer as it was; else the share of
\* the votes for the winner is the confidence, of a single vote too.
MajorityVote(votes) ==
  LET leaders == Leaders(votes)
      winner == CHOOSE k \in leaders : TRUE
  IN CASE votes = <<>> -> [key |-> Unknown, sure |-> 0, method |-> "llm", tally |-> <<>>]
       [] votes # <<>> /\ Cardinality(leaders) # 1 ->
            [key |-> votes[1].key, sure |-> votes[1].sure, method |-> "llm", tally |-> Tally(votes)]
       [] OTHER -> [key |-> winner, sure |-> (100 * Tally(votes)[winner]) \div Len(votes),
                    method |-> IF Len(votes) > 1 THEN "vote" ELSE "llm", tally |-> Tally(votes)]

\* What is written for a decision: the narrator is always approved, a
\* character when the decision is sure or three votes agreed.
RowOfDecision(d, index) ==
  LET found == ByReference(index, d.key)
      c == CHOOSE x \in found : TRUE
      agreed == d.method = "vote" /\ \E k \in DOMAIN d.tally : d.tally[k] >= Consensus
      ok == d.key = Narrator \/ (found # {} /\ (d.sure >= Mid \/ agreed))
  IN [who |-> IF found = {} THEN Nobody ELSE c.id,
      name |-> IF d.key \in {Narrator, Unknown} \/ found = {} THEN d.key ELSE c.name,
      sure |-> d.sure, tally |-> d.tally, method |-> d.method,
      status |-> IF ok THEN "approved" ELSE "needs_review"]
-----------------------------------------------------------------------------
(* Alternation; a turn is [id, scene, name, sure, locked] *)

\* Variant of SceneRepairs: the next turn is compared with what was repaired.
SceneRepairsStale(turns, roster) ==
  LET other(n) == IF n = roster[1] THEN roster[2] ELSE roster[1]
      step(acc, t) ==
        LET expected == other(acc.previous)
            wrong == acc.settled /\ t.name # expected /\ t.sure < Mid /\ ~t.locked
        IN CASE t.name \notin ToSet(roster) -> [acc EXCEPT !.previous = "", !.settled = FALSE]
             [] t.name \in ToSet(roster) /\ acc.previous = "" -> [acc EXCEPT !.previous = t.name]
             [] OTHER -> [previous |-> t.name, settled |-> acc.settled \/ t.name = expected,
                          repairs |-> IF wrong THEN Append(acc.repairs, [t EXCEPT !.name = expected, !.sure = RepairSure])
                                      ELSE acc.repairs]
  IN FoldLeft(step, [previous |-> "", settled |-> FALSE, repairs |-> <<>>], turns).repairs

\* The turns of a scene of two that break an alternation once it is settled
\* and may be changed.
SceneRepairs(turns, roster) ==
  LET other(n) == IF n = roster[1] THEN roster[2] ELSE roster[1]
      step(acc, t) ==
        LET expected == other(acc.previous)
            wrong == acc.settled /\ t.name # expected /\ t.sure < Mid /\ ~t.locked
        IN CASE t.name \notin ToSet(roster) -> [acc EXCEPT !.previous = "", !.settled = FALSE]
             [] t.name \in ToSet(roster) /\ acc.previous = "" -> [acc EXCEPT !.previous = t.name]
             [] OTHER -> [previous |-> IF wrong THEN expected ELSE t.name,
                          settled |-> acc.settled \/ t.name = expected,
                          repairs |-> IF wrong THEN Append(acc.repairs, [t EXCEPT !.name = expected, !.sure = RepairSure])
                                      ELSE acc.repairs]
  IN FoldLeft(step, [previous |-> "", settled |-> FALSE, repairs |-> <<>>], turns).repairs

AlternationRepairs(turns) ==
  LET scenes == Once([i \in DOMAIN turns |-> turns[i].scene])
      of(s) == SelectSeq(turns, LAMBDA t : t.scene = s)
      roster(s) == Once([i \in DOMAIN of(s) |-> of(s)[i].name])
  IN Flattened([k \in DOMAIN scenes |->
       IF Len(roster(scenes[k])) = 2 /\ Len(of(scenes[k])) >= 3
       THEN SceneRepairs(of(scenes[k]), roster(scenes[k])) ELSE <<>>])
-----------------------------------------------------------------------------
(* Tiers *)

StageThresholds == [attribution |-> <<90, 65>>, cast |-> <<90, 72>>, direction |-> <<88, 65>>,
                    structure |-> <<85, 65>>]

\* _calibrated_confidence: a vote counts for what agreed in it.
Calibrated(sure, tally) ==
  LET counts == [k \in DOMAIN tally |-> tally[k]]
      total == FoldLeft(LAMBDA sum, k : sum + counts[k], 0, SetToSeq(DOMAIN counts))
      most == CHOOSE n \in {counts[k] : k \in DOMAIN counts} : \A k \in DOMAIN counts : counts[k] <= n
  IN IF DOMAIN tally = {} THEN Capped(sure) ELSE (100 * most) \div total

Classify(stage, sure, locked, tally) ==
  LET calibrated == Calibrated(sure, tally)
      tier == CASE locked -> "none"
                [] ~locked /\ calibrated >= StageThresholds[stage][1] -> "high"
                [] ~locked /\ calibrated < StageThresholds[stage][2] -> "flag"
                [] OTHER -> "mid"
  IN [tier |-> tier, accepted |-> tier \in {"high", "mid"}, queue |-> tier = "flag"]
-----------------------------------------------------------------------------
(* Properties of one input; MCAlgorithms says which inputs are tried *)

\* Apart from the hint of a neighbouring line (NearbyHint), a hint names a
\* label of this scene, or the character the cast knows by a label or by a cue
\* of this scene (the hints of speaker_attribution).
HintsStayInScene(lines, cast) ==
  LET index == CharacterIndex(cast)
      heard(i) == {lines[j].speaker : j \in {k \in DOMAIN lines : lines[k].scene = lines[i].scene}}
      told(i) == {lines[j].cue : j \in {k \in DOMAIN lines : lines[k].scene = lines[i].scene}}
  IN \A i \in DOMAIN lines : \A h \in ContextHint(lines, i, index) :
       \/ h.reason = "nearby_dialogue_turn"
       \/ h.speaker \in heard(i) \ {""}
       \/ \E c \in ToSet(cast) : h.speaker = c.name /\ CharacterNames(c) \cap (heard(i) \cup told(i)) # {}

\* Every line asked about is a target of one window, the window is a stretch
\* of its scene that no earlier line could join, and it fits unless the targets
\* it was cut for are that far apart (_scene_context_windows).
WindowsAskOnce(windows, lines, targets) ==
  LET scene(w) == SelectSeq([i \in DOMAIN lines |-> i], LAMBDA i : lines[i].scene = lines[w.lines[1]].scene)
      place(w, i) == CHOOSE k \in DOMAIN scene(w) : scene(w)[k] = i
      before(w) == IF place(w, w.lines[1]) = 1 THEN <<>> ELSE <<scene(w)[place(w, w.lines[1]) - 1]>>
      spans(w) == {w.lines[1], Last(w.lines)} \subseteq w.targets
  IN /\ \A t \in ToSet(targets) : Cardinality({k \in DOMAIN windows : t \in windows[k].targets}) = 1
     /\ \A k \in DOMAIN windows :
          LET w == windows[k]
          IN /\ w.targets \subseteq ToSet(w.lines)
             /\ w.lines = SubSeq(scene(w), place(w, w.lines[1]), place(w, Last(w.lines)))
             /\ Fits(lines, w.lines) \/ spans(w)
             /\ before(w) # <<>> => ~Fits(lines, before(w) \o w.lines)

\* Whatever order the extra answers come in, the winner is the same; what wins
\* has more votes than anything else, and without that the first answer stays
\* with its own confidence (majority_vote).
VotesAreFair(votes) ==
  LET d == MajorityVote(votes)
      swapped == IF Len(votes) < 3 THEN votes
                 ELSE <<votes[1]>> \o Reverse(SubSeq(votes, 2, Len(votes)))
  IN /\ MajorityVote(swapped).key = d.key
     /\ votes # <<>> => \/ (\A k \in DOMAIN Tally(votes) \ {d.key} : Tally(votes)[k] < Tally(votes)[d.key])
                        \/ (d.key = votes[1].key /\ d.sure = votes[1].sure)

\* Repairs leave what a person locked and what was sure, and a second pass
\* over the repaired turns finds nothing left to repair (alternation_repairs).
RepairsSettle(turns) ==
  LET repairs == AlternationRepairs(turns)
      fixed(t) == {r \in ToSet(repairs) : r.id = t.id}
      after == [i \in DOMAIN turns |-> IF fixed(turns[i]) = {} THEN turns[i] ELSE CHOOSE r \in fixed(turns[i]) : TRUE]
  IN /\ \A i \in DOMAIN turns : fixed(turns[i]) # {} => ~turns[i].locked /\ turns[i].sure < Mid
     /\ AlternationRepairs(after) = <<>>
=============================================================================
