---------------------------- MODULE MCAlgorithms ----------------------------
(***************************************************************************)
(* The algorithms that keep no state, tried on every input of small sets:  *)
(* one input is given, and nothing happens to it.                          *)
(***************************************************************************)
EXTENDS Integers, Sequences, FiniteSets, SequencesExt, TLC

Audio == INSTANCE AudioQa
Sound == INSTANCE SoundMix
Cast == INSTANCE CastRules
Voices == INSTANCE CastSolver
Speakers == INSTANCE SpeakerRules
Book == INSTANCE ChapterParse
Text == INSTANCE SegmentParse
Source == INSTANCE SourceText
Map == INSTANCE StructureMap WITH ChunkChars <- 4, OverlapChars <- 1, MatchChars <- 1, MaxRepairs <- 2

VARIABLE given   \* one input, and what it is an input of

UpTo(S, n) == UNION {[1..k -> S] : k \in 0..n}

\* A text of different words, and the same text with one way of going wrong at
\* some of its words: as many words differ, since no word comes twice.
Said(length) == [i \in 1..length |-> i]
Misread(length, how, at) ==
  FlattenSeq([i \in 1..length |-> CASE i \notin at -> <<i>>
                                    [] i \in at /\ how = "dropped" -> <<>>
                                    [] i \in at /\ how = "added" -> <<i, -i>>
                                    [] OTHER -> <<-i>>])

\* What QA, readiness and speech recognition conclude from the same audio.
VerdictsAreSound ==
  /\ given.of = "windows" => Audio!MergedRunsAreMaximal(given.flags)
  /\ given.of = "words" => /\ Audio!EditDistanceIsLevenshtein(given.said, given.heard)
                           /\ Audio!AsrCatchesMisreading(given.said, given.heard,
                                                         Audio!Levenshtein(given.said, given.heard))
  /\ given.of = "long" => Audio!AsrCatchesMisreading(Said(given.length), Misread(given.length, given.how, given.at),
                                                     Cardinality(given.at))
  /\ given.of = "audio" =>
       Audio!RefusedAudioWasFlagged(given.file, given.duration, given.duration + given.slip)

AudioInput ==
  \/ given \in [of : {"windows"}, flags : UpTo(BOOLEAN, 7) \ {<<>>}]
  \/ given \in [of : {"words"}, said : UpTo({"a", "b"}, 4), heard : UpTo({"a", "b"}, 4)]
  \/ \E length \in {3, 4, 9, 10, 11, 20}, how \in {"dropped", "added", "replaced"} :
       given \in [of : {"long"}, length : {length}, how : {how},
                  at : UNION {kSubset(k, 1..length) : k \in 0..1} \cup {{1, length}, {1, 2}, {1, 2, length}}]
  \/ given \in [of : {"audio"}, file : {"ok", "missing", "corrupt"}, duration : {0, 300, 1000},
                slip : {0, 40, 60, 100, 120}]
-----------------------------------------------------------------------------
Profiles ==
  LET base == [place |-> <<"forest", "none", "night">>, mood |-> "tense", tension |-> 90, noSfx |-> FALSE,
               events |-> <<[type |-> "knock", sentence |-> <<"he", "knocked">>, confidence |-> 90],
                            [type |-> "thunder", sentence |-> <<"thunder">>, confidence |-> 80]>>,
               confidence |-> 70, source |-> "local_llm"]
  IN {Sound!NoProfile, base, [base EXCEPT !.tension = 20], [base EXCEPT !.place[2] = "rain", !.tension = 50],
      [base EXCEPT !.events = <<@[1], @[1]>>]}

\* Scenes of a paragraph and a line of dialogue, with or without a timeline.
Segments(timed, quiet) ==
  << [id |-> 1, words |-> <<"far", "thunder">>, timed |-> timed, start |-> 0, end |-> 900,
      noSfx |-> quiet, dialogue |-> FALSE],
     [id |-> 2, words |-> <<"then", "he", "knocked">>, timed |-> timed, start |-> 1250, end |-> 2150,
      noSfx |-> FALSE, dialogue |-> TRUE] >>

\* takes: <<frames, pause asked for>>; the first cut takes are one scene.
Stem(takes, cut) ==
  [i \in DOMAIN takes |-> [segment |-> i, scene |-> IF i <= cut THEN 1 ELSE 2, frames |-> takes[i][1],
                           before |-> takes[i][2], after |-> 0]]

\* What is planned, laid out and mixed is what the rules of each ask for.
LayoutIsSound ==
  /\ given.of = "chapter" =>
       LET segs == Segments(given.timed, given.quiet)
           holds(plan) == /\ Sound!PlanKeepsItsRules(plan, given.profiles, segs, given.limit)
                          /\ Sound!CuesAreApart(given.mode, plan.cues, given.profiles)
       IN holds(Sound!PlanChapter(<<1, 2, 3>>, given.profiles, <<segs, segs, segs>>,
                                  [mode |-> given.mode, opening |-> TRUE, peak |-> TRUE,
                                   limit |-> given.limit]))
  /\ given.of = "stem" => Sound!TimelineIsTrue(Stem(given.takes, given.cut))
  /\ given.of = "bed" => Sound!TilesKeepLevel(given.length, given.total, given.crossfade)
  /\ given.of = "scene" =>
       Sound!EveryTargetHasItsWindow([i \in DOMAIN given.chars |-> [id |-> i, chars |-> given.chars[i]]],
                                     given.targets \cap DOMAIN given.chars)

SoundInput ==
  \/ given \in [of : {"chapter"}, profiles : [1..3 -> Profiles], mode : {"light_cinematic", "dramatized"},
                limit : 0..2, timed : BOOLEAN, quiet : BOOLEAN]
  \/ given \in [of : {"stem"}, takes : UpTo({1, 441, 12345, 88641} \X {0, 355, 900, 9000}, 3), cut : 0..3]
  \/ given \in [of : {"stem"}, takes : [1..100 -> {<<441, 355>>}] \cup [1..100 -> {<<44, 351>>}], cut : {0, 50}]
  \/ given \in [of : {"bed"}, length : 1..7, total : 1..24, crossfade : 0..5]
  \/ given \in [of : {"scene"}, chars : UpTo({100, 2400, 4000, 6000}, 4), targets : SUBSET (1..4)]
-----------------------------------------------------------------------------
Used == {<<"holmes">>, <<"mr", "holmes">>, <<"mrs", "holmes">>, <<"mary", "watson">>, <<"wattson">>}
Spoken(id, name, guess, segment, window, confidence) ==
  Cast!Mention(id, name, guess, "speaker", segment, window, confidence)
MentionsOf(names, window) ==
  LET order == SetToSeq(names)
  IN [i \in DOMAIN order |-> Spoken(<<i, 1>>, order[i], order[i], i, <<"castwin", window[i]>>, 60)]
GroupOf(g) ==
  [i \in 1..3 |-> Spoken(<<"x", i>>, g.names[i], g.names[g.guesses[i]], (i + 1) \div 2,
                         <<IF i = 2 THEN "det" ELSE "castwin", 1>>, 60)]
Alike(p) == [q \in {{a, b} : a, b \in Used} |-> IF q \in p THEN 90 ELSE 0]

Male == <<"gender", "male">>
Female == <<"gender", "female">>
Known(id, name, aliases, traits) ==
  [id |-> id, name |-> name, canonical |-> name, aliases |-> aliases, traits |-> traits, relations |-> {},
   segment |-> id, into |-> 0, locked |-> FALSE, confidence |-> 80]
Index == {Known(1, n, a, t) : n \in {<<"holmes">>, <<"sherlock", "holmes">>, <<"elizabeth">>},
                              a \in {<<>>, << <<"mr", "holmes">> >>}, t \in {{}, {Male}}}
CandidateOf(g) ==
  [Cast!CandidateFrom(<<Spoken(<<"x", 1>>, g.name, g.name, 3, <<"castwin", 1>>, g.confidence)>>)
     EXCEPT !.traits = g.traits]

Voice(id, gender, timbre, pitch) ==
  [id |-> id, gender |-> gender, age |-> "unknown", timbre |-> timbre, pitch |-> pitch, bright |-> 500,
   licence |-> "commercial", facets |-> {}]
Catalogue == {Voice(1, "feminine", {"clear"}, 200), Voice(2, "masculine", {"clear"}, 110),
              Voice(3, "masculine", {"warm"}, 120), Voice(4, "unknown", {"soft"}, 150)}
Says == {3, 60, 1200}
SpecsOf(g) ==
  Voices!Specs([i \in 1..3 |-> [by |-> i, words |-> g.words[i], scene |-> IF i = 3 THEN g.scene ELSE 1]],
               {[id |-> i, traits |-> IF i = 3 THEN {} ELSE g.traits[i], role |-> "supporting",
                 styles |-> IF i = 2 THEN {"warm"} ELSE {"bright"}] : i \in 1..3})
\* A crowd in which everybody says as much as the others, in a scene of one's
\* own: the first two of nine to thirteen are majors.
CrowdOf(people) ==
  LET lines == [i \in 1..people |-> [by |-> i, words |-> 60, scene |-> i]]
      who(i) == [id |-> i, traits |-> {}, role |-> "supporting", styles |-> {}]
  IN [i \in 1..people |-> Voices!CastingSpec(who(i), lines, IF i <= 2 THEN "major" ELSE "minor")]
Narrating(g) == CHOOSE v \in g.voices : v.id = g.narrator

\* Who is taken for whom, and which voice everybody gets.
CastIsSound ==
  /\ given.of = "clusters" =>
       LET told == MentionsOf(given.names, given.window)
           apart == Cast!CannotLink(Cast!AggregateForms(told), given.confirmed, given.rejected)
           obeys(clusters, made) ==
             Cast!ClustersObeyRulings(told, Alike(given.alike), given.confirmed, clusters, made, apart)
       IN obeys(Cast!ClusterMentions(told, Alike(given.alike), given.confirmed, given.rejected),
                Cast!ClusterCandidates(told, Alike(given.alike), given.confirmed, given.rejected))
  /\ given.of = "scene" => Cast!WindowsCover(given.chars, 6000)
  /\ given.of = "groups" => 
       LET kept == Cast!FilterMentions(GroupOf(given), given.matter)
       IN Cast!GroupsAreWhole(kept, Cast!Candidates(kept))
  /\ given.of = "decision" =>
       LET index == {given.one, [given.two EXCEPT !.id = 2, !.segment = 2]}
           rejected == IF given.rejected THEN {{given.name, given.one.name}} ELSE {}
           safe(cand) == Cast!DecisionIsSafe(Cast!DecisionForCandidate(cand, index, rejected, {}), cand, index, rejected)
       IN safe(CandidateOf(given))
  /\ given.of = "casting" =>
       LET specs == SpecsOf(given)
       IN Voices!EveryoneIsVoiced(Voices!CastAll(specs, given.voices, Narrating(given), given.locked),
                                  specs, given.voices, Narrating(given), given.locked)
  /\ given.of = "crowd" =>
       LET specs == CrowdOf(given.people)
       IN Voices!EveryoneIsVoiced(Voices!CastAll(specs, given.voices, Narrating(given), {}),
                                  specs, given.voices, Narrating(given), {})

CastInput ==
  \/ given \in [of : {"clusters"}, names : UNION {kSubset(k, Used) : k \in 2..4},
                window : {<<1, 1, 2, 2>>, <<1, 2, 1, 2>>, <<1, 2, 3, 4>>},
                alike : {{}, {{<<"wattson">>, <<"mary", "watson">>}}},
                confirmed : {{}, {{<<"mr", "holmes">>, <<"mrs", "holmes">>}}},
                rejected : {{}, {{<<"holmes">>, <<"mr", "holmes">>}}}]
  \/ given \in [of : {"groups"},
                names : [1..3 -> {<<"holmes">>, <<"mr", "holmes">>, <<"sherlock", "holmes">>, <<"he">>,
                                  <<"the", "captain">>, <<"liz">>}],
                guesses : {<<1, 2, 3>>, <<3, 2, 3>>, <<2, 2, 1>>}, matter : {{}, {2}}]
  \/ given \in [of : {"decision"}, one : Index, two : Index,
                name : {<<"holmes">>, <<"mr", "holmes">>, <<"sherlock", "holmes">>, <<"liz">>},
                confidence : {60, 80}, traits : {{}, {Female}}, rejected : BOOLEAN]
  \/ /\ given \in [of : {"casting"}, words : [1..3 -> Says], scene : {1, 2},
                    traits : {{}, {Male}, {Female}} \X {{}, {Male}}, voices : SUBSET Catalogue,
                    narrator : 1..4, locked : {{}, {2}}]
     /\ \E v \in given.voices : v.id = given.narrator
  \/ /\ given \in [of : {"crowd"}, people : {9, 13}, voices : UNION {kSubset(k, Catalogue) : k \in 1..3},
                    narrator : {1, 4}]
     /\ \E v \in given.voices : v.id = given.narrator
-----------------------------------------------------------------------------
Line(speaker, cue, pronoun, addressed, broken) ==
  [dialogue |-> cue = "" /\ pronoun = "", quoted |-> cue = "" /\ pronoun = "", speaker |-> speaker, sure |-> 90,
   cue |-> cue, pronoun |-> pronoun, addressed |-> addressed, broken |-> broken, chars |-> 100]
TalkLines == {Line("mara", "", "", "", FALSE), Line("theo", "", "", "", FALSE), Line("theo", "", "", "", TRUE),
              Line("", "", "", "", FALSE), Line("", "", "", "mara", FALSE), Line("", "miss reyes", "", "", FALSE),
              Line("", "", "he", "", FALSE)}
Company == << [id |-> "c1", name |-> "mara", aliases |-> {"miss reyes"}, gender |-> "feminine"],
              [id |-> "c2", name |-> "theo", aliases |-> {}, gender |-> "masculine"] >>
InScenes(lines, cut) == [i \in DOMAIN lines |-> lines[i] @@ [id |-> i, scene |-> IF i <= cut THEN 1 ELSE 2]]
LongLines(chars, cut) ==
  InScenes([i \in DOMAIN chars |-> [Line("", "", "", "", FALSE) EXCEPT !.chars = chars[i]]], cut)
Turns(said) ==
  [i \in DOMAIN said |-> [id |-> i, scene |-> 1, name |-> said[i][1], sure |-> IF said[i][2] = "sure" THEN 90 ELSE 50,
                          locked |-> said[i][2] = "locked"]]

\* Who is taken to say a line, and on what ground.
SpeakersAreSound ==
  /\ given.of = "talk" => Speakers!HintsStayInScene(InScenes(given.lines, given.cut), Company)
  /\ given.of = "asked" =>
       LET lines == LongLines(given.chars, given.cut)
           targets == SetToSortSeq(given.targets \cap DOMAIN given.chars, <)
       IN Speakers!WindowsAskOnce(Speakers!SceneContextWindows(lines, targets), lines, targets)
  /\ given.of = "ballot" => Speakers!VotesAreFair(given.votes)
  /\ given.of = "turns" => Speakers!RepairsSettle(Turns(given.said))

SpeakerInput ==
  \/ given \in [of : {"talk"}, lines : [1..4 -> TalkLines], cut : {2, 4}]
  \/ given \in [of : {"asked"}, chars : [1..5 -> {900, 2400}], targets : SUBSET (1..5), cut : {2, 5}]
  \/ given \in [of : {"ballot"}, votes : UpTo([key : {"c1", "c2", "narrator"}, sure : {50, 90}], 4)]
  \/ given \in [of : {"turns"}, said : UpTo({"mara", "theo"} \X {"sure", "unsure", "locked"}, 5)]
-----------------------------------------------------------------------------
BookLine(look, chars, anchor) == [look |-> look, chars |-> chars, anchor |-> anchor]
BookLines == {BookLine("blank", 0, ""), BookLine("chapter", 9, "one"), BookLine("matter", 8, "contents"),
              BookLine("mark", 9, "one"), BookLine("deep", 9, "deep"), BookLine("rule", 3, "* * *"),
              BookLine("title", 10, "one"), BookLine("later", 5, "later"), BookLine("shift", 30, "then"),
              BookLine("prose", 130, "rain")}
Signal(anchor, level) == [anchor |-> anchor, level |-> level]
SignalLists == {<<>>, <<Signal("one", 1), Signal("one", 1)>>,
                <<Signal("later", 1), Signal("rain", 2), Signal("gone", 0)>>}

Scene(pieces) ==
  {s \in pieces : s # <<>> /\ s[1] # "/" /\ Last(s) # "/" /\ ~\E i \in 2..Len(s) : s[i] = "/" /\ s[i - 1] = "/"}
Phrases == {<<"q", "w", "q">>, <<"t", ".">>, <<"n", ".">>, <<"/">>, <<"<", "w", "/", "w", ".", ">">>}
Pieces == UpTo({"w", ".", "q", "/", "t"}, 5) \cup UpTo({"w", "the", ".", ":", "/"}, 5)
            \cup UpTo({"w", "Mr.", ".", "<", ">"}, 5) \cup UpTo({"[1]", "[b]", "/", "q", "w"}, 4)
            \cup UpTo({"w", ","}, 7)
            \cup {FoldLeft(LAMBDA a, b : a \o b, <<>>, x) : x \in UpTo(Phrases, 5)}

Claim(kind, offset, sure) == [kind |-> kind, offset |-> offset, sure |-> sure, by |-> 0]
Answer(claims) == [failed |-> FALSE, claims |-> claims]
Failed == [failed |-> TRUE, claims |-> <<>>]
\* What the model says of a chunk, and what it says when it is asked again.
ChunkAnswers == {Failed, Answer(<<>>), Answer(<<Claim("chapter", 0, 50), Claim("scene", 3, 50)>>),
                 Answer(<<Claim("scene", 1, 50), Claim("chapter", 2, 90), Claim("title", 1, 90)>>),
                 Answer(<<Claim("chapter", 9, 50), Claim("chapter", 1, 90), Claim("chapter", -1, 70)>>),
                 Answer(<<Claim("scene", 4, 90), Claim("scene", 3, 60), Claim("scene", 2, 60)>>)}
Pad(answers) == answers @@ [i \in 5..9 |-> Answer(<<>>)]
SeamAnswers == {Failed, Answer(<<Claim("chapter", 3, 50), Claim("scene", 6, 90)>>)}
Manuscripts == {<<"w", "/", "w", "w", "w", "/", "w", "w", "/", "w">>, <<"/", "w", "/", "w", "w", "w", "w", "w", "w">>,
                <<"w", "w", "w", "w", "w", "w", "/">>}
Found(text) ==
  << [start |-> 0, end |-> 4, scenes |-> <<[from |-> 0, to |-> 1], [from |-> 2, to |-> 4]>>],
     [start |-> 4, end |-> Len(text), scenes |-> <<[from |-> 4, to |-> Len(text)]>>] >>

\* The words of a raw text are all different, or all the same; returns come
\* before line ends.
Raw(tokens, crlf, same) ==
  FoldLeft(LAMBDA out, i : CASE tokens[i] = "w" -> Append(out, <<IF same THEN "w" ELSE ToString(i)>>)
                             [] tokens[i] = "nl" /\ crlf -> out \o <<Source!Cr, Source!Nl>>
                             [] OTHER -> Append(out, <<tokens[i]>>),
           <<>>, [i \in DOMAIN tokens |-> i])
Paged(pages) ==
  Source!Join([i \in DOMAIN pages |-> Source!Join([k \in DOMAIN pages[i] |-> <<pages[i][k]>>], <<Source!Nl>>)],
              <<Source!Ff>>)
Solid == <<"a">>
Pages == {[embedded |-> e, usable |-> FALSE, ocr |-> o] : e \in {<<>>, <<Solid>>}, o \in {<<>>, <<Solid>>, <<Solid, Solid>>}}
           \cup {[embedded |-> e, usable |-> TRUE, ocr |-> <<>>] :
                   e \in {<<Solid, Source!Nl, Solid>>, <<Source!Page, Source!Nl, <<"b">>>>}}
Node(tag, text, kids) == [tag |-> tag, text |-> text, kids |-> kids]
Leaf(word) == Node("text", << <<word>> >>, <<>>)
Leaves == {Leaf("a"), Leaf("b")}
Twigs == {Node(tag, <<>>, kids) : tag \in {"block", "inline", "skip"}, kids \in {<<>>, <<Leaf("c")>>, <<Leaf("d"), Leaf("e")>>}}
Boughs == {Node(tag, <<>>, kids) : tag \in {"block", "inline"}, kids \in UpTo({Leaf("f")} \cup {t \in Twigs : Len(t.kids) = 1}, 2)}
Trees == {Node("block", <<>>, kids) : kids \in UpTo(Leaves \cup Twigs, 3) \cup UpTo({Leaf("a")} \cup Boughs, 2)}

\* Stricter than what the code keeps: the span of a page points at it in the
\* canonical text (docs/pipeline/ingestion/pdf-ocr-ingestion.md).
SpansAreCanonical == given.of = "pdf" => Source!SpansAreCanonicalOffsets(given.pages)

\* What becomes of the manuscript: chapters, scenes, atoms and segments.
TextIsAccounted ==
  /\ given.of = "raw" => LET kept(text, cleaned) == /\ Source!WordsAreKept(text, cleaned)
                                                     /\ Source!ParagraphsAreKept(text, cleaned)
                             cleaned(text) == kept(text, Source!Canonical(text))
                         IN cleaned(Raw(given.tokens, given.crlf, given.same))
  /\ given.of = "pages" => LET edges(text) == Source!HeadersAreEdges(text, Source!RemoveHeaders(text))
                           IN edges(Paged(given.pages))
  /\ given.of = "docx" => Source!AnchorsSurvive(given.doc, Source!Canonical(Source!DocxText(given.doc)))
  /\ given.of = "epub" => Source!EpubIsTold(given.node)
  /\ given.of = "pdf" => Source!SpansAreTrue(given.pages)
  /\ given.of = "book" => LET kept(chapters) == /\ Book!LinesAreKept(chapters, given.lines)
                                                /\ Book!SignalsSettle(chapters, given.lines, given.signals)
                          IN kept(Book!Chapters(given.lines, given.signals))
  /\ given.of = "pieces" => LET cut(atoms, drafts) == /\ Text!TextIsPartitioned(given.text, given.max, atoms, drafts)
                                                      /\ Text!UnsureLinesAreTold(drafts)
                            IN cut(Text!AtomsForScene(given.text), Text!Segments(given.text, given.max))
  /\ given.of = "spans" => Text!ValidatorIsExact(given.text, given.spans)
  /\ given.of = "manuscript" => Map!ChunksCover(given.text)
  /\ given.of = "map" =>
       /\ LET chunks == Map!ChunkText(given.text)
              det == Map!DeterministicBoundaries(Found(given.text))
          IN Map!BoundariesSettle(Map!SeamWindows(chunks), Map!MapChunks(chunks, given.answers, det), det,
                                  Map!Boundaries(given.text, given.answers, given.seams, Found(given.text)),
                                  given.seams)
       /\ Map!ManuscriptIsCovered(given.text, Map!Compile(given.text, TRUE, given.answers, given.seams,
                                                           given.seams[1], Found(given.text)))
  /\ given.of = "cover" =>
       LET first == <<[start |-> 0, end |-> Len(given.text), scenes |-> given.spans]>>
       IN Map!VerifierIsExact(given.text, given.spans,
                              Map!VerifyAndRepair(given.text, first, {}, {}, given.repair, first))

TextInput ==
  \/ given \in [of : {"raw"}, tokens : UpTo({"w", "-", "nl"}, 6) \cup UpTo({"w", "nl", "page"}, 6)
                                          \cup UpTo({"w", "nl", "mark"}, 5),
                crlf : BOOLEAN, same : {FALSE}]
  \/ given \in [of : {"raw"}, tokens : UpTo({"w", "nl"}, 6) \cup UpTo({"w", "nl", "page"}, 5), crlf : {FALSE},
                same : {TRUE}]
  \/ given \in [of : {"pages"}, pages : UpTo(UpTo({Solid, <<"b">>, Source!Stars}, 2) \cup {<<Solid, <<"b">>, Solid>>}, 3) \ {<<>>}]
  \/ given \in [of : {"docx"}, doc : UpTo([text : {<<>>, <<Solid>>, <<Solid, Source!Nl, <<"b">>>>},
                                          style : {"heading 1", "heading 2", "normal"}], 3)]
  \/ given \in [of : {"epub"}, node : Trees]
  \/ given \in [of : {"pdf"}, pages : UpTo(Pages, 4)]
  \/ given \in [of : {"book"}, lines : UpTo(BookLines, 4) \ {<<>>}, signals : SignalLists]
  \/ given \in [of : {"pieces"}, text : Scene(Pieces), max : {2, 4}]
  \/ given \in [of : {"spans"}, text : {<<"w">>, <<"w", "/", "w">>, <<"w", "w", ".", "w">>},
                spans : UpTo((1..4) \X (1..5), 2)]
  \/ given \in [of : {"manuscript"}, text : UpTo({"w", "/"}, 9)]
  \/ \E text \in Manuscripts, seam \in SeamAnswers, answers \in [1..4 -> ChunkAnswers] :
       given = [of |-> "map", text |-> text, answers |-> Pad(answers), seams |-> [i \in 1..9 |-> seam]]
  \/ given \in [of : {"cover"}, text : {<<"w", "/", "w">>, <<"w", "w", "w">>}, repair : SeamAnswers,
                spans : {s \in UpTo([from : 0..2, to : 1..3], 3) :
                           \A i \in DOMAIN s : s[i].from < s[i].to /\ ~(s[i].from = 1 /\ s[i].to = 2)}]
-----------------------------------------------------------------------------
Init == TextInput \/ SpeakerInput \/ AudioInput \/ SoundInput \/ CastInput
Next == UNCHANGED given
Spec == Init /\ [][Next]_given
=============================================================================
