---------------------------- MODULE ChapterParse ----------------------------
(***************************************************************************)
(* Where StructureCompiler finds the chapters and the scenes of a          *)
(* manuscript.  A text is its sequence of lines, an offset is a number of  *)
(* a line and a span [from, to) the lines from..to - 1.  A line is         *)
(* [look, chars, anchor]: what the expressions of the parser see in it,    *)
(* its length, and its text as normalize_anchor leaves it.                 *)
(*   "chapter" "matter"  a heading the parser knows ("Chapter 2",          *)
(*                       "Contents"), with or without a Markdown mark      *)
(*   "mark" "section" "deep"  another heading with 1-2, 3 or 4-6 marks     *)
(*   "rule" "scene"      "* * *", "Scene 4"                                *)
(*   "title" "later"     a short line of capitals; one that is a time too  *)
(*   "shift"             prose that opens with "the next morning"          *)
(*   "beat" "script" "prose" "blank"                                       *)
(* A signal is [anchor, level]: a heading the container of the text names. *)
(* The last line ends like the others do.                                  *)
(***************************************************************************)
EXTENDS Integers, Sequences, FiniteSets, SequencesExt, FiniteSetsExt

TimeShiftBody == 18     \* characters before a time shift opens a scene
HeadingBody == 120      \* ... and before a heading-like line does

\* EXPLICIT_CHAPTER_RE
Explicit(line) == line.look \in {"chapter", "matter"}

TitleLine(line) == line.look \in {"title", "later"}

\* SCENE_LINE_RE
SceneLine(line) == line.look \in {"scene", "deep"}

TimeShift(line) == line.look \in {"shift", "later"}

Status(line) == IF line.look = "matter" THEN "matter" ELSE "structured"

\* _classify_block
Kind(line, before) ==
  CASE line.look = "blank" -> "blank"
    [] line.look \in {"rule", "scene"} -> "separator"
    [] line.look = "beat" -> "stage_direction"
    [] line.look \in {"chapter", "matter", "mark"} -> "heading"
    [] line.look \in {"section", "deep"} -> "possible_heading"
    [] line.look = "script" -> "script_dialogue"
    [] TitleLine(line) /\ before = "blank" -> "possible_heading"
    [] OTHER -> "paragraph"

BlockMap(lines) ==
  FoldLeft(LAMBDA kinds, line : Append(kinds, Kind(line, IF kinds = <<>> THEN "none" ELSE Last(kinds))),
           <<>>, lines)

Texts(lines, span) == {k \in span : lines[k].look # "blank"}
-----------------------------------------------------------------------------
(* Chapters *)

\* Variant of Candidate: any short line after the heading is its title.
GreedyCandidate(lines, kinds, k) ==
  LET after == Texts(lines, (k + 1)..Len(lines))
      next == IF after = {} THEN 0 ELSE Min(after)
  IN [start |-> k, content |-> IF next = 0 THEN k + 1 ELSE next + 1, status |-> Status(lines[k]),
      by |-> "heading"]

\* The chapter an explicit heading opens: a title line that follows it
\* belongs to the heading.
Candidate(lines, kinds, k) ==
  LET after == Texts(lines, (k + 1)..Len(lines))
      next == IF after = {} THEN 0 ELSE Min(after)
      titled == /\ next # 0
                /\ kinds[next] \notin {"heading", "separator"}
                /\ TitleLine(lines[next])
  IN [start |-> k, content |-> IF titled THEN next + 1 ELSE k + 1, status |-> Status(lines[k]),
      by |-> "heading"]

\* Variant of PromoteSignal: a line may be promoted over and over.
PromoteSignalAgain(lines, state, signal) ==
  LET fits == {k \in DOMAIN lines : lines[k].anchor = signal.anchor /\ lines[k].look # "blank"}
      k == Min(fits)
  IN IF signal.level > 1 THEN state
     ELSE IF fits = {} THEN [state EXCEPT !.lost = @ + 1]
     ELSE [state EXCEPT !.used = @ \cup {k},
                        !.found[k] = {[start |-> k, content |-> k + 1, status |-> Status(lines[k]),
                                       by |-> "container"]}]

\* _promote_signal_chapters: the first line with the anchor that no signal
\* has taken becomes a chapter, whatever the parser thought of it; a signal
\* that finds none is warned about.
PromoteSignal(lines, state, signal) ==
  LET fits == {k \in DOMAIN lines \ state.used :
                 lines[k].anchor = signal.anchor /\ lines[k].look # "blank"}
      k == Min(fits)
  IN IF signal.level > 1 THEN state
     ELSE IF fits = {} THEN [state EXCEPT !.lost = @ + 1]
     ELSE [state EXCEPT !.used = @ \cup {k},
                        !.found[k] = {[start |-> k, content |-> k + 1, status |-> Status(lines[k]),
                                       by |-> "container"]}]

Promoted(lines, found, signals) ==
  FoldLeft(LAMBDA state, s : PromoteSignal(lines, state, s), [found |-> found, used |-> {}, lost |-> 0], signals)

ChapterCandidates(lines, kinds, signals) ==
  LET found == [k \in DOMAIN lines |->
                  IF kinds[k] = "heading" /\ Explicit(lines[k]) THEN {Candidate(lines, kinds, k)} ELSE {}]
      all == UNION {Promoted(lines, found, signals).found[k] : k \in DOMAIN lines}
  IN SetToSortSeq(all, LAMBDA a, b : a.start < b.start)

\* From each heading to the next.
Ended(lines, cands) ==
  [c \in DOMAIN cands |-> cands[c] @@ [end |-> IF c < Len(cands) THEN cands[c + 1].start ELSE Len(lines) + 1]]

\* Variant of Chapters: what comes before the first heading is left out.
ChaptersFromHeading(lines, signals) == Ended(lines, ChapterCandidates(lines, BlockMap(lines), signals))

\* What comes before the first heading is a chapter, and so is a whole text
\* without one.
WithFrontMatter(lines, cands) ==
  LET whole(status) == [start |-> 1, content |-> 1, status |-> status, by |-> status]
  IN CASE cands = <<>> -> <<whole("unresolved")>>
       [] cands # <<>> /\ Texts(lines, 1..(cands[1].start - 1)) # {} -> <<whole("front_matter")>> \o cands
       [] OTHER -> cands

\* The chapters compile() makes.
Chapters(lines, signals) ==
  Ended(lines, WithFrontMatter(lines, ChapterCandidates(lines, BlockMap(lines), signals)))
-----------------------------------------------------------------------------
(* Scenes *)

Body == {"paragraph", "dialogue_line", "script_dialogue"}

\* The breaks of a chapter: [at, next, status].  The line of a separator or
\* of a scene heading ends one scene and belongs to none, a time shift or a
\* heading-like line opens a scene that may have to be confirmed.
Breaks(lines, kinds, span) ==
  LET step(state, k) ==
        LET body == state.body + (IF kinds[k] \in Body THEN lines[k].chars ELSE 0)
        IN CASE kinds[k] = "separator" \/ SceneLine(lines[k]) ->
                  [body |-> 0, out |-> Append(state.out, [at |-> k, next |-> k + 1, status |-> "structured"])]
             [] body >= TimeShiftBody /\ TimeShift(lines[k]) ->
                  [body |-> lines[k].chars, out |-> Append(state.out, [at |-> k, next |-> k, status |-> "possible"])]
             [] body >= HeadingBody /\ kinds[k] = "possible_heading" ->
                  [body |-> 0, out |-> Append(state.out, [at |-> k, next |-> k, status |-> "possible"])]
             [] OTHER -> [state EXCEPT !.body = body]
  IN FoldLeft(step, [body |-> 0, out |-> <<>>], span).out

\* Variant of SceneCandidates: a scene starts after the line of its break.
SceneCandidatesAfterLine(breaks, from, to) ==
  LET step(state, b) ==
        [start |-> b.at + 1, status |-> b.status,
         out |-> IF b.at > state.start
                 THEN Append(state.out, [from |-> state.start, to |-> b.at, status |-> state.status])
                 ELSE state.out]
      last == FoldLeft(step, [start |-> from, status |-> "structured", out |-> <<>>], breaks)
  IN IF last.start < to THEN Append(last.out, [from |-> last.start, to |-> to, status |-> last.status])
     ELSE last.out

SceneCandidates(breaks, from, to) ==
  LET step(state, b) ==
        [start |-> b.next, status |-> b.status,
         out |-> IF b.at > state.start
                 THEN Append(state.out, [from |-> state.start, to |-> b.at, status |-> state.status])
                 ELSE state.out]
      last == FoldLeft(step, [start |-> from, status |-> "structured", out |-> <<>>], breaks)
  IN IF last.start < to THEN Append(last.out, [from |-> last.start, to |-> to, status |-> last.status])
     ELSE last.out

\* The scenes of a chapter that say something; without a break the chapter
\* is one scene.
Scenes(lines, kinds, chapter) ==
  LET breaks == Breaks(lines, kinds, [i \in 1..(chapter.end - chapter.content) |-> chapter.content + i - 1])
      cands == IF breaks # <<>> THEN SceneCandidates(breaks, chapter.content, chapter.end)
               ELSE <<[from |-> chapter.content, to |-> chapter.end, status |-> "unresolved"]>>
  IN SelectSeq(cands, LAMBDA s : Texts(lines, s.from..(s.to - 1)) # {})

-----------------------------------------------------------------------------
\* Every line that says something is in one scene of one chapter, and the
\* lines that are in none are headings of a chapter or breaks: nothing of
\* the manuscript is lost or read twice (StructureCompiler.compile).
LinesAreKept(chapters, lines) ==
  LET kinds == BlockMap(lines)
      scenes == [c \in DOMAIN chapters |-> Scenes(lines, kinds, chapters[c])]
      heard(k) == {<<c, s>> \in (DOMAIN chapters) \X (DOMAIN lines) :
                     s \in DOMAIN scenes[c] /\ k \in scenes[c][s].from..(scenes[c][s].to - 1)}
      heading(k) == \E c \in ToSet(chapters) : k \in c.start..(c.content - 1) /\ (k = c.start \/ TitleLine(lines[k]))
  IN /\ \A k \in Texts(lines, DOMAIN lines) :
          Cardinality(heard(k)) = IF heading(k) \/ kinds[k] = "separator" \/ SceneLine(lines[k]) THEN 0 ELSE 1
     /\ \A c \in 2..Len(chapters) : chapters[c - 1].end = chapters[c].start

\* Every chapter signal opens a chapter of its own at a line with its
\* anchor, or somebody is told that it did not (_promote_signal_chapters).
SignalsSettle(chapters, lines, signals) ==
  LET asked == SelectSeq(signals, LAMBDA s : s.level <= 1)
      opened == SelectSeq(chapters, LAMBDA c : c.by = "container")
      told == Promoted(lines, [k \in DOMAIN lines |-> {}], signals).lost
      Count(s, n) == Len(SelectSeq(s, LAMBDA x : x.anchor = n))
  IN /\ Len(opened) + told = Len(asked)
     /\ \A n \in {s.anchor : s \in ToSet(asked)} :
          Count([c \in DOMAIN opened |-> lines[opened[c].start]], n) <= Count(asked, n)
=============================================================================
