---------------------------- MODULE SegmentParse ----------------------------
(***************************************************************************)
(* How StructureCompiler cuts the text of a scene into atoms and groups    *)
(* the atoms into segments.  The text is a sequence of pieces, an offset   *)
(* is the number of a piece and a span [from, to] includes both ends:      *)
(*   "w"  words         "the"  words that open with an article, which the  *)
(*                             parser may take for a name                  *)
(*   "n"  a name        "t"    a name and a verb of speech (Mara said)     *)
(*   ":"  Theo and a colon     "[b]" a bracketed beat    "[1]" a mark      *)
(*   "." "," "Mr."      the end of a sentence, a comma, an abbreviation    *)
(*   "q"  a straight quotation mark, "<" and ">" a curly one; "/" a blank  *)
(*        line between two paragraphs                                      *)
(* Every piece counts for one character.  Confidences are whole percents,  *)
(* "" is no speaker.                                                       *)
(***************************************************************************)
EXTENDS Integers, Sequences, FiniteSets, SequencesExt, FiniteSetsExt

Break == "/"
Opening == {"q", "<"}
Closing == {"q", ">"}
Sure == 80
AmbiguousRun == 4

\* _speaker_from_tag, COLON_SPEAKER_RE: the name a piece gives.
NameIn(piece) == CASE piece = "t" -> "mara" [] piece = ":" -> "theo" [] piece = "n" -> "nell"
                  [] piece = "the" -> "the" [] OTHER -> ""

Spans(s) == {<<a, b>> \in (DOMAIN s) \X (DOMAIN s) : a <= b}
Inside(span) == span[1]..span[2]
Ordered(spans) == SetToSortSeq(spans, LAMBDA x, y : x[1] < y[1])
Each(f(_), s) == [i \in DOMAIN s |-> f(s[i])]
Flattened(seqs) == FoldLeft(LAMBDA out, x : out \o x, <<>>, seqs)
TotalOf(atoms) == FoldLeft(LAMBDA n, a : n + a.to - a.from + 1, 0, atoms)
\* The text of a draft: its atoms, joined by a space each.
LengthOf(draft) == TotalOf(draft.atoms) + Len(draft.atoms) - 1

\* _paragraph_spans
Paragraphs(s) ==
  Ordered({x \in Spans(s) : /\ \A i \in Inside(x) : s[i] # Break
                            /\ x[1] = 1 \/ s[x[1] - 1] = Break
                            /\ x[2] = Len(s) \/ s[x[2] + 1] = Break})

\* _scan_quotes over the pieces of a span: the quotations, and where one is
\* left open, or 0.
ScanQuotes(s, span) ==
  LET step(state, i) ==
        CASE state.open = 0 /\ s[i] \in Opening -> [state EXCEPT !.open = i]
          [] state.open # 0 /\ s[i] = (IF s[state.open] = "q" THEN "q" ELSE ">") ->
               [open |-> 0, spans |-> Append(state.spans, <<state.open, i>>)]
          [] OTHER -> state
  IN FoldLeft(step, [open |-> 0, spans |-> <<>>], [k \in 1..(span[2] - span[1] + 1) |-> span[1] + k - 1])

\* _multi_paragraph_quote_span: a paragraph that opens a quotation it does
\* not close is quoted up to where the scene closes it.
MultiQuote(s, span) ==
  LET whole == ScanQuotes(s, <<span[1], Len(s)>>).spans
  IN IF /\ s[span[1]] \in Opening
        /\ ScanQuotes(s, span).spans = <<>>
        /\ whole # <<>> /\ whole[1][1] = span[1]
        /\ \E i \in Inside(whole[1]) : s[i] = Break
     THEN {whole[1]} ELSE {}

\* Variant of Sentences: an abbreviation ends a sentence, and what follows
\* the last full stop is left out.
SentencesToStop(s, span) ==
  LET ends == {i \in Inside(span) : s[i] = "."}
      from(i) == IF \E j \in ends : j < i THEN Max({j \in ends : j < i}) + 1 ELSE span[1]
  IN IF span[1] > span[2] THEN <<>> ELSE IF ends = {} THEN <<span>> ELSE Ordered({<<from(i), i>> : i \in ends})

\* _sentence_parts, with the parts of an abbreviation put together again.
Sentences(s, span) ==
  LET closes(i) == i > span[1] /\ s[i] \in Closing /\ s[i - 1] \in {".", "Mr."}
      ends == {i \in Inside(span) : \/ i = span[2]
                                    \/ closes(i)
                                    \/ (s[i] = "." /\ ~closes(i + 1))}
      from(i) == IF \E j \in ends : j < i THEN Max({j \in ends : j < i}) + 1 ELSE span[1]
  IN IF span[1] > span[2] THEN <<>> ELSE Ordered({<<from(i), i>> : i \in ends})

\* Variant of ClauseParts: a part goes on up to the limit and the comma it
\* is cut at is left out.
ClausePartsAtLimit(s, span, max) ==
  LET count == (span[2] - span[1] + max) \div max
      start(k) == span[1] + (k - 1) * max
      end(k) == IF k = count THEN span[2] ELSE start(k) + max - 2
  IN [k \in 1..count |-> <<start(k), end(k)>>]

\* _clause_parts: cut after the last comma that leaves no more than max, or
\* between two words.
ClauseParts(s, span, max) ==
  LET cut(at) == LET commas == {i \in (at + 1)..(at + max - 1) : s[i] = ","}
                 IN IF commas = {} THEN at + max - 1 ELSE Max(commas)
      step(parts, k) ==
        LET at == IF parts = <<>> THEN span[1] ELSE Last(parts)[2] + 1
        IN CASE at > span[2] -> parts
             [] at <= span[2] /\ span[2] - at + 1 <= max -> Append(parts, <<at, span[2]>>)
             [] OTHER -> Append(parts, <<at, cut(at)>>)
  IN FoldLeft(step, <<>>, [k \in 1..(span[2] - span[1] + 1) |-> k])

\* _prosody_parts
ProsodyParts(s, span, max) ==
  LET cut(part) == IF part[2] - part[1] + 1 <= max THEN <<part>> ELSE ClauseParts(s, part, max)
  IN Flattened(Each(cut, Sentences(s, span)))
-----------------------------------------------------------------------------
(* Atoms *)

Atom(kind, span, speaker, sure) ==
  [kind |-> kind, from |-> span[1], to |-> span[2], speaker |-> speaker,
   sure |-> IF speaker = "" THEN 0 ELSE sure, fresh |-> FALSE]

\* _speaker_from_free_text: the first name with a verb of speech.
SpokenOf(s, span) == IF \E i \in Inside(span) : s[i] = "t" THEN "mara" ELSE ""

\* _sentence_atoms
SentenceAtoms(s, span) ==
  Each(LAMBDA part : Atom("narration", part, SpokenOf(s, part), 74), Sentences(s, span))

\* TAG_BEFORE_RE, TAG_AFTER_RE
IsTag(s, span) == s[span[1]] = "t" /\ \A i \in (span[1] + 1)..(span[2] - 1) : s[i] \notin {".", "Mr."}

\* _text_atoms_between_quotes
BetweenQuotes(s, span) ==
  Each(LAMBDA part : IF IsTag(s, part) THEN Atom("dialogue_tag", part, NameIn("t"), 84)
                     ELSE Atom("narration", part, "", 0),
       Sentences(s, span))

\* _atoms_for_paragraph: a paragraph that leaves a quotation open is read
\* as narration.
ParagraphAtoms(s, span) ==
  LET scan == ScanQuotes(s, span)
      step(state, q) ==
        [cursor |-> q[2] + 1,
         atoms |-> state.atoms \o BetweenQuotes(s, <<state.cursor, q[1] - 1>>) \o <<Atom("quote", q, "", 0)>>]
      ended(cut) == cut.atoms \o BetweenQuotes(s, <<cut.cursor, span[2]>>)
  IN IF scan.open # 0 \/ scan.spans = <<>> THEN SentenceAtoms(s, span)
     ELSE ended(FoldLeft(step, [cursor |-> span[1], atoms |-> <<>>], scan.spans))

\* _atoms_for_colon_speaker: what follows the first sentence is narration
\* when it opens with an article.
ColonAtoms(s, span) ==
  LET body == Sentences(s, <<span[1] + 1, span[2]>>)
      tail == [k \in 1..(Len(body) - 1) |-> Atom("narration", body[k + 1], SpokenOf(s, body[k + 1]), 74)]
  IN IF Len(body) > 1 /\ s[body[2][1]] = "the"
     THEN <<Atom("quote", <<span[1], body[1][2]>>, NameIn(":"), 93)>> \o tail
     ELSE <<Atom("quote", span, NameIn(":"), 93)>>

\* The atoms of one paragraph that is no part of a longer quotation; the
\* first one of a plain paragraph knows that a paragraph starts.
Plain(s, span, first) ==
  LET marked(atoms) == IF first THEN atoms ELSE [atoms EXCEPT ![1].fresh = TRUE]
  IN CASE span[1] = span[2] /\ s[span[1]] \in {"[b]", "[1]"} -> <<Atom("performance_beat", span, "", 0)>>
       [] s[span[1]] = "[1]" /\ span[1] < span[2] -> <<Atom("footnote", span, "", 0)>>
       [] s[span[1]] = ":" /\ span[1] < span[2] -> ColonAtoms(s, span)
       [] OTHER -> marked(ParagraphAtoms(s, span))

\* Variant of AtomsForScene: the paragraphs a quotation runs over are read
\* again.
AtomsForSceneTwice(s) ==
  LET step(atoms, p) ==
        IF MultiQuote(s, p) # {} THEN Append(atoms, Atom("quote", CHOOSE q \in MultiQuote(s, p) : TRUE, "", 0))
        ELSE atoms \o Plain(s, p, p[1] = 1)
  IN FoldLeft(step, <<>>, Paragraphs(s))

AtomsForScene(s) ==
  LET step(state, p) ==
        LET left == <<IF state.upto < p[1] THEN p[1] ELSE state.upto + 1, p[2]>>
            long == IF left[1] > left[2] THEN {} ELSE MultiQuote(s, left)
        IN CASE left[1] > left[2] -> state
             [] left[1] <= left[2] /\ long # {} ->
                  LET q == CHOOSE q \in long : TRUE
                  IN [upto |-> q[2], atoms |-> Append(state.atoms, Atom("quote", q, "", 0))]
             [] OTHER -> [state EXCEPT !.atoms = @ \o Plain(s, left, p[1] = 1)]
  IN FoldLeft(step, [upto |-> 0, atoms |-> <<>>], Paragraphs(s)).atoms

\* Variant of AtomOffsetsValid: only that the atoms are in order and inside.
AtomOffsetsOrdered(s, spans) ==
  /\ \A k \in DOMAIN spans : spans[k][1] <= spans[k][2] /\ spans[k][2] <= Len(s)
  /\ \A k \in 2..Len(spans) : spans[k - 1][2] < spans[k][1]

\* validate_atom_offsets: no atom before the end of the ones before it, and
\* nothing but white space between two of them.
AtomOffsetsValid(s, spans) ==
  LET step(state, x) ==
        [end |-> IF x[2] > state.end THEN x[2] ELSE state.end,
         ok |-> /\ state.ok /\ x[1] > state.end /\ x[1] <= x[2] /\ x[2] <= Len(s)
                /\ \A i \in (state.end + 1)..(x[1] - 1) : s[i] = Break]
      last == FoldLeft(step, [end |-> 0, ok |-> TRUE], spans)
  IN last.ok /\ \A i \in (last.end + 1)..Len(s) : s[i] = Break
-----------------------------------------------------------------------------
(* Segments *)

\* _draft; codes are the warnings it gives rise to.
Draft(atoms, type, production, speaker, sure) ==
  [atoms |-> atoms, type |-> type, production |-> production, speaker |-> speaker, sure |-> sure,
   status |-> "ready", codes |-> {}]

Narrated(atoms) ==
  LET named == SelectSeq(atoms, LAMBDA a : a.speaker # "")
  IN Draft(atoms, "narration", "narration", IF named = <<>> THEN "" ELSE named[1].speaker,
           IF named = <<>> THEN 0 ELSE named[1].sure)

\* _split_narration_group: of the parts that are cut off only the last one
\* keeps a speaker.
SplitNarration(s, group, max) ==
  LET cutOff(atoms) == IF atoms = <<>> THEN <<>> ELSE <<Draft(atoms, "narration", "narration", "", 0)>>
      piece(span) == Draft(<<Atom("narration", span, "", 0)>>, "narration", "narration", "", 0)
      step(state, a) ==
        LET full == state.current # <<>> /\ TotalOf(state.current) + TotalOf(<<a>>) > max
            out == IF full THEN state.out \o cutOff(state.current) ELSE state.out
            current == IF full THEN <<>> ELSE state.current
        IN IF TotalOf(<<a>>) > max
           THEN [out |-> out \o Each(piece, ProsodyParts(s, <<a.from, a.to>>, max)), current |-> current]
           ELSE [out |-> out, current |-> Append(current, a)]
      ended(last) == IF last.current = <<>> THEN last.out ELSE Append(last.out, Narrated(last.current))
  IN ended(FoldLeft(step, [out |-> <<>>, current |-> <<>>], group))

\* resolve_atom_speaker: the name of the quotation itself, of the tag after
\* it or before it, or of who the narration before it is about.
ResolveSpeaker(s, atoms, i) ==
  LET tag(j) == j \in DOMAIN atoms /\ atoms[j].kind = "dialogue_tag"
      subject == IF i > 1 /\ atoms[i - 1].kind = "narration" THEN NameIn(s[atoms[i - 1].from]) ELSE ""
  IN CASE atoms[i].speaker # "" -> [speaker |-> atoms[i].speaker, sure |-> atoms[i].sure]
       [] atoms[i].speaker = "" /\ tag(i + 1) -> [speaker |-> atoms[i + 1].speaker, sure |-> 88]
       [] atoms[i].speaker = "" /\ ~tag(i + 1) /\ tag(i - 1) -> [speaker |-> atoms[i - 1].speaker, sure |-> 88]
       [] OTHER -> [speaker |-> subject, sure |-> IF subject = "" THEN 0 ELSE 62]

\* A quotation with the tags beside it that no draft has yet.
Dialogue(s, atoms, i, used) ==
  LET beside == {j \in {i - 1, i + 1} \cap DOMAIN atoms : atoms[j].kind = "dialogue_tag" /\ j \notin used}
      group == SetToSortSeq(beside \cup {i}, LAMBDA a, b : a < b)
      who == ResolveSpeaker(s, atoms, i)
      sure == who.speaker # "" /\ who.sure >= Sure
      draft == Draft([k \in DOMAIN group |-> atoms[group[k]]], "dialogue",
                     IF Len(group) > 1 THEN "dialogue_with_tag" ELSE "dialogue", who.speaker, who.sure)
  IN [used |-> ToSet(group),
      draft |-> [draft EXCEPT !.status = IF sure THEN "ready" ELSE "needs_review",
                              !.codes = IF who.speaker = "" THEN {"dialogue_no_speaker"}
                                        ELSE IF sure THEN {} ELSE {"low_confidence_speaker"}]]

\* Variant of SegmentDrafts: narration waits until the end of the scene.
SegmentDraftsLate(s, atoms, max) ==
  LET step(state, i) ==
        IF i \in state.used THEN state
        ELSE IF atoms[i].kind = "quote"
        THEN [state EXCEPT !.used = @ \cup Dialogue(s, atoms, i, state.used).used,
                           !.out = Append(@, Dialogue(s, atoms, i, state.used).draft)]
        ELSE [state EXCEPT !.group = Append(@, atoms[i]), !.used = @ \cup {i}]
      last == FoldLeft(step, [out |-> <<>>, group |-> <<>>, used |-> {}], [i \in DOMAIN atoms |-> i])
  IN last.out \o SplitNarration(s, last.group, max)

\* segment_drafts_from_atoms, up to _mark_ambiguous_exchange.
SegmentDrafts(s, atoms, max) ==
  LET flushed(state) == [state EXCEPT !.out = @ \o SplitNarration(s, state.group, max), !.group = <<>>]
      out(state, draft, used) == [state EXCEPT !.out = Append(@, draft), !.used = @ \cup used]
      narrate(state, i) ==
        LET grown == [state EXCEPT !.group = Append(@, atoms[i]), !.used = @ \cup {i}]
        IN IF TotalOf(grown.group) >= max THEN flushed(grown) ELSE grown
      said(state, dialogue) == out(state, dialogue.draft, dialogue.used)
      take(state, i, a) ==
        CASE a.kind = "performance_beat" ->
               out(state, Draft(<<a>>, "performance_beat", "performance_beat", "", 0), {i})
          [] a.kind = "footnote" ->
               out(state, [Draft(<<a>>, "narration", "footnote", "", 0) EXCEPT
                             !.status = "needs_review", !.codes = {"footnote_routed"}], {i})
          [] a.kind = "quote" -> said(state, Dialogue(s, atoms, i, state.used))
          [] a.kind = "dialogue_tag" -> out(state, Draft(<<a>>, "narration", "action_beat", "", 0), {i})
          [] OTHER -> narrate(state, i)
      step(state, i) ==
        IF i \in state.used THEN state
        ELSE take(IF atoms[i].kind # "narration" \/ atoms[i].fresh THEN flushed(state) ELSE state, i, atoms[i])
  IN flushed(FoldLeft(step, [out |-> <<>>, group |-> <<>>, used |-> {}], [i \in DOMAIN atoms |-> i])).out

\* _is_unresolved_dialogue_draft
Unresolved(d) == d.type = "dialogue" /\ (d.speaker = "" \/ d.sure < Sure)

\* Variant of MarkAmbiguous: a run that reaches the end is not seen.
MarkAmbiguousBefore(drafts) ==
  [k \in DOMAIN drafts |->
     IF \E a, b \in DOMAIN drafts : /\ k \in a..b /\ b - a + 1 >= AmbiguousRun /\ b < Len(drafts)
                                    /\ \A j \in a..b : Unresolved(drafts[j])
     THEN [drafts[k] EXCEPT !.status = "needs_review", !.codes = @ \cup {"ambiguous_exchange"}]
     ELSE drafts[k]]

\* _mark_ambiguous_exchange walks over the runs of lines nobody is known
\* to say, and marks each run of four or more.
MarkAmbiguous(drafts) ==
  LET step(state, k) ==
        LET run == IF k <= Len(drafts) /\ Unresolved(drafts[k]) THEN state.run \cup {k} ELSE {}
        IN [run |-> run,
            marked |-> IF run = {} /\ Cardinality(state.run) >= AmbiguousRun
                       THEN state.marked \cup state.run ELSE state.marked]
      marked == FoldLeft(step, [run |-> {}, marked |-> {}], [k \in 1..(Len(drafts) + 1) |-> k]).marked
  IN [k \in DOMAIN drafts |->
        IF k \in marked
        THEN [drafts[k] EXCEPT !.status = "needs_review", !.codes = @ \cup {"ambiguous_exchange"}]
        ELSE drafts[k]]

\* review_segment_draft: a draft with more than one sure name in it.
ReviewDraft(d) ==
  LET names == {a.speaker : a \in {x \in ToSet(d.atoms) : x.sure >= Sure}}
                 \cup (IF d.sure >= Sure /\ d.speaker # "" THEN {d.speaker} ELSE {})
  IN IF Cardinality(names) > 1
     THEN [d EXCEPT !.status = "needs_review", !.codes = @ \cup {"multiple_speakers"}]
     ELSE d

\* segments_from_atoms
Segments(s, max) ==
  Each(ReviewDraft, MarkAmbiguous(SegmentDrafts(s, AtomsForScene(s), max)))

\* segment_record
Record(d) ==
  [type |-> d.type, speaker |-> d.speaker, sure |-> d.sure, status |-> d.status,
   confidence |-> IF d.status = "needs_review" THEN IF d.sure > 64 THEN 64 ELSE IF d.sure < 50 THEN 50 ELSE d.sure
                  ELSE IF d.sure > 90 THEN d.sure ELSE 90]

\* quality: what it counts from the records.
Quality(records) ==
  LET dialogue == SelectSeq(records, LAMBDA r : r.type = "dialogue")
      open == SelectSeq(dialogue, LAMBDA r : r.speaker = "" \/ r.sure < Sure)
  IN [dialogue |-> Len(dialogue), unresolved |-> Len(open)]
-----------------------------------------------------------------------------
\* Every piece of a scene is in one atom and in one segment, in the order of
\* the text, and a segment of narration is longer than the maximum by no more
\* than the spaces that join its atoms, which the limit does not count
\* (atoms_for_scene, segment_drafts_from_atoms, _split_narration_group).
TextIsPartitioned(s, max, atoms, drafts) ==
  LET spans(list) == [k \in DOMAIN list |-> <<list[k].from, list[k].to>>]
  IN /\ AtomOffsetsValid(s, spans(atoms))
     /\ AtomOffsetsValid(s, spans(Flattened([k \in DOMAIN drafts |-> drafts[k].atoms])))
     /\ \A d \in ToSet(drafts) : d.production = "narration" => LengthOf(d) < max + Len(d.atoms)

\* A line of dialogue is ready only when its speaker is sure, quality counts
\* as unresolved exactly the lines somebody is warned about, and of those
\* every run of four or more, and no other, is an exchange to be sorted out
\* (segment_record, quality, _mark_ambiguous_exchange).
UnsureLinesAreTold(drafts) ==
  LET records == Each(Record, drafts)
      told == {k \in DOMAIN drafts : drafts[k].codes \cap {"dialogue_no_speaker", "low_confidence_speaker"} # {}}
      inRun(k) == \E a, b \in DOMAIN drafts : k \in a..b /\ b - a + 1 >= AmbiguousRun /\ a..b \subseteq told
  IN /\ Quality(records).unresolved = Cardinality(told)
     /\ \A k \in DOMAIN drafts :
          /\ "ambiguous_exchange" \in drafts[k].codes <=> inRun(k)
          /\ records[k].confidence >= 90 => k \notin told

\* The validator accepts the lists of spans that cut the text into pieces
\* that follow each other, and no others (validate_atom_offsets).
ValidatorIsExact(s, spans) ==
  AtomOffsetsValid(s, spans) <=>
    /\ \A k \in DOMAIN spans : spans[k][1] <= spans[k][2] /\ spans[k][2] <= Len(s)
    /\ \A j, k \in DOMAIN spans : j < k => spans[j][2] < spans[k][1]
    /\ \A i \in DOMAIN s : s[i] # Break => \E k \in DOMAIN spans : i \in spans[k][1]..spans[k][2]
=============================================================================
