----------------------------- MODULE SourceText -----------------------------
(***************************************************************************)
(* How an imported manuscript becomes canonical paragraphs: the importer   *)
(* takes the text out of its container, CleaningPipeline cleans it and     *)
(* _normalize cuts it into paragraphs.                                     *)
(*                                                                         *)
(* A text is a sequence of tokens, and a token is a tuple: a word is the   *)
(* pieces it was put together from, the others are the separators below.   *)
(* Two words next to each other stand apart.                               *)
(***************************************************************************)
EXTENDS Integers, Sequences, FiniteSets, SequencesExt, FiniteSetsExt

Nl == <<"nl">>      \* "\n"
Cr == <<"cr">>      \* "\r"
Ff == <<"ff">>      \* "\f"
Sp == <<"sp">>      \* a space that replaced a line break
Hy == <<"-">>       \* a hyphen after a word
Mark == <<"mark">>  \* "<!-- page 12 -->"
Page == <<"page">>  \* "Page 12"
Stars == <<"***">>  \* a line of three characters

Blank == {Nl, Cr, Ff, Sp}
IsWord(t) == t \notin Blank \cup {Hy, Mark, Page, Stars}
AllBlank(text) == \A i \in DOMAIN text : text[i] \in Blank
Words(text) == SelectSeq(text, IsWord)

\* The letters of a text, whatever they are joined to.
Letters(text) == FlattenSeq(Words(text))

Strip(text) ==
  LET solid == {i \in DOMAIN text : text[i] \notin Blank}
  IN IF solid = {} THEN <<>> ELSE SubSeq(text, Min(solid), Max(solid))

Split(text, by) ==
  LET step(parts, t) == IF t = by THEN Append(parts, <<>>)
                        ELSE [parts EXCEPT ![Len(parts)] = Append(@, t)]
  IN FoldLeft(step, << <<>> >>, text)

Join(parts, by) ==
  IF parts = <<>> THEN <<>>
  ELSE FoldLeft(LAMBDA text, part : text \o by \o part, Head(parts), Tail(parts))

\* str.splitlines
Lines(text) ==
  LET parts == Split(SelectSeq(text, LAMBDA t : t # Cr), Nl)
  IN IF Last(parts) = <<>> THEN Front(parts) ELSE parts
-----------------------------------------------------------------------------
(* CleaningPipeline.clean *)

RemoveMarks(text) == SelectSeq(text, LAMBDA t : t # Mark)

\* The blanks around a page number reach over the ends of lines: back to the
\* first start of a line and on to the last end of one.
PageStarts(text, k, cursor) ==
  {p \in cursor..k : AllBlank(SubSeq(text, p, k - 1)) /\ (p = 1 \/ text[p - 1] = Nl)}
PageEnds(text, k) ==
  {q \in (k + 1)..(Len(text) + 1) :
     AllBlank(SubSeq(text, k + 1, q - 1)) /\ (q = Len(text) + 1 \/ text[q] = Nl)}

\* Variant of RemovePageLines: the ends of the line go with it.
RemovePageLinesWhole(text) ==
  LET page(k) == text[k] = Page /\ PageStarts(text, k, 1) # {} /\ PageEnds(text, k) # {}
      drop == {k \in DOMAIN text : page(k) \/ (k > 1 /\ text[k] = Nl /\ page(k - 1))
                                  \/ (k < Len(text) /\ text[k] = Nl /\ page(k + 1))}
  IN FoldLeft(LAMBDA out, k : IF k \in drop THEN out ELSE Append(out, text[k]), <<>>,
              [i \in DOMAIN text |-> i])

RemovePageLines(text) ==
  LET step(done, k) ==
        IF text[k] # Page \/ PageEnds(text, k) = {} \/ PageStarts(text, k, done.cursor) = {} THEN done
        ELSE [out |-> done.out \o SubSeq(text, done.cursor, Min(PageStarts(text, k, done.cursor)) - 1),
              cursor |-> Max(PageEnds(text, k))]
      done == FoldLeft(step, [out |-> <<>>, cursor |-> 1], [i \in DOMAIN text |-> i])
  IN done.out \o SubSeq(text, done.cursor, Len(text))

Stripped(lines) == SelectSeq([i \in DOMAIN lines |-> Strip(lines[i])], LAMBDA line : line # <<>>)
SolidLines(page) == Stripped(Lines(page))

\* Variant of Edges: every line of a page may be a header.
EdgesAnywhere(page) == SolidLines(page)

\* The first line and the last, which may be the same one.
Edges(page) ==
  LET lines == SolidLines(page)
  IN IF lines = <<>> THEN <<>> ELSE <<Head(lines), Last(lines)>>

Repeated(pages) ==
  LET often(edges) == {line \in ToSet(edges) :
                         /\ line # <<Stars>>
                         /\ 10 * Cardinality({i \in DOMAIN edges : edges[i] = line}) >= 4 * Len(pages)}
  IN often(FlattenSeq([i \in DOMAIN pages |-> Edges(pages[i])]))

RemoveHeaders(text) ==
  LET pages == Split(text, Ff)
      kept(page, repeated) == SelectSeq(Lines(page), LAMBDA line : Strip(line) \notin repeated)
      without(repeated) == IF repeated = {} THEN text
                           ELSE Join([i \in DOMAIN pages |-> Join(kept(pages[i], repeated), <<Nl>>)], <<Ff>>)
  IN IF Len(pages) < 3 THEN text ELSE without(Repeated(pages))

\* A word that ended one repair does not begin the next.
RepairHyphens(text) ==
  LET broken(k, cursor) ==
        /\ k >= cursor /\ k + 3 <= Len(text)
        /\ IsWord(text[k]) /\ text[k + 1] = Hy /\ text[k + 2] = Nl /\ IsWord(text[k + 3])
      step(done, k) ==
        IF k < done.cursor THEN done
        ELSE IF broken(k, done.cursor)
          THEN [out |-> Append(done.out, text[k] \o text[k + 3]), cursor |-> k + 4]
          ELSE [out |-> Append(done.out, text[k]), cursor |-> k + 1]
  IN FoldLeft(step, [out |-> <<>>, cursor |-> 1], [i \in DOMAIN text |-> i]).out

At(text, k) == IF k \in DOMAIN text THEN text[k] ELSE <<>>

\* Variant of MergeWraps: only the break before it is looked at.
MergeWrapsAfter(text) ==
  [k \in DOMAIN text |-> IF text[k] = Nl /\ At(text, k - 1) # Nl THEN Sp ELSE text[k]]

MergeWraps(text) ==
  [k \in DOMAIN text |->
     IF text[k] = Nl /\ At(text, k - 1) # Nl /\ At(text, k + 1) # Nl THEN Sp ELSE text[k]]

Clean(text) == MergeWraps(RepairHyphens(RemoveHeaders(RemovePageLines(RemoveMarks(text)))))
-----------------------------------------------------------------------------
(* IngestionService._normalize *)

Newlines(text) ==
  SelectSeq([k \in DOMAIN text |->
               IF text[k] # Cr THEN text[k] ELSE IF At(text, k + 1) = Nl THEN <<>> ELSE Nl],
            LAMBDA t : t # <<>>)

\* Runs of spaces are one space.
Spaced(text) ==
  FoldLeft(LAMBDA out, t : IF t = Sp /\ out # <<>> /\ Last(out) = Sp THEN out ELSE Append(out, t), <<>>, text)

\* Two line ends with nothing but blanks between them end a paragraph.
Breaks(text) ==
  {k \in DOMAIN text : /\ text[k] = Nl
                       /\ \E j \in DOMAIN text : /\ j # k /\ text[j] = Nl
                                                 /\ \A i \in DOMAIN text : (j < i /\ i < k) \/ (k < i /\ i < j)
                                                      => text[i] \in Blank}
Paragraphs(text) ==
  LET step(parts, k) == IF k \in Breaks(text) THEN Append(parts, <<>>)
                        ELSE [parts EXCEPT ![Len(parts)] = Append(@, text[k])]
  IN FoldLeft(step, << <<>> >>, [k \in DOMAIN text |-> k])

\* A paragraph equal to the one before it is taken for a repeated header.
Normalize(text) ==
  LET step(out, raw) ==
        LET p == Strip(Spaced(raw))
        IN IF p = <<>> \/ (out # <<>> /\ Last(out) = p) THEN out ELSE Append(out, p)
  IN FoldLeft(step, <<>>, Paragraphs(text))

\* process: an import of which no paragraph is left fails.
Canonical(text) == Normalize(Newlines(Clean(text)))
-----------------------------------------------------------------------------
(* Containers: paragraphs of a DOCX are [text, style] *)

\* _docx_heading_signal
Level(style) == CASE style = "title" -> 0 [] style = "heading 1" -> 1 [] style = "heading 2" -> 2 [] OTHER -> 3

DocxText(doc) == Join([i \in DOMAIN doc |-> doc[i].text], <<Nl, Nl>>)

DocxSignals(doc) ==
  LET headings == SelectSeq(doc, LAMBDA p : Level(p.style) < 3 /\ Strip(p.text) # <<>>)
  IN [i \in DOMAIN headings |-> [anchor |-> Strip(headings[i].text), level |-> Level(headings[i].style)]]

(* A node of an EPUB document is [tag, text, kids], tag one of "block",    *)
(* "inline", "skip" (script, style, head) and "text".                      *)
RECURSIVE TextOf(_), HoldsBlock(_), Blocks(_)

\* Tag.get_text; what a script holds is not text.
TextOf(node) ==
  IF node.tag = "text" THEN node.text
  ELSE IF node.tag = "skip" THEN <<>>
  ELSE FlattenSeq([i \in DOMAIN node.kids |-> TextOf(node.kids[i])])

HoldsBlock(node) == \E i \in DOMAIN node.kids : node.kids[i].tag = "block" \/ HoldsBlock(node.kids[i])

\* Variant of Flushed: what waits is left for the next flush.
FlushedLate(found) == found

Flushed(found) ==
  IF found.stray = <<>> THEN found ELSE [blocks |-> Append(found.blocks, found.stray), stray |-> <<>>]

\* _epub_blocks
Blocks(node) ==
  LET block(found, text) == IF text = <<>> THEN found ELSE [found EXCEPT !.blocks = Append(@, text)]
      step(found, child) ==
        CASE child.tag = "skip" -> found
          [] HoldsBlock(child) -> LET f == Flushed(found) IN [f EXCEPT !.blocks = @ \o Blocks(child)]
          [] child.tag = "block" -> block(Flushed(found), TextOf(child))
          [] OTHER -> [found EXCEPT !.stray = @ \o TextOf(child)]
      end == FoldLeft(step, [blocks |-> <<>>, stray |-> <<>>], node.kids)
  IN IF end.stray = <<>> THEN end.blocks ELSE Append(end.blocks, end.stray)

EpubText(sections) ==
  Join(SelectSeq([i \in DOMAIN sections |-> Join(Blocks(sections[i]), <<Nl, Nl>>)], LAMBDA t : t # <<>>),
       <<Nl, Nl>>)
-----------------------------------------------------------------------------
(* PDF pages are [embedded, usable, ocr]: ocr is what recognition reads    *)

\* Variant of Selected: recognition wins over the text of the file.
SelectedOcr(page) == Strip(page.ocr)

\* A page whose own text is poor is recognised; if that gives nothing, its own
\* text is better than none.
Selected(page) ==
  IF ~page.usable /\ Strip(page.ocr) # <<>> THEN Strip(page.ocr) ELSE Strip(page.embedded)

PdfText(pages) ==
  Join(SelectSeq([i \in DOMAIN pages |-> Selected(pages[i])], LAMBDA t : t # <<>>), <<Nl, Nl>>)

\* str.find: where a part first occurs at a place or after it, 0 if nowhere.
Find(text, part, from) ==
  LET places == {p \in from..(Len(text) - Len(part) + 1) : SubSeq(text, p, p + Len(part) - 1) = part}
  IN IF places = {} THEN 0 ELSE Min(places)

\* Variant of NextSpan: every page is looked for in the whole text.
NextSpanAnywhere(text, spans, page, number) ==
  LET at == Find(text, page, 1)
  IN Append(spans, [page |-> number, start |-> at, end |-> at + Len(page)])

NextSpan(text, spans, page, number) ==
  LET cursor == IF spans = <<>> THEN 1 ELSE Last(spans).end
      found == Find(text, page, cursor)
      at == IF found = 0 THEN cursor ELSE found
  IN Append(spans, [page |-> number, start |-> at, end |-> at + Len(page)])

\* _write_canonical_spans: places in the text as it was taken out of the
\* file; what cleaning moves or drops later is not followed.
CanonicalSpans(pages) ==
  LET text == PdfText(pages)
      step(spans, k) == IF Selected(pages[k]) = <<>> THEN spans ELSE NextSpan(text, spans, Selected(pages[k]), k)
  IN FoldLeft(step, <<>>, [k \in DOMAIN pages |-> k])
-----------------------------------------------------------------------------
(* Properties *)

\* Equal neighbours count once.
Distinct(parts) ==
  FoldLeft(LAMBDA out, p : IF out # <<>> /\ Last(out) = p THEN out ELSE Append(out, p), <<>>, parts)

\* A line that only numbers a page, found line by line.
NumbersPage(line) == Page \in ToSet(line) /\ AllBlank(SelectSeq(line, LAMBDA t : t # Page))
                       /\ Cardinality({i \in DOMAIN line : line[i] = Page}) = 1

\* The text with an empty line for each of them.
Unnumbered(text) ==
  LET lines == Split(RemoveMarks(text), Nl)
  IN Join([i \in DOMAIN lines |-> IF NumbersPage(lines[i]) THEN <<>> ELSE lines[i]], <<Nl>>)

\* The letters of the paragraphs that have any, page numbers taken out.
Told(text) ==
  LET parts == Paragraphs(Newlines(Unnumbered(text)))
  IN SelectSeq([i \in DOMAIN parts |-> Letters(parts[i])], LAMBDA l : l # <<>>)

\* Cleaning a text without page breaks loses no word and changes their order
\* nowhere, but for whole paragraphs that repeat the one before them, page
\* numbers apart; and what it takes for a page number stood alone on its line.
WordsAreKept(text, cleaned) ==
  LET lines == Split(RemoveMarks(text), Nl)
      numbers == Len(SelectSeq(lines, LAMBDA l : ~NumbersPage(l) /\ Page \in ToSet(l)))
      told == Told(text)
      again == {i \in 2..Len(told) : told[i] = told[i - 1]}
      without(left) == FlattenSeq([i \in DOMAIN told |-> IF i \in left THEN <<>> ELSE told[i]])
  IN Ff \notin ToSet(text) =>
       /\ \E left \in SUBSET again : Letters(FlattenSeq(cleaned)) = without(left)
       /\ (\E i \in DOMAIN cleaned : Page \in ToSet(cleaned[i])) <=> numbers > 0

\* Paragraphs the author set apart by an empty line stay apart, and whole
\* unless a page ends in them, whatever line breaks and hyphens they hold: a
\* heading is never folded into what follows it.
ParagraphsAreKept(text, canonical) ==
  LET letters(parts) == Distinct(SelectSeq([i \in DOMAIN parts |-> Letters(parts[i])], LAMBDA l : l # <<>>))
      source == Distinct(Told(text))
      cleaned == letters(canonical)
  IN Ff \notin ToSet(text) =>
       /\ \A i \in DOMAIN cleaned : \E j \in DOMAIN source : ToSet(cleaned[i]) \subseteq ToSet(source[j])
       /\ ToSet(text) \cap {Page, Mark} = {} => cleaned = source

\* Only a line that opens or closes some page is taken for a header, and only
\* in a text of three pages or more.
HeadersAreEdges(text, kept) ==
  LET pages == Split(text, Ff)
      solid == {SolidLines(pages[i]) : i \in DOMAIN pages} \ {<<>>}
      inner == UNION {ToSet(l) : l \in solid} \ UNION {{Head(l), Last(l)} : l \in solid}
  IN /\ Len(pages) < 3 => kept = text
     /\ inner \subseteq UNION {ToSet(SolidLines(p)) : p \in ToSet(Split(kept, Ff))}
     /\ Len(Split(kept, Ff)) = Len(pages)

\* The text a heading is announced by is a paragraph of its own in the
\* canonical text, where the structure parser will look for it.
AnchorsSurvive(doc, cleaned) ==
  \A i \in DOMAIN DocxSignals(doc) :
    \E j \in DOMAIN cleaned : Words(cleaned[j]) = Words(DocxSignals(doc)[i].anchor)

\* Every block of an EPUB is told once, in reading order, and none is run
\* into its neighbours.
EpubIsTold(node) ==
  /\ FlattenSeq(Blocks(node)) = TextOf(node)
  /\ \A i \in DOMAIN node.kids :
       node.kids[i].tag = "block" /\ ~HoldsBlock(node.kids[i]) /\ TextOf(node.kids[i]) # <<>> =>
         \E j \in DOMAIN Blocks(node) : Blocks(node)[j] = TextOf(node.kids[i])

\* A page with anything legible is told, and its span is where it is told in
\* the text that is taken out of the file, before that text is cleaned.
SpansAreTrue(pages) ==
  LET text == PdfText(pages)
      spans == CanonicalSpans(pages)
  IN /\ \A i \in DOMAIN spans :
          /\ SubSeq(text, spans[i].start, spans[i].end - 1) = Selected(pages[spans[i].page])
          /\ i > 1 => spans[i - 1].end < spans[i].start /\ spans[i - 1].page < spans[i].page
     /\ \A k \in DOMAIN pages :
          (Strip(pages[k].embedded) # <<>> \/ (~pages[k].usable /\ Strip(pages[k].ocr) # <<>>))
            => \E i \in DOMAIN spans : spans[i].page = k

\* The span of a page is where the canonical text tells what the page says:
\* what the documents take a span for, and the code does not give.
SpansAreCanonicalOffsets(pages) ==
  LET canonical == Join(Canonical(PdfText(pages)), <<Nl, Nl>>)
      part(s) == SelectSeq([i \in 1..(s.end - s.start) |-> At(canonical, s.start + i - 1)],
                           LAMBDA t : t # <<>>)
  IN \A i \in DOMAIN CanonicalSpans(pages) :
       LET s == CanonicalSpans(pages)[i] IN Letters(part(s)) = Letters(Selected(pages[s.page]))
=============================================================================
