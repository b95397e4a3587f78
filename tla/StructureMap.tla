---------------------------- MODULE StructureMap ----------------------------
(***************************************************************************)
(* StructureV2Pipeline: a model is asked for the boundaries of each chunk  *)
(* of a manuscript, asked again where two chunks disagree, and what is     *)
(* built from its answers is verified, repaired or given up for the        *)
(* parser's own chapters.                                                  *)
(* A text is a sequence of units, "/" a paragraph break and anything else  *)
(* text; offset o lies before unit o + 1.  A claim is [kind, offset, sure, *)
(* by], by the number of the chunk that made it, 0 when no chunk did.  An  *)
(* answer of the model is [failed, claims], in a chunk offsets relative to *)
(* its start.                                                              *)
(* A hierarchy is a sequence of chapters [start, end, scenes], its scenes  *)
(* the spans [from, to) their segments share out (module SegmentParse).    *)
(***************************************************************************)
EXTENDS Integers, Sequences, FiniteSets, SequencesExt, FiniteSetsExt

CONSTANTS
  ChunkChars,     \* DEFAULT_CHUNK_CHARS
  OverlapChars,   \* DEFAULT_CHUNK_OVERLAP_CHARS
  MatchChars,     \* BOUNDARY_MATCH_CHARS: offsets this near are one decision
  MaxRepairs      \* MAX_REPAIR_ATTEMPTS

Spoken(text, from, to) == {o \in from..(to - 1) : text[o + 1] # "/"}

Clamp(o, low, high) == Max({low, Min({o, high})})

Near(a, b) == a.kind = b.kind /\ a.offset - b.offset \in (-MatchChars)..MatchChars
-----------------------------------------------------------------------------
(* Chunks and the seams between them *)

\* _paragraph_boundary
ParagraphBoundary(text, start, target) ==
  LET ends == {o \in (start + 1)..target : text[o] = "/"}
  IN IF target >= Len(text) THEN Len(text)
     ELSE IF ends = {} THEN target ELSE Max(ends)

\* Variant of NextStart: the next chunk starts with the overlap, always.
NextStartBack(start, end) == end - OverlapChars

\* A chunk that ends early still moves the next one on.
NextStart(start, end) == Max({end - OverlapChars, start + 1})

ChunkText(text) ==
  LET chunk(start) == [start |-> start, context |-> Max({0, start - OverlapChars}),
                       end |-> ParagraphBoundary(text, start, Min({Len(text), start + ChunkChars}))]
      step(chunks, i) ==
        IF Last(chunks).end >= Len(text) THEN chunks
        ELSE Append(chunks, chunk(NextStart(Last(chunks).start, Last(chunks).end)))
  IN FoldLeft(step, <<chunk(0)>>, [i \in 1..Len(text) |-> i])

SeamWindows(chunks) ==
  [i \in 1..(Len(chunks) - 1) |-> [left |-> i, right |-> i + 1, from |-> chunks[i + 1].context,
                                   to |-> Min({chunks[i].end, chunks[i + 1].end})]]

InWindow(claims, window) == SelectSeq(claims, LAMBDA c : c.offset \in window.from..window.to)
-----------------------------------------------------------------------------
(* Map *)

\* Chapters and scenes of a hierarchy, as claims of no chunk.
DeterministicBoundaries(hierarchy) ==
  LET of(chapter) == <<[kind |-> "chapter", offset |-> chapter.start, sure |-> 90, by |-> 0]>>
                       \o [s \in DOMAIN chapter.scenes |->
                             [kind |-> "scene", offset |-> chapter.scenes[s].from, sure |-> 80, by |-> 0]]
  IN FoldLeft(LAMBDA out, chapter : out \o of(chapter), <<>>, hierarchy)

\* Offsets of an answer are kept inside its chunk, claims of another kind
\* are dropped.
ParseChunkBoundaries(chunk, number, claims) ==
  LET known == SelectSeq(claims, LAMBDA c : c.kind \in {"chapter", "scene"})
  IN [i \in DOMAIN known |->
        [known[i] EXCEPT !.offset = chunk.start + Clamp(@, 0, chunk.end - chunk.start), !.by = number]]

\* _map: a chunk whose answer fails keeps what the parser found in it.
MapChunks(chunks, answers, det) ==
  [n \in DOMAIN chunks |->
     IF answers[n].failed
     THEN LET own == SelectSeq(det, LAMBDA c : c.offset \in chunks[n].start..(chunks[n].end - 1))
          IN [i \in DOMAIN own |-> [own[i] EXCEPT !.by = n]]
     ELSE ParseChunkBoundaries(chunks[n], n, answers[n].claims)]
-----------------------------------------------------------------------------
(* Reduce *)

\* Variant of Dedupe: a claim is compared with those before it, kept or not.
DedupeChained(claims) ==
  LET before(i, j) == \/ claims[i].offset < claims[j].offset
                      \/ claims[i].offset = claims[j].offset /\ i < j
      order == SortSeq([i \in DOMAIN claims |-> i], before)
      step(kept, i) == IF \E j \in DOMAIN claims : before(j, i) /\ Near(claims[j], claims[i]) THEN kept
                       ELSE Append(kept, claims[i])
  IN FoldLeft(step, <<>>, order)

\* _dedupe_boundaries: of claims that are near each other the first in the
\* text is kept, the surer one at the same place.
Dedupe(claims) ==
  LET before(i, j) == \/ claims[i].offset < claims[j].offset
                      \/ claims[i].offset = claims[j].offset /\ claims[i].sure > claims[j].sure
                      \/ /\ claims[i].offset = claims[j].offset /\ claims[i].sure = claims[j].sure
                         /\ i < j
      order == SortSeq([i \in DOMAIN claims |-> i], before)
      step(kept, i) == IF \E k \in ToSet(kept) : Near(k, claims[i]) THEN kept ELSE Append(kept, claims[i])
  IN FoldLeft(step, <<>>, order)

ClaimsAgree(left, right) ==
  LET matched(source, other) == \A c \in ToSet(source) : \E d \in ToSet(other) : Near(c, d)
  IN matched(left, right) /\ matched(right, left)

\* _parse_seam_boundaries: what lies outside the window is dropped.
ParseSeam(claims, window) ==
  SelectSeq(claims, LAMBDA c : c.kind \in {"chapter", "scene"} /\ c.offset \in window.from..window.to)

ReconcileSeam(window, answer, det) ==
  Dedupe(IF answer.failed THEN InWindow(det, window) ELSE ParseSeam(answer.claims, window))

\* Variant of ReduceSeam: the left chunk is right where both agree or not.
ReduceSeamLeft(window, results, answer, det) ==
  IF window.to <= window.from THEN <<>> ELSE Dedupe(InWindow(results[window.left], window))

ReduceSeam(window, results, answer, det) ==
  LET left == InWindow(results[window.left], window)
      right == InWindow(results[window.right], window)
  IN IF window.to <= window.from THEN <<>>
     ELSE IF ClaimsAgree(left, right) THEN Dedupe(left \o right)
     ELSE ReconcileSeam(window, answer, det)

ReduceSeams(windows, results, seamAnswers, det) ==
  FoldLeft(LAMBDA out, w : out \o ReduceSeam(w, results, seamAnswers[w.left], det), <<>>, windows)

\* Variant of AggregateBoundaries: claims inside a window count again.
AggregateBoundariesTwice(windows, results, resolved) ==
  LET all == FoldLeft(LAMBDA out, claims : out \o claims, <<>>, results) \o resolved
      kept(kind) == Dedupe(SelectSeq(all, LAMBDA c : c.kind = kind))
  IN [chapters |-> kept("chapter"), scenes |-> kept("scene")]

\* What the chunks claim outside every window, and what the windows settled.
AggregateBoundaries(windows, results, resolved) ==
  LET outside(claims) == SelectSeq(claims, LAMBDA c : ~\E w \in ToSet(windows) : c.offset \in w.from..w.to)
      all == FoldLeft(LAMBDA out, claims : out \o outside(claims), <<>>, results) \o resolved
      kept(kind) == Dedupe(SelectSeq(all, LAMBDA c : c.kind = kind))
  IN [chapters |-> kept("chapter"), scenes |-> kept("scene")]
-----------------------------------------------------------------------------
(* Build *)

\* The spans between the offsets, from the first to the end.
Between(offsets, end) ==
  LET order == SortSeq(SetToSeq(offsets), <)
  IN [i \in DOMAIN order |-> [from |-> order[i], to |-> IF i < Len(order) THEN order[i + 1] ELSE end]]

\* _trim_span
Trimmed(text, span) ==
  LET said == Spoken(text, span.from, span.to) IN [from |-> Min(said), to |-> Max(said) + 1]

\* Variant of BuildHierarchy: the text starts with the first chapter found.
BuildHierarchyFromFirst(text, chapterOffsets, sceneOffsets) ==
  LET full(spans) == SelectSeq(spans, LAMBDA s : Spoken(text, s.from, s.to) # {})
      scenes(c) == full(Between({c.from} \cup {o \in sceneOffsets : c.from < o /\ o < c.to}, c.to))
      chapters == full(Between({o \in chapterOffsets : o < Len(text)} \cup (IF chapterOffsets = {} THEN {0} ELSE {}), Len(text)))
  IN [i \in DOMAIN chapters |->
        [start |-> chapters[i].from, end |-> chapters[i].to,
         scenes |-> [s \in DOMAIN scenes(chapters[i]) |-> Trimmed(text, scenes(chapters[i])[s])]]]

\* _build_hierarchy and _build_scene: a chapter or a scene that says nothing
\* is left out.
BuildHierarchy(text, chapterOffsets, sceneOffsets) ==
  LET full(spans) == SelectSeq(spans, LAMBDA s : Spoken(text, s.from, s.to) # {})
      scenes(c) == full(Between({c.from} \cup {o \in sceneOffsets : c.from < o /\ o < c.to}, c.to))
      chapters == full(Between({0} \cup {o \in chapterOffsets : o < Len(text)}, Len(text)))
  IN [i \in DOMAIN chapters |->
        [start |-> chapters[i].from, end |-> chapters[i].to,
         scenes |-> [s \in DOMAIN scenes(chapters[i]) |-> Trimmed(text, scenes(chapters[i])[s])]]]

Spans(hierarchy) == FoldLeft(LAMBDA out, c : out \o c.scenes, <<>>, hierarchy)
-----------------------------------------------------------------------------
(* Verify and repair *)

\* Variant of Coverage: an overlap does not move the cursor on.
CoverageShort(spans, text) ==
  LET order == SortSeq([i \in DOMAIN spans |-> i], LAMBDA i, j :
                 \/ spans[i].from < spans[j].from
                 \/ spans[i].from = spans[j].from /\ (spans[i].to < spans[j].to \/ (spans[i].to = spans[j].to /\ i < j)))
      step(seen, i) ==
        CASE spans[i].from > seen.cursor ->
               [seen EXCEPT !.gaps = Append(@, [from |-> seen.cursor, to |-> spans[i].from]), !.cursor = spans[i].to]
          [] spans[i].from < seen.cursor -> [seen EXCEPT !.cursor = spans[i].to]
          [] OTHER -> [seen EXCEPT !.cursor = spans[i].to]
      last == FoldLeft(step, [cursor |-> 0, gaps |-> <<>>, overlaps |-> <<>>], order)
      gaps == IF last.cursor < Len(text) THEN Append(last.gaps, [from |-> last.cursor, to |-> Len(text)]) ELSE last.gaps
  IN [gaps |-> SelectSeq(gaps, LAMBDA g : Spoken(text, g.from, g.to) # {}), overlaps |-> last.overlaps]

\* verify_structure_coverage: gaps that say something, and overlaps.
Coverage(spans, text) ==
  LET order == SortSeq([i \in DOMAIN spans |-> i], LAMBDA i, j :
                 \/ spans[i].from < spans[j].from
                 \/ spans[i].from = spans[j].from /\ (spans[i].to < spans[j].to \/ (spans[i].to = spans[j].to /\ i < j)))
      step(seen, i) ==
        [cursor |-> Max({seen.cursor, spans[i].to}),
         gaps |-> IF spans[i].from > seen.cursor
                  THEN Append(seen.gaps, [from |-> seen.cursor, to |-> spans[i].from]) ELSE seen.gaps,
         overlaps |-> IF spans[i].from < seen.cursor
                      THEN Append(seen.overlaps, [from |-> spans[i].from, to |-> Min({seen.cursor, spans[i].to})])
                      ELSE seen.overlaps]
      last == FoldLeft(step, [cursor |-> 0, gaps |-> <<>>, overlaps |-> <<>>], order)
      gaps == IF last.cursor < Len(text) THEN Append(last.gaps, [from |-> last.cursor, to |-> Len(text)]) ELSE last.gaps
  IN [gaps |-> SelectSeq(gaps, LAMBDA g : Spoken(text, g.from, g.to) # {}), overlaps |-> last.overlaps]

Ok(coverage) == coverage.gaps = <<>> /\ coverage.overlaps = <<>>

\* _repair_regions: the model is asked about every region, an answer that
\* fails adds nothing.
RepairRegions(coverage, answer) ==
  LET regions == coverage.gaps \o coverage.overlaps
  IN UNION {IF answer.failed THEN {} ELSE ToSet(ParseSeam(answer.claims, regions[r])) : r \in DOMAIN regions}

\* Variant of VerifyAndRepair: what is left after the repairs is shipped.
VerifyAndRepairOpen(text, first, chapterOffsets, sceneOffsets, answer, v1) ==
  IF Ok(Coverage(Spans(first), text)) THEN [shipped |-> first, outcome |-> "none", told |-> FALSE]
  ELSE [shipped |-> first, outcome |-> "repaired", told |-> FALSE]

\* _verify_and_repair: rebuilt with the repairs until it covers the text, and
\* after the last attempt given up for the parser's hierarchy, with a review
\* task for the regions.
VerifyAndRepair(text, first, chapterOffsets, sceneOffsets, answer, v1) ==
  LET covered(state) == Ok(Coverage(Spans(state.built), text))
      repaired(state, found, i) ==
        LET starts(kind) == {c.offset : c \in {f \in found : f.kind = kind}}
            chapters == state.chapters \cup starts("chapter")
            scenes == state.scenes \cup starts("scene")
        IN [built |-> BuildHierarchy(text, chapters, scenes), chapters |-> chapters, scenes |-> scenes, attempts |-> i]
      step(state, i) ==
        IF covered(state) THEN state
        ELSE repaired(state, RepairRegions(Coverage(Spans(state.built), text), answer), i)
      shipped(last) ==
        IF covered(last)
        THEN [shipped |-> last.built, outcome |-> IF last.attempts = 0 THEN "none" ELSE "repaired", told |-> FALSE]
        ELSE [shipped |-> v1, outcome |-> "deterministic_v1_region", told |-> TRUE]
  IN shipped(FoldLeft(step, [built |-> first, chapters |-> chapterOffsets, scenes |-> sceneOffsets, attempts |-> 0],
                      [i \in 1..MaxRepairs |-> i]))

\* The boundaries the whole pipeline settles on.
Boundaries(text, answers, seamAnswers, v1) ==
  LET chunks == ChunkText(text)
      windows == SeamWindows(chunks)
      det == DeterministicBoundaries(v1)
      results == MapChunks(chunks, answers, det)
  IN AggregateBoundaries(windows, results, ReduceSeams(windows, results, seamAnswers, det))

\* compile: without a model the parser's hierarchy is what there is.
Compile(text, ready, answers, seamAnswers, repairAnswer, v1) ==
  LET offsets(claims) == {c.offset : c \in ToSet(claims)}
      verified(chapters, scenes) ==
        VerifyAndRepair(text, BuildHierarchy(text, chapters, scenes), chapters, scenes, repairAnswer, v1)
      built(found) == verified(offsets(found.chapters), offsets(found.scenes))
  IN IF ready THEN built(Boundaries(text, answers, seamAnswers, v1))
     ELSE [shipped |-> v1, outcome |-> "deterministic_compiler", told |-> FALSE]

-----------------------------------------------------------------------------
\* The model reads every unit of the text, no chunk is longer than it may
\* be, and chunking ends (chunk_text).
ChunksCover(text) ==
  LET chunks == ChunkText(text)
  IN /\ chunks[1].start = 0 /\ Last(chunks).end = Len(text)
     /\ \A i \in DOMAIN chunks : chunks[i].end - chunks[i].start \in (IF text = <<>> THEN 0 ELSE 1)..ChunkChars
     /\ \A i \in 2..Len(chunks) : /\ chunks[i - 1].start < chunks[i].start
                                  /\ chunks[i].start <= chunks[i - 1].end

\* The results of two chunks agree on what lies in their window.
Agreed(results, w) ==
  w.from < w.to /\ ClaimsAgree(InWindow(results[w.left], w), InWindow(results[w.right], w))

\* A boundary is decided once: no two of a kind are near each other, what is
\* kept somebody claimed, and of what a chunk claims outside the seams, or
\* two chunks claim alike inside one, nothing is lost but to a neighbour, or
\* in a seam to a neighbour of a neighbour; where they differ neither of them
\* decides.
BoundariesSettle(windows, results, det, found, seamAnswers) ==
  LET kept == ToSet(found.chapters) \cup ToSet(found.scenes)
      claimed == UNION {ToSet(results[n]) : n \in DOMAIN results}
      inside(c) == {w \in ToSet(windows) : c.offset \in w.from..w.to}
      agreed == {w \in ToSet(windows) : Agreed(results, w)}
      settled(c, w) == c.by \in {w.left, w.right} /\ w \in agreed
      told == UNION {IF seamAnswers[n].failed THEN {} ELSE ToSet(seamAnswers[n].claims) : n \in DOMAIN windows}
  IN /\ \A a, b \in kept : Near(a, b) => a = b
     /\ Len(found.chapters) + Len(found.scenes) = Cardinality(kept)
     /\ kept \subseteq claimed \cup ToSet(det) \cup told
     /\ \A c \in claimed : inside(c) = {} => \E k \in kept : Near(k, c)
     /\ \A c \in claimed : (\E w \in inside(c) : settled(c, w)) =>
          \E k \in kept : k.kind = c.kind /\ k.offset - c.offset \in (-2 * MatchChars)..(2 * MatchChars)
     /\ \A c \in kept \ claimed : inside(c) # {}
     /\ \A c \in kept, w \in ToSet(windows) : inside(c) = {w} /\ w \notin agreed => c.by = 0

\* Whatever the model answers, the hierarchy built from it reads every unit
\* that says something once and in order: the verifier has nothing to fault
\* and no answer costs the reader a word (StructureV2Pipeline.compile).
ManuscriptIsCovered(text, result) ==
  LET spans == Spans(result.shipped)
  IN /\ \A o \in Spoken(text, 0, Len(text)) : Cardinality({i \in DOMAIN spans : o \in spans[i].from..(spans[i].to - 1)}) = 1
     /\ \A i \in 2..Len(spans) : spans[i - 1].to <= spans[i].from
     /\ Ok(Coverage(spans, text))
     /\ result.outcome = "none"
     /\ result.told = FALSE

\* The verifier finds a fault exactly when a unit that says something is in
\* no span or a unit is in two, and what it faults is rebuilt or replaced
\* (verify_structure_coverage, _verify_and_repair).
VerifierIsExact(text, spans, result) ==
  LET reading(o) == Cardinality({i \in DOMAIN spans : o \in spans[i].from..(spans[i].to - 1)})
      sound == /\ \A o \in Spoken(text, 0, Len(text)) : reading(o) = 1
               /\ \A o \in 0..(Len(text) - 1) : reading(o) <= 1
  IN /\ Ok(Coverage(spans, text)) <=> sound
     /\ Ok(Coverage(Spans(result.shipped), text))
     /\ result.outcome = IF sound THEN "none" ELSE "repaired"
=============================================================================
