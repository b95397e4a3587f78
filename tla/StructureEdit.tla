---------------------------- MODULE StructureEdit ----------------------------
(***************************************************************************)
(* The segments of one chapter: StructureRepository's edits (split, merge, *)
(* text, lock) and StructureService.extract's replace, with the renders    *)
(* that hang on segments and the revision check of the assembler.          *)
(*                                                                         *)
(* The canonical text is a sequence of atoms 1, 2, ...  A segment made by  *)
(* the parser is named after the atoms it covers, as stable_id does; one   *)
(* made by a split has a fresh name.  An edit of the user puts two tokens  *)
(* of its own, negative numbers, in place of the text.                     *)
(*                                                                         *)
(* replace reads the rows before its first write opens the transaction, so *)
(* an edit can commit in between; the other operations are one step.       *)
(***************************************************************************)
EXTENDS Integers, Sequences, FiniteSets, SequencesExt, FiniteSetsExt, Folds

CONSTANTS
  Parse,      \* what the parser and the LLM may make of the text
  MaxEdits,   \* bound: operations of the user; the n-th names its segment or text
  MaxReplace, \* bound: extractions
  MaxRenders  \* bound: render rows at a time

VARIABLES
  segs,    \* the segment rows, by id
  scenes,  \* the scene rows in reading order: pairs of first and last atom
  renders, \* succeeded segment_renders per segment, in commit order
  attributed, \* segments with a speaker attribution row
  reading, \* what a running replace has read, or Idle
  edits, runs,
  raced,   \* history: an edit committed while a replace was under way
  rewound  \* history: a replace set a revision back

vars == <<segs, scenes, renders, attributed, reading, edits, runs,
          raced, rewound>>

Idle == [on |-> FALSE]

Scene == {<<s[1][1], Last(s)[2]>> : s \in UNION {Range(p) : p \in Parse}}
ParserId == UNION {Range(s) : s \in UNION {Range(p) : p \in Parse}}
Id == ParserId \cup {<<0, n>> : n \in 1..MaxEdits}
Token == Int \ {0}
Segment == [scene : Scene, order : Nat, start : Nat, text : Seq(Token),
            revision : Nat \ {0}, locked : BOOLEAN]
Render == [text : Seq(Token), revision : Nat \ {0}]

\* The spans of a parse come in reading order and share no atom.
ASSUME ParseAssumption ==
  \A p \in Parse :
    /\ p # <<>> /\ p \in Seq(Seq((Nat \ {0}) \X (Nat \ {0})))
    /\ \A k, l \in DOMAIN p :
         /\ p[k] # <<>>
         /\ \A n \in DOMAIN p[k], m \in DOMAIN p[l] :
              /\ p[k][n][1] <= p[k][n][2]
              /\ k < l \/ (k = l /\ n < m) => p[k][n][2] < p[l][m][1]

\* They leave no atom out: each begins where the one before ended.
ASSUME CoverAssumption ==
  \A p \in Parse : \A k \in DOMAIN p :
    /\ \A n \in DOMAIN p[k] : n > 1 => p[k][n][1] = p[k][n - 1][2] + 1
    /\ k > 1 => p[k][1][1] = Last(p[k - 1])[2] + 1

ASSUME BoundsAssumption ==
  {MaxEdits, MaxReplace, MaxRenders} \subseteq Nat

Live == DOMAIN segs

TypeOK ==
  /\ Live \subseteq Id
  /\ \A i \in Live : segs[i] \in Segment
  /\ scenes \in Seq(Scene)
  /\ DOMAIN renders = Live
  /\ \A i \in Live : renders[i] \in Seq(Render)
  /\ attributed \subseteq Live
  /\ reading = Idle \/ DOMAIN reading = {"on", "parse", "old"}
  /\ raced \in BOOLEAN /\ rewound \in BOOLEAN
-----------------------------------------------------------------------------
Atoms(first, last) == [k \in 1..(last - first + 1) |-> first + k - 1]

In(rows, scene) == {i \in DOMAIN rows : rows[i].scene = scene}

\* segments(scene_id): ORDER BY order_index.
ReadingOrder(rows, ids) ==
  CHOOSE s \in [1..Cardinality(ids) -> ids] :
    \A m, n \in DOMAIN s : m < n => s[m] # s[n] /\ rows[s[m]].order <= rows[s[n]].order

SceneText(rows, scene) ==
  LET ids == ReadingOrder(rows, In(rows, scene))
  IN FlattenSeq([n \in DOMAIN ids |-> rows[ids[n]].text])

\* The chapter as it is read aloud.
Text(rows, order) == FlattenSeq([k \in 1..Len(order) |-> SceneText(rows, order[k])])

SceneOf(s) == <<s[1][1], Last(s)[2]>>
ScenesOf(parse) == [k \in 1..Len(parse) |-> SceneOf(parse[k])]
IdsOf(parse) == UNION {Range(parse[k]) : k \in 1..Len(parse)}

\* segment_record: the row the parser wants for the n-th span of a scene.
Parsed(scene, n) ==
  [scene |-> SceneOf(scene), order |-> n - 1, start |-> scene[n][1],
   text |-> Atoms(scene[n][1], scene[n][2]), revision |-> 1]

\* The rows the parser wants, by id.
Wanted(parse) ==
  [i \in IdsOf(parse) |->
    LET k == CHOOSE k \in 1..Len(parse) : i \in Range(parse[k])
        n == CHOOSE n \in 1..Len(parse[k]) : parse[k][n] = i
    IN Parsed(parse[k], n)]

\* A row that is new has no lock.
Fresh(w) == [scene |-> w.scene, order |-> w.order, start |-> w.start, text |-> w.text,
             revision |-> w.revision, locked |-> FALSE]

\* The project has been through a first extraction.
Init ==
  /\ \E parse \in Parse :
       /\ segs = [i \in IdsOf(parse) |-> Fresh(Wanted(parse)[i])]
       /\ scenes = ScenesOf(parse)
       /\ renders = [i \in IdsOf(parse) |-> <<>>]
       /\ attributed = IdsOf(parse)
  /\ reading = Idle
  /\ edits = 0 /\ runs = 0
  /\ raced = FALSE /\ rewound = FALSE
-----------------------------------------------------------------------------
\* Bound: one edit at most commits while a replace is under way.
Edited ==
  /\ edits < MaxEdits
  /\ edits' = edits + 1
  /\ reading.on => ~raced
  /\ raced' = (raced \/ reading.on)

\* Variant of UpdateSegment: the revision is left as it is.
UpdateSegmentSameRevision(i) ==
  /\ i \in Live
  /\ segs' = [segs EXCEPT ![i].text = <<-(edits + 1), -(edits + 1)>>]
  /\ Edited
  /\ UNCHANGED <<scenes, renders, attributed, reading, runs, rewound>>

\* update_segment: new text, next revision, locked or not.
UpdateSegment(i) ==
  /\ i \in Live
  /\ segs' = [segs EXCEPT ![i].text = <<-(edits + 1), -(edits + 1)>>,
                          ![i].revision = @ + 1]
  /\ Edited
  /\ UNCHANGED <<scenes, renders, attributed, reading, runs, rewound>>

SetLock(i, locked) ==
  /\ i \in Live
  /\ segs[i].locked # locked
  /\ segs' = [segs EXCEPT ![i].locked = locked]
  /\ Edited
  /\ UNCHANGED <<scenes, renders, attributed, reading, runs, rewound>>

After(i) == {j \in In(segs, segs[i].scene) : segs[j].order > segs[i].order}

Shift(rows, ids, by) ==
  [j \in DOMAIN rows |->
    IF j \in ids THEN [rows[j] EXCEPT !.order = @ + by] ELSE rows[j]]

\* The new right half of a split.
RightHalf(i, k) ==
  [segs[i] EXCEPT !.order = @ + 1, !.start = @ + k,
                  !.text = SubSeq(@, k + 1, Len(@)),
                  !.revision = 1, !.locked = FALSE]

LeftHalf(i, k) ==
  [segs[i] EXCEPT !.text = SubSeq(@, 1, k), !.revision = @ + 1]

\* split_segment: the rest of the text goes to a new row right behind.
SplitSegment(i, k) ==
  /\ i \in Live
  /\ ~segs[i].locked
  /\ k \in 1..(Len(segs[i].text) - 1)
  /\ LET new == <<0, edits + 1>>
     IN /\ segs' = [j \in Live \cup {new} |->
                     IF j = new THEN RightHalf(i, k)
                     ELSE IF j = i THEN LeftHalf(i, k)
                     ELSE Shift(segs, After(i), 1)[j]]
        /\ renders' = [j \in Live \cup {new} |-> IF j = new THEN <<>> ELSE renders[j]]
  /\ Edited
  /\ UNCHANGED <<scenes, attributed, reading, runs, rewound>>

Without(f, ids) == [j \in DOMAIN f \ ids |-> f[j]]

\* Variant of MergeSegments: the texts the wrong way round.
MergeSegmentsSwapped(i, next) ==
  /\ {i, next} \subseteq Live
  /\ segs[i].scene = segs[next].scene
  /\ segs[next].order = segs[i].order + 1
  /\ ~segs[i].locked /\ ~segs[next].locked
  /\ next \notin attributed /\ renders[next] = <<>>
  /\ segs' = Without(
       [Shift(segs, After(next), -1) EXCEPT
         ![i].text = segs[next].text \o @, ![i].revision = @ + 1], {next})
  /\ renders' = Without(renders, {next})
  /\ Edited
  /\ UNCHANGED <<scenes, attributed, reading, runs, rewound>>

\* merge_segments: the next row's text moves here and the row is deleted.
\* Foreign keys refuse the delete while anything but revisions refers to it.
MergeSegments(i, next) ==
  /\ {i, next} \subseteq Live
  /\ segs[i].scene = segs[next].scene
  /\ segs[next].order = segs[i].order + 1
  /\ ~segs[i].locked /\ ~segs[next].locked
  /\ next \notin attributed /\ renders[next] = <<>>
  /\ segs' = Without(
       [Shift(segs, After(next), -1) EXCEPT
         ![i].text = @ \o segs[next].text, ![i].revision = @ + 1], {next})
  /\ renders' = Without(renders, {next})
  /\ Edited
  /\ UNCHANGED <<scenes, attributed, reading, runs, rewound>>

\* Unforced render: a cache hit adds no row, else the new row is the latest.
RenderSegment(i) ==
  /\ i \in Live
  /\ LET row == [text |-> segs[i].text, revision |-> segs[i].revision]
     IN /\ row \notin Range(renders[i])
        /\ MapThenSumSet(LAMBDA j : Len(renders[j]), Live) < MaxRenders
        /\ renders' = [renders EXCEPT ![i] = Append(@, row)]
  /\ UNCHANGED <<segs, scenes, attributed, reading, edits, runs, raced, rewound>>

\* The attribution pass leaves a row for every segment.
Attribute ==
  /\ attributed # Live
  /\ attributed' = Live
  /\ UNCHANGED <<segs, scenes, renders, reading, edits, runs, raced, rewound>>
-----------------------------------------------------------------------------
\* replace, up to its first write: the parse is ready, the rows are loaded.
ReplaceRead(parse) ==
  /\ ~reading.on
  /\ runs < MaxReplace
  /\ runs' = runs + 1
  /\ reading' = [on |-> TRUE, parse |-> parse, old |-> segs]
  /\ UNCHANGED <<segs, scenes, renders, attributed, edits, raced, rewound>>

LockedIn(rows) == {i \in DOMAIN rows : rows[i].locked}

\* Locked rows the parser does not name go to the first scene around their
\* start, or else to the first scene, behind everything that is there.
Target(parse, start) ==
  LET around == {k \in 1..Len(parse) :
                   start \in SceneOf(parse[k])[1]..SceneOf(parse[k])[2]}
  IN IF around = {} THEN 1 ELSE Min(around)

Homeless(parse, old) == LockedIn(old) \ IdsOf(parse)

\* The query for locked rows has no ORDER BY: turn is the order they come in.
HomelessPlace(parse, old, turn, i) ==
  LET k    == Target(parse, old[i].start)
      Before(j) == /\ Target(parse, old[j].start) = k
                   /\ turn[j] < turn[i]
  IN [scene |-> SceneOf(parse[k]),
      order |-> Len(parse[k])
                  + Cardinality({j \in Homeless(parse, old) : Before(j)})]

\* Variant of NewColumns: locks are not looked at.
NewColumnsUnlocked(parse, old, turn, i) ==
  IF i \in IdsOf(parse) THEN Wanted(parse)[i]
  ELSE HomelessPlace(parse, old, turn, i)

\* Columns replace sets on a row it has loaded.
NewColumns(parse, old, turn, i) ==
  IF i \in Homeless(parse, old) THEN HomelessPlace(parse, old, turn, i)
  ELSE IF old[i].locked
  THEN [scene |-> Wanted(parse)[i].scene, order |-> Wanted(parse)[i].order]
  ELSE Wanted(parse)[i]

Removed(parse, old) == (DOMAIN old \ LockedIn(old)) \ IdsOf(parse)

Kept(parse, old) == DOMAIN old \ Removed(parse, old)

\* The UPDATE names the columns that differ from what was loaded.
Changed(parse, old, turn, i) ==
  LET new == NewColumns(parse, old, turn, i)
  IN {f \in DOMAIN new : new[f] # old[i][f]}

Updated(parse, old, turn, i) ==
  LET new == NewColumns(parse, old, turn, i)
  IN [f \in DOMAIN segs[i] |->
        IF f \in Changed(parse, old, turn, i) THEN new[f] ELSE segs[i][f]]

Replaced(parse, old, turn) ==
  [i \in (Live \ Removed(parse, old)) \cup (IdsOf(parse) \ DOMAIN old) |->
    IF i \notin DOMAIN old /\ i \in IdsOf(parse)
    THEN Fresh(Wanted(parse)[i])
    ELSE IF i \in DOMAIN old THEN Updated(parse, old, turn, i)
    ELSE segs[i]]

\* A row to update is gone, or a row holds on to a scene to delete.
Conflict(parse, old, turn) ==
  \/ \E i \in Kept(parse, old) \ Live : Changed(parse, old, turn, i) # {}
  \/ \E i \in DOMAIN Replaced(parse, old, turn) :
       Replaced(parse, old, turn)[i].scene \notin Range(ScenesOf(parse))

\* Variant of Attributions: rows that refer to deleted segments stay.
AttributionsKept(new) == attributed

\* _delete_segment_dependents: nothing refers to a deleted segment.
Attributions(new) == attributed \cap DOMAIN new

Turn(ids) == {f \in [ids -> 1..Cardinality(ids)] : IsInjective(f)}

\* replace, from its first write to the commit: one transaction.
ReplaceCommit ==
  /\ reading.on
  /\ \E turn \in Turn(Homeless(reading.parse, reading.old)) :
       LET new == Replaced(reading.parse, reading.old, turn)
       IN /\ ~Conflict(reading.parse, reading.old, turn)
          /\ segs' = new
          /\ renders' = [i \in DOMAIN new |-> IF i \in Live THEN renders[i] ELSE <<>>]
          /\ attributed' = Attributions(new)
          /\ rewound' = \/ rewound
                        \/ \E i \in Live \cap DOMAIN new :
                             new[i].revision < segs[i].revision
  /\ scenes' = ScenesOf(reading.parse)
  /\ reading' = Idle
  /\ UNCHANGED <<edits, runs, raced>>

\* The transaction is rolled back and the job fails.
ReplaceFails ==
  /\ reading.on
  /\ \A turn \in Turn(Homeless(reading.parse, reading.old)) :
       Conflict(reading.parse, reading.old, turn)
  /\ reading' = Idle
  /\ UNCHANGED <<segs, scenes, renders, attributed, edits, runs, raced, rewound>>

Next ==
  \/ \E i \in Live : UpdateSegment(i)
  \/ \E i \in Live, locked \in BOOLEAN : SetLock(i, locked)
  \/ \E i \in Live : \E k \in 1..Len(segs[i].text) : SplitSegment(i, k)
  \/ \E i, next \in Live : MergeSegments(i, next)
  \/ \E i \in Live : RenderSegment(i)
  \/ Attribute
  \/ \E parse \in Parse : ReplaceRead(parse)
  \/ ReplaceCommit
  \/ ReplaceFails

Spec == Init /\ [][Next]_vars
-----------------------------------------------------------------------------
(***************************************************************************)
(* The rows of a scene are numbered 0, 1, 2, ...: merge and split find the *)
(* neighbour by number, assembly reads in that order.  An edit that slips  *)
(* in between a replace's reading and its writing is not counted.          *)
(***************************************************************************)
OrderIsDense ==
  ~raced =>
    \A scene \in Range(scenes) :
      LET rows == In(segs, scene)
      IN {segs[i].order : i \in rows} = 0..(Cardinality(rows) - 1)

\* No row is left behind in a scene that an extraction replaced.
RowsHaveScenes == \A i \in Live : segs[i].scene \in Range(scenes)

(***************************************************************************)
(* What every reader of the hierarchy relies on: attributions name rows    *)
(* that exist, every row is in a scene of the chapter, and the rows of a   *)
(* scene have an order without gaps.                                       *)
(***************************************************************************)
Consistent == TypeOK /\ RowsHaveScenes /\ OrderIsDense

(***************************************************************************)
(* Splitting, merging, locking and rendering never change what the chapter *)
(* says: only a text edit or an extraction does.                           *)
(***************************************************************************)
OnlyEditsChangeText ==
  [][~raced' /\ reading' = reading
       /\ ~(\E i \in Live : UpdateSegment(i))
       => Text(segs', scenes') = Text(segs, scenes)]_vars

(***************************************************************************)
(* structure-parser-v2.md 85: a locked segment comes out of an extraction  *)
(* with the text and the revision it had.                                  *)
(***************************************************************************)
LockedSurvives ==
  [][\A i \in Live :
       reading.on /\ ~reading'.on /\ i \in LockedIn(reading.old) /\ segs[i].locked
         => /\ i \in DOMAIN segs'
            /\ segs'[i].text = segs[i].text
            /\ segs'[i].revision = segs[i].revision
            /\ segs'[i].locked]_vars

(***************************************************************************)
(* extraction-pipeline-v2.md 156, "every char -> exactly 1 segment": with  *)
(* no lock and no edit on the way, an extraction leaves the canonical text,*)
(* whatever was split, merged and rewritten before.                        *)
(***************************************************************************)
ExtractionReadsSource ==
  [][reading.on /\ ~reading'.on /\ segs = reading.old /\ LockedIn(segs) = {}
       => Text(segs', scenes')
            = Atoms(SceneOf(Head(reading.parse))[1], SceneOf(Last(reading.parse))[2])]_vars

(***************************************************************************)
(* The words of the book: no operation but a text edit changes them, and   *)
(* an extraction brings the source's back.                                 *)
(***************************************************************************)
TextIsKept == OnlyEditsChangeText /\ ExtractionReadsSource

CurrentAudioIsText ==
  \A i \in Live :
    renders[i] # <<>> /\ Last(renders[i]).revision = segs[i].revision
      => Last(renders[i]).text = segs[i].text

(***************************************************************************)
(* assembly.py 363: a latest render that passes the revision check speaks  *)
(* the segment's text, as long as no extraction set a revision back.       *)
(***************************************************************************)
CheckedAudioIsText == ~rewound => CurrentAudioIsText

(***************************************************************************)
(* What the check is for, assembly.py 365, "Stale render ... Re-render     *)
(* before assembling": no chapter is assembled from audio of other text.   *)
(* The code breaks it: extraction resets an edited segment to revision 1   *)
(* and keeps its renders, so the next edit reuses the number.              *)
(***************************************************************************)
StaleAudioIsRefused == CurrentAudioIsText
=============================================================================
