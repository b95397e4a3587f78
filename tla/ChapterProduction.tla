------------------------- MODULE ChapterProduction -------------------------
(***************************************************************************)
(* One chapter in one engine: produce jobs render its segments one after   *)
(* the other and assemble them, patch requests re-render one segment and   *)
(* assemble, while text is edited.  What a job wants for a segment (voice,  *)
(* direction, pronunciations, provider) is whatever the settings resolve   *)
(* to when it starts.                                                      *)
(*                                                                         *)
(* SegmentRenderer.render is taken at the grain its callers see: the text  *)
(* revision is read first (RenderKey), the row is looked up or appended    *)
(* later in one step (RenderReturns); SegmentRender has the detail.        *)
(***************************************************************************)
EXTENDS Naturals, Sequences

CONSTANTS
  N,            \* segments of the chapter, in reading order
  Thread,       \* job workers and request threads
  Input,        \* resolved voice, direction, pronunciations and provider
  NoThread,     \* the owner of a free chapter lock
  ForceValues,  \* values of force in produce requests
  PatchAllowed, \* whether patch requests arrive
  MaxRevision,  \* bound: text revisions of a segment
  MaxRenders,   \* bound: rows of a segment
  MaxJobs,      \* bound: produce and patch requests
  MaxCrashes    \* bound: engine crashes

ASSUME SizesAssumption ==
  /\ N \in Nat \ {0} /\ MaxRevision \in Nat \ {0}
  /\ MaxRenders \in Nat /\ MaxJobs \in Nat /\ MaxCrashes \in Nat
ASSUME ThreadAssumption == NoThread \notin Thread /\ ForceValues \subseteq BOOLEAN

Segment == 1..N

VARIABLES
  revision,  \* SegmentRecord.revision
  renders,   \* succeeded segment_renders rows of each segment, oldest first
  chapters,  \* chapter_renders rows, oldest first; the last one is active
  patches,   \* patch_attempts rows
  queue,     \* latest render_queue_items row of a thread's segment
  lock,      \* _chapter_assemble_locks entry of the chapter
  pc,        \* where each thread is
  job,       \* what it knows
  started,   \* requests so far
  crashes

vars == <<revision, renders, chapters, patches, queue, lock, pc, job,
          started, crashes>>

RenderRow == [revision : 1..MaxRevision, input : Input, forced : BOOLEAN]

\* Rows of a segment are named by their position, 0 is no row.
RowNo == 0..MaxRenders

\* What render() gave a job for a segment: the revision it rendered, the row
\* it returned and how many rows there were then.
Got == [revision : 0..MaxRevision, row : RowNo, rows : RowNo]
NotGot == [revision |-> 0, row |-> 0, rows |-> 0]

ItemStatus == {"none", "running", "succeeded", "failed"}

Stage == {"idle", "editing", "rendering", "keyed", "assembling", "resolving",
          "writing", "assembled"}

Job == [n        : 1..MaxJobs,
        kind     : {"produce", "patch"},
        force    : BOOLEAN,
        want     : [Segment -> Input],      \* resolved when the job starts
        at       : 1..(N + 1),              \* segment in hand
        last     : Segment,                 \* last segment to render
        previous : RowNo,                   \* patch: latest row at the start
        revision : 0..MaxRevision,          \* read by render()
        got      : [Segment -> Got],
        text     : [Segment -> 0..MaxRevision],  \* read by assemble()
        picked   : [Segment -> RowNo]]      \* rows assemble() resolved

\* id is the number of the job that assembled it.
Chapter == [id : 1..MaxJobs, inputs : [Segment -> 1..MaxRenders]]

Patch == [segment : Segment, previous : RowNo, new : 1..MaxRenders,
          chapter : 1..MaxJobs]

NoJob == [kind |-> "none"]

TypeOK ==
  /\ revision \in [Segment -> 1..MaxRevision]
  /\ renders \in [Segment -> Seq(RenderRow)]
  /\ chapters \in Seq(Chapter)
  /\ patches \in Seq(Patch)
  /\ queue \in [Thread -> [Segment -> ItemStatus]]
  /\ lock \in Thread \cup {NoThread}
  /\ pc \in [Thread -> Stage]
  /\ job \in [Thread -> Job \cup {NoJob}]
  /\ started \in 0..MaxJobs
  /\ crashes \in 0..MaxCrashes

Init ==
  /\ revision = [s \in Segment |-> 1]
  /\ renders = [s \in Segment |-> <<>>]
  /\ chapters = <<>>
  /\ patches = <<>>
  /\ queue = [t \in Thread |-> [s \in Segment |-> "none"]]
  /\ lock = NoThread
  /\ pc = [t \in Thread |-> "idle"]
  /\ job = [t \in Thread |-> NoJob]
  /\ started = 0
  /\ crashes = 0
-----------------------------------------------------------------------------
Goto(t, stage) == pc' = [pc EXCEPT ![t] = stage]

\* The job or the request ends, well or badly.
End(t) ==
  /\ Goto(t, "idle")
  /\ job' = [job EXCEPT ![t] = NoJob]

Begin(t, kind, force, want, first, last, previous) ==
  /\ pc[t] = "idle"
  /\ started < MaxJobs
  /\ started' = started + 1
  /\ job' = [job EXCEPT ![t] =
       [n |-> started + 1, kind |-> kind, force |-> force, want |-> want, at |-> first,
        last |-> last, previous |-> previous, revision |-> 0,
        got |-> [s \in Segment |-> NotGot],
        text |-> [s \in Segment |-> 0], picked |-> [s \in Segment |-> 0]]]

Mark(t, status) == queue' = [queue EXCEPT ![t][job[t].at] = status]

\* Only produce keeps render_queue_items.
MarkIfQueued(t, status) ==
  IF job[t].kind = "produce" THEN Mark(t, status) ELSE UNCHANGED queue

Latest(s) == renders[s][Len(renders[s])]

Key(t) == [revision |-> job[t].revision, input |-> job[t].want[job[t].at],
           forced |-> job[t].force]

\* Position of the row a cache hit returns, 0 when there is none.
Hit(t) ==
  LET rows == renders[job[t].at]
      same == {i \in 1..Len(rows) : rows[i] = Key(t)}
  IN  IF job[t].force \/ same = {} THEN 0 ELSE CHOOSE i \in same : TRUE
-----------------------------------------------------------------------------
\* produce(): settings, overrides, cast voices and directions are read once
\* and resolve to whatever they say by now.
Produce(t, force) ==
  /\ \E want \in [Segment -> Input] : Begin(t, "produce", force, want, 1, N, 0)
  /\ queue' = [queue EXCEPT ![t] = [s \in Segment |-> "none"]]
  /\ Goto(t, "rendering")
  /\ UNCHANGED <<revision, renders, chapters, patches, lock, crashes>>

\* patch_segment() reads the row it is about to replace.
PatchSegment(t, s) ==
  /\ PatchAllowed
  /\ \E want \in [Segment -> Input] :
       Begin(t, "patch", TRUE, want, s, s, Len(renders[s]))
  /\ Goto(t, "editing")
  /\ UNCHANGED <<revision, renders, chapters, patches, queue, lock, crashes>>

\* It saves the new text, if any.
PatchText(t) ==
  /\ pc[t] = "editing"
  /\ \/ UNCHANGED revision
     \/ /\ revision[job[t].at] < MaxRevision
        /\ revision' = [revision EXCEPT ![job[t].at] = @ + 1]
  /\ Goto(t, "rendering")
  /\ UNCHANGED <<renders, chapters, patches, queue, lock, job, started, crashes>>

\* The queue row runs; render() reads the segment and computes the key.
RenderKey(t) ==
  /\ pc[t] = "rendering"
  /\ MarkIfQueued(t, "running")
  /\ job' = [job EXCEPT ![t].revision = revision[job[t].at]]
  /\ Goto(t, "keyed")
  /\ UNCHANGED <<revision, renders, chapters, patches, lock, started, crashes>>

\* render() returns the cached row or the one it appends; the job moves on.
RenderReturns(t) ==
  LET s    == job[t].at
      rows == IF Hit(t) # 0 THEN renders[s] ELSE Append(renders[s], Key(t))
  IN
  /\ pc[t] = "keyed"
  /\ Len(rows) <= MaxRenders
  /\ renders' = [renders EXCEPT ![s] = rows]
  /\ MarkIfQueued(t, "succeeded")
  /\ job' = [job EXCEPT
       ![t].got[s] = [revision |-> job[t].revision, rows |-> Len(rows),
                      row |-> IF Hit(t) # 0 THEN Hit(t) ELSE Len(rows)],
       ![t].at = s + 1]
  /\ Goto(t, IF s = job[t].last THEN "assembling" ELSE "rendering")
  /\ UNCHANGED <<revision, chapters, patches, lock, started, crashes>>

RenderFails(t) ==
  /\ pc[t] = "keyed"
  /\ MarkIfQueued(t, "failed")
  /\ End(t)
  /\ UNCHANGED <<revision, renders, chapters, patches, lock, started, crashes>>
-----------------------------------------------------------------------------
\* Variant of AssembleBegin: assemblies of the chapter overlap.
AssembleBeginUnlocked(t) ==
  /\ pc[t] = "assembling"
  /\ lock' = t
  /\ job' = [job EXCEPT ![t].text = revision, ![t].at = 1]
  /\ Goto(t, "resolving")
  /\ UNCHANGED <<revision, renders, chapters, patches, queue, started, crashes>>

\* assemble() gets the chapter's lock and reads the segment rows.
AssembleBegin(t) ==
  /\ pc[t] = "assembling"
  /\ lock = NoThread
  /\ lock' = t
  /\ job' = [job EXCEPT ![t].text = revision, ![t].at = 1]
  /\ Goto(t, "resolving")
  /\ UNCHANGED <<revision, renders, chapters, patches, queue, started, crashes>>

Assemblable(t) ==
  LET s == job[t].at
  IN  renders[s] # <<>> /\ Latest(s).revision = job[t].text[s]

\* Variant of AssembleInput: the oldest row.
AssembleInputOldest(t) ==
  LET s == job[t].at
  IN
  /\ pc[t] = "resolving"
  /\ Assemblable(t)
  /\ job' = [job EXCEPT ![t].picked[s] = 1, ![t].at = s + 1]
  /\ Goto(t, IF s = N THEN "writing" ELSE "resolving")
  /\ UNCHANGED <<revision, renders, chapters, patches, queue, lock, started, crashes>>

\* The newest row of the next segment, a query of its own.
AssembleInput(t) ==
  LET s == job[t].at
  IN
  /\ pc[t] = "resolving"
  /\ Assemblable(t)
  /\ job' = [job EXCEPT ![t].picked[s] = Len(renders[s]), ![t].at = s + 1]
  /\ Goto(t, IF s = N THEN "writing" ELSE "resolving")
  /\ UNCHANGED <<revision, renders, chapters, patches, queue, lock, started, crashes>>

\* Variant of AssembleFails: the exception leaves the chapter's lock taken.
AssembleFailsLocked(t) ==
  /\ \/ pc[t] = "resolving" /\ ~Assemblable(t)
     \/ pc[t] = "writing"
  /\ End(t)
  /\ UNCHANGED <<revision, renders, chapters, patches, queue, lock, started, crashes>>

\* A missing or stale render raises; so may the audio work.
AssembleFails(t) ==
  /\ \/ pc[t] = "resolving" /\ ~Assemblable(t)
     \/ pc[t] = "writing"
  /\ lock' = NoThread
  /\ End(t)
  /\ UNCHANGED <<revision, renders, chapters, patches, queue, started, crashes>>

AssembleCommit(t) ==
  /\ pc[t] = "writing"
  /\ chapters' = Append(chapters, [id |-> job[t].n, inputs |-> job[t].picked])
  /\ lock' = NoThread
  /\ Goto(t, "assembled")
  /\ UNCHANGED <<revision, renders, patches, queue, job, started, crashes>>

ProduceEnds(t) ==
  /\ pc[t] = "assembled"
  /\ job[t].kind = "produce"
  /\ End(t)
  /\ UNCHANGED <<revision, renders, chapters, patches, queue, lock, started, crashes>>

AddPatchAttempt(t) ==
  LET s == job[t].last
  IN
  /\ pc[t] = "assembled"
  /\ job[t].kind = "patch"
  /\ patches' = Append(patches,
       [segment |-> s, previous |-> job[t].previous, new |-> job[t].got[s].row,
        chapter |-> job[t].n])
  /\ End(t)
  /\ UNCHANGED <<revision, renders, chapters, queue, lock, started, crashes>>
-----------------------------------------------------------------------------
UpdateSegment(s) ==
  /\ revision[s] < MaxRevision
  /\ revision' = [revision EXCEPT ![s] = @ + 1]
  /\ UNCHANGED <<renders, chapters, patches, queue, lock, pc, job, started, crashes>>

\* The engine dies and is started again.
Crash ==
  /\ crashes < MaxCrashes
  /\ \E t \in Thread : pc[t] # "idle"
  /\ crashes' = crashes + 1
  /\ lock' = NoThread
  /\ pc' = [t \in Thread |-> "idle"]
  /\ job' = [t \in Thread |-> NoJob]
  /\ UNCHANGED <<revision, renders, chapters, patches, queue, started>>

Step(t) ==
  \/ PatchText(t)
  \/ RenderKey(t)
  \/ RenderReturns(t)
  \/ RenderFails(t)
  \/ AssembleBegin(t)
  \/ AssembleInput(t)
  \/ AssembleFails(t)
  \/ AssembleCommit(t)
  \/ ProduceEnds(t)
  \/ AddPatchAttempt(t)

Next ==
  \/ \E t \in Thread, force \in ForceValues : Produce(t, force)
  \/ \E t \in Thread, s \in Segment : PatchSegment(t, s)
  \/ \E t \in Thread : Step(t)
  \/ \E s \in Segment : UpdateSegment(s)
  \/ Crash

Spec == Init /\ [][Next]_vars

\* Threads run on: rendering and assembling return or raise.  That a voice
\* provider answers is assumed here: its line is awaited without a timeout, so
\* JobsEnd is worth no more than that.
FairSpec == Spec /\ \A t \in Thread : WF_vars(Step(t))
-----------------------------------------------------------------------------
(***************************************************************************)
(* The active chapter never falls back to older audio of a segment: what a *)
(* later chapter row stitches is at least as new.  Two assemblies read the *)
(* rows one by one while renders land, and only _chapter_assemble_lock     *)
(* keeps the one that read first from committing last.                     *)
(***************************************************************************)
InputsNeverGoBack ==
  \A i, j \in 1..Len(chapters) : i < j =>
    \A s \in Segment : chapters[i].inputs[s] <= chapters[j].inputs[s]

(***************************************************************************)
(* The chapter render a patch attempt names holds the patched segment's    *)
(* new audio, or audio newer still.                                        *)
(***************************************************************************)
PatchReachesChapter ==
  \A i \in 1..Len(patches), k \in 1..Len(chapters) :
    chapters[k].id = patches[i].chapter =>
      chapters[k].inputs[patches[i].segment] >= patches[i].new

\* What is assembled, and what is recorded about it, follows the rows.
ChaptersFollowRows ==
  /\ TypeOK
  /\ InputsNeverGoBack
  /\ PatchReachesChapter

\* Every produce job and patch request ends: nobody keeps the chapter's lock.
JobsEnd == \A t \in Thread : pc[t] # "idle" ~> pc[t] = "idle"
=============================================================================
