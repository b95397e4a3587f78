------------------------- MODULE ChapterSoundProofs --------------------------
(***************************************************************************)
(* The assemblies and patches of ChapterProduction follow the rows, and    *)
(* the plans of SoundDesk the users' decisions, for any chapter, threads,  *)
(* planners, settings and bounds.                                          *)
(***************************************************************************)
EXTENDS ChapterProduction, SoundDesk, WellFoundedInduction, TLAPS

Rendered == {"assembling", "resolving", "writing", "assembled"}

\* Where a job is in the chapter.
InPlace(t) ==
  LET j == job[t]
  IN /\ pc[t] \in {"editing", "rendering", "keyed"} => j.at <= j.last
     /\ pc[t] = "keyed" => j.revision # 0
     /\ pc[t] = "resolving" => j.at \in Segment
     /\ pc[t] \in Rendered => j.got[j.last].row \in 1..Len(renders[j.last])

\* The segments whose row an assembly has resolved.
Resolved(t, s) == pc[t] = "writing" \/ (pc[t] = "resolving" /\ s < job[t].at)

\* What an assembly has resolved exists, and no chapter row stitches anything
\* newer, nor did the job render anything newer.
PicksAreNewest(t) ==
  LET j == job[t]
  IN \A s \in Segment : Resolved(t, s) =>
       /\ j.picked[s] \in 1..Len(renders[s])
       /\ \A k \in DOMAIN chapters : chapters[k].inputs[s] <= j.picked[s]
       /\ s = j.last => j.got[s].row <= j.picked[s]

\* The chapter row of a job that goes on is there once it has committed it.
OwnChapter(t) ==
  LET j == job[t]
  IN pc[t] # "idle" =>
       /\ \A k \in DOMAIN chapters : chapters[k].id = j.n =>
            pc[t] = "assembled" /\ j.got[j.last].row <= chapters[k].inputs[j.last]
       /\ \A i \in DOMAIN patches : patches[i].chapter # j.n

Sound(t) ==
  /\ pc[t] # "idle" => job[t] \in Job /\ job[t].n <= started
  /\ pc[t] \in {"resolving", "writing"} => lock = t
  /\ InPlace(t)
  /\ PicksAreNewest(t)
  /\ OwnChapter(t)

OneJobEach ==
  \A t, u \in Thread : pc[t] # "idle" /\ pc[u] # "idle" /\ job[t].n = job[u].n => t = u

RowsFit == \A s \in Segment : Len(renders[s]) <= MaxRenders

ChaptersExist ==
  /\ \A k \in DOMAIN chapters : /\ chapters[k].id <= started
                                /\ \A s \in Segment : chapters[k].inputs[s] <= Len(renders[s])
  /\ \A i \in DOMAIN patches : patches[i].chapter <= started

IInv ==
  /\ TypeOK
  /\ \A t \in Thread : Sound(t)
  /\ OneJobEach
  /\ RowsFit
  /\ ChaptersExist
  /\ InputsNeverGoBack
  /\ PatchReachesChapter
-----------------------------------------------------------------------------
\* The sizes, and what a job is.
LEMMA Basics ==
  ASSUME IInv, NEW t \in Thread
  PROVE  /\ Sound(t) /\ pc[t] \in Stage /\ started \in Nat
         /\ pc[t] # "idle" => job[t] \in Job /\ job[t].at \in 1..(N + 1) /\ job[t].last \in Segment
         /\ N \in Nat \ {0} /\ MaxRevision \in Nat \ {0} /\ MaxRenders \in Nat /\ MaxJobs \in Nat
BY SMTT(30), SizesAssumption DEF IInv, TypeOK, Sound, Job

\* The rows of a segment are numbered.
LEMMA Rows ==
  ASSUME IInv, NEW s \in Segment
  PROVE  renders[s] \in Seq(RenderRow) /\ Len(renders[s]) \in Nat /\ Len(renders[s]) <= MaxRenders
BY DEF IInv, TypeOK, RowsFit

\* One thread goes on with its job, or ends it, and rows may be added: nothing
\* is committed to the chapter and no patch is recorded.
LEMMA MoveIInv ==
  ASSUME IInv, TypeOK', NEW t \in Thread,
         \A u \in Thread : u # t => pc'[u] = pc[u] /\ job'[u] = job[u] /\ (lock = u => lock' = u),
         \A s \in Segment : Len(renders[s]) <= Len(renders'[s]) /\ Len(renders'[s]) <= MaxRenders,
         UNCHANGED <<chapters, patches, started>>,
         pc'[t] # "idle" => pc[t] # "idle" /\ job'[t].n = job[t].n,
         Sound(t)'
  PROVE  IInv'
<1>1. ASSUME NEW u \in Thread, u # t PROVE Sound(u)'
  <2>0. Sound(u) /\ (pc[u] # "idle" => job[u] \in Job /\ job[u].last \in Segment)
    BY Basics
  <2>1. \A s \in Segment : Len(renders[s]) \in Nat /\ Len(renders'[s]) \in Nat
    BY Rows DEF TypeOK
  <2>2. InPlace(u)'
    BY SMTT(30), <1>1, <2>0, <2>1 DEF Sound, InPlace, Rendered
  <2>3. PicksAreNewest(u)'
    <3>1. \A s \in Segment : Resolved(u, s)' <=> Resolved(u, s)
      BY <1>1 DEF Resolved
    <3> QED
      BY <1>1, <2>0, <2>1, <3>1 DEF Sound, PicksAreNewest
  <2>4. OwnChapter(u)'
    BY <1>1, <2>0 DEF Sound, OwnChapter
  <2> QED
    BY <1>1, <2>0, <2>2, <2>3, <2>4 DEF Sound
<1>2. OneJobEach'
  BY DEF IInv, OneJobEach
<1>3. RowsFit'
  BY DEF RowsFit
<1>4. ChaptersExist'
  <2>1. \A k \in DOMAIN chapters : \A s \in Segment : chapters[k].inputs[s] \in Nat
    <3>1. \A k \in DOMAIN chapters : chapters[k] \in Chapter
      BY DEF IInv, TypeOK
    <3> QED
      BY <3>1 DEF Chapter
  <2>2. \A s \in Segment : Len(renders[s]) \in Nat /\ Len(renders'[s]) \in Nat
    BY Rows DEF TypeOK
  <2> QED
    BY <2>1, <2>2 DEF IInv, ChaptersExist
<1>5. InputsNeverGoBack' /\ PatchReachesChapter'
  BY DEF IInv, InputsNeverGoBack, PatchReachesChapter
<1> QED
  BY <1>1, <1>2, <1>3, <1>4, <1>5 DEF IInv

\* A job or a request ends.
LEMMA EndIInv ==
  ASSUME IInv, NEW t \in Thread, End(t), queue' \in [Thread -> [Segment -> ItemStatus]],
         lock' \in Thread \cup {NoThread}, \A u \in Thread : u # t => (lock = u => lock' = u),
         UNCHANGED <<revision, renders, chapters, patches, started, crashes>>
  PROVE  IInv'
<1>1. /\ pc' = [pc EXCEPT ![t] = "idle"] /\ job' = [job EXCEPT ![t] = NoJob]
  BY DEF End, Goto
<1>2. TypeOK'
  BY <1>1 DEF IInv, TypeOK, Stage
<1>3. pc'[t] = "idle" /\ \A u \in Thread : u # t => pc'[u] = pc[u] /\ job'[u] = job[u]
  BY <1>1 DEF IInv, TypeOK
<1>4. Sound(t)'
  BY <1>3 DEF Sound, InPlace, PicksAreNewest, Resolved, OwnChapter, Rendered
<1> QED
  BY <1>2, <1>3, <1>4, Rows, MoveIInv

\* The status of the queue's row.
LEMMA MarkTyped ==
  ASSUME IInv, NEW t \in Thread, NEW status \in ItemStatus, MarkIfQueued(t, status)
  PROVE  queue' \in [Thread -> [Segment -> ItemStatus]]
<1> DEFINE row == [queue[t] EXCEPT ![job[t].at] = status]
<1>1. queue \in [Thread -> [Segment -> ItemStatus]]
  BY DEF IInv, TypeOK
<1>2. row \in [Segment -> ItemStatus]
  BY <1>1
<1>3. CASE queue' = [queue EXCEPT ![t] = row]
  BY <1>1, <1>2, <1>3
<1>4. CASE queue' = queue
  BY <1>1, <1>4
<1> QED
  BY <1>1, <1>3, <1>4 DEF MarkIfQueued, Mark

\* A render has failed.
LEMMA RenderFailsIInv ==
  ASSUME IInv, NEW t \in Thread, RenderFails(t)
  PROVE  IInv'
<1>1. lock' \in Thread \cup {NoThread} /\ lock' = lock
  BY DEF RenderFails, IInv, TypeOK
<1>2. "failed" \in ItemStatus
  BY DEF ItemStatus
<1> QED
  BY <1>1, <1>2, MarkTyped, EndIInv DEF RenderFails

\* An assembly has failed: the lock is free again.
LEMMA AssembleFailsIInv ==
  ASSUME IInv, NEW t \in Thread, AssembleFails(t)
  PROVE  IInv'
<1>1. lock = t
  BY Basics DEF AssembleFails, Sound
<1>2. queue' \in [Thread -> [Segment -> ItemStatus]] /\ lock' = NoThread
  BY DEF AssembleFails, IInv, TypeOK
<1> QED
  BY <1>1, <1>2, EndIInv DEF AssembleFails

\* A produce job ends.
LEMMA ProduceEndsIInv ==
  ASSUME IInv, NEW t \in Thread, ProduceEnds(t)
  PROVE  IInv'
<1>1. queue' \in [Thread -> [Segment -> ItemStatus]] /\ lock' = lock /\ lock \in Thread \cup {NoThread}
  BY DEF ProduceEnds, IInv, TypeOK
<1> QED
  BY <1>1, EndIInv DEF ProduceEnds

\* A patch has saved its text.
LEMMA PatchTextIInv ==
  ASSUME IInv, NEW t \in Thread, PatchText(t)
  PROVE  IInv'
<1>1. pc[t] = "editing" /\ pc' = [pc EXCEPT ![t] = "rendering"]
      /\ UNCHANGED <<renders, chapters, patches, queue, lock, job, started, crashes>>
  BY DEF PatchText, Goto
<1>2. revision' \in [Segment -> 1..MaxRevision]
  <2>1. revision \in [Segment -> 1..MaxRevision] /\ MaxRevision \in Nat
    BY SizesAssumption DEF IInv, TypeOK
  <2>2. job[t].at \in Segment
    BY <1>1, Basics DEF Sound, InPlace, Segment
  <2>3. \/ revision' = revision
        \/ revision[job[t].at] < MaxRevision /\ revision' = [revision EXCEPT ![job[t].at] = revision[job[t].at] + 1]
    BY DEF PatchText
  <2> QED
    BY <2>1, <2>2, <2>3
<1>3. TypeOK'
  BY <1>1, <1>2 DEF IInv, TypeOK, Stage
<1>4. pc'[t] = "rendering" /\ job'[t] = job[t] /\ \A u \in Thread : u # t => pc'[u] = pc[u]
  BY <1>1 DEF IInv, TypeOK
<1>5. Sound(t)'
  BY <1>1, <1>4, Basics DEF Sound, InPlace, PicksAreNewest, Resolved, OwnChapter, Rendered
<1> QED
  BY <1>1, <1>3, <1>4, <1>5, Rows, MoveIInv

\* render() reads the segment.
LEMMA RenderKeyIInv ==
  ASSUME IInv, NEW t \in Thread, RenderKey(t)
  PROVE  IInv'
<1>0. pc[t] = "rendering" /\ job[t] \in Job /\ Sound(t) /\ job[t].at \in Segment
  <2>1. pc[t] = "rendering"
    BY DEF RenderKey
  <2>2. job[t].at \in 1..(N + 1) /\ job[t].last \in 1..N /\ job[t].at <= job[t].last /\ N \in Nat
    BY <2>1, Basics DEF Sound, InPlace, Segment
  <2> QED
    BY <2>1, <2>2, Basics DEF Segment
<1> DEFINE b == [job[t] EXCEPT !.revision = revision[job[t].at]]
<1>1. revision[job[t].at] \in 1..MaxRevision /\ 0 \notin 1..MaxRevision
  BY <1>0 DEF IInv, TypeOK
<1>2. /\ b \in Job /\ b.n = job[t].n /\ b.at = job[t].at /\ b.last = job[t].last /\ b.got = job[t].got
      /\ b.picked = job[t].picked /\ b.revision # 0
  BY <1>0, <1>1 DEF Job
<1>3. job' = [job EXCEPT ![t] = b] /\ pc' = [pc EXCEPT ![t] = "keyed"]
      /\ UNCHANGED <<revision, renders, chapters, patches, lock, started, crashes>>
  BY DEF RenderKey, Goto, IInv, TypeOK
<1>4. queue' \in [Thread -> [Segment -> ItemStatus]]
  BY MarkTyped DEF RenderKey, ItemStatus
<1> HIDE DEF b
<1>5. TypeOK'
  BY <1>2, <1>3, <1>4 DEF IInv, TypeOK, Stage
<1>6. /\ pc'[t] = "keyed" /\ job'[t] = b
      /\ \A u \in Thread : u # t => pc'[u] = pc[u] /\ job'[u] = job[u]
  BY <1>3 DEF IInv, TypeOK
<1>7. Sound(t)'
  BY <1>0, <1>2, <1>3, <1>6 DEF Sound, InPlace, PicksAreNewest, Resolved, OwnChapter, Rendered
<1> QED
  BY <1>0, <1>2, <1>3, <1>5, <1>6, <1>7, Rows, MoveIInv

\* The row a render returns is one of the segment's.
LEMMA HitIsRow ==
  ASSUME IInv, NEW t \in Thread, job[t].at \in Segment, Hit(t) # 0
  PROVE  Hit(t) \in 1..Len(renders[job[t].at])
BY DEF Hit

\* render() returns.
LEMMA RenderReturnsIInv ==
  ASSUME IInv, NEW t \in Thread, RenderReturns(t)
  PROVE  IInv'
<1>s. PICK s : s = job[t].at
  OBVIOUS
<1>r. PICK rows : rows = IF Hit(t) # 0 THEN renders[s] ELSE Append(renders[s], Key(t))
  OBVIOUS
<1>w. PICK row : row = IF Hit(t) # 0 THEN Hit(t) ELSE Len(rows)
  OBVIOUS
<1>p. PICK stage : stage = IF s = job[t].last THEN "assembling" ELSE "rendering"
  OBVIOUS
<1>0. pc[t] = "keyed" /\ job[t] \in Job /\ Sound(t) /\ s \in Segment /\ s <= job[t].last /\ job[t].last \in Segment
      /\ s + 1 \in 1..(N + 1) /\ job[t].revision # 0
  <2>1. pc[t] = "keyed"
    BY DEF RenderReturns
  <2>2. s \in 1..(N + 1) /\ job[t].last \in 1..N /\ s <= job[t].last /\ N \in Nat /\ job[t].revision # 0
    BY <1>s, <2>1, Basics DEF Sound, InPlace, Segment
  <2> QED
    BY <2>1, <2>2, Basics DEF Segment
<1>1. rows \in Seq(RenderRow) /\ Len(rows) <= MaxRenders /\ Len(renders[s]) <= Len(rows) /\ row \in 1..Len(rows)
      /\ Len(rows) \in Nat
  <2>1. Key(t) \in RenderRow
    BY <1>s, <1>0 DEF Key, RenderRow, Job
  <2>2. Len(rows) <= MaxRenders
    BY <1>s, <1>r DEF RenderReturns
  <2>3. renders[s] \in Seq(RenderRow) /\ Len(renders[s]) \in Nat
    BY <1>0, Rows
  <2>4. CASE Hit(t) # 0
    BY <1>s, <1>r, <1>w, <1>0, <2>2, <2>3, <2>4, HitIsRow
  <2>5. CASE Hit(t) = 0
    BY <1>r, <1>w, <2>1, <2>2, <2>3, <2>5
  <2> QED
    BY <2>4, <2>5
<1> DEFINE got == [job[t].got EXCEPT ![s] = [revision |-> job[t].revision, rows |-> Len(rows), row |-> row]]
           b == [job[t] EXCEPT !.got = got, !.at = s + 1]
<1>2. /\ job' = [job EXCEPT ![t] = b] /\ pc' = [pc EXCEPT ![t] = stage]
      /\ renders' = [renders EXCEPT ![s] = rows]
      /\ UNCHANGED <<revision, chapters, patches, lock, started, crashes>>
  BY <1>s, <1>r, <1>w, <1>p, <1>0 DEF RenderReturns, Goto, IInv, TypeOK
<1>3. queue' \in [Thread -> [Segment -> ItemStatus]]
  BY MarkTyped DEF RenderReturns, ItemStatus
<1>4. stage \in {"assembling", "rendering"} /\ (stage = "assembling" => s = job[t].last)
      /\ (stage = "rendering" => s # job[t].last)
  BY <1>p
<1>5. got \in [Segment -> Got] /\ got[s].row = row
  <2>1. [revision |-> job[t].revision, rows |-> Len(rows), row |-> row] \in Got
    BY <1>0, <1>1, SizesAssumption DEF Got, RowNo, Job
  <2> QED
    BY <1>0, <2>1 DEF Job
<1> HIDE DEF got
<1>6. /\ b \in Job /\ b.n = job[t].n /\ b.at = s + 1 /\ b.last = job[t].last /\ b.got = got
      /\ b.picked = job[t].picked
  BY <1>0, <1>5 DEF Job
<1> HIDE DEF b
<1>7. /\ pc'[t] = stage /\ job'[t] = b
      /\ \A u \in Thread : u # t => pc'[u] = pc[u] /\ job'[u] = job[u]
      /\ renders'[s] = rows /\ \A r \in Segment : r # s => renders'[r] = renders[r]
  BY <1>0, <1>2 DEF IInv, TypeOK
<1>8. TypeOK'
  BY <1>0, <1>1, <1>2, <1>3, <1>4, <1>6 DEF IInv, TypeOK, Stage
<1>9. Sound(t)'
  <2>1. InPlace(t)'
    <3>1. CASE stage = "assembling"
      BY <1>1, <1>4, <1>5, <1>6, <1>7, <3>1 DEF InPlace, Rendered
    <3>2. CASE stage = "rendering"
      <4>1. s + 1 <= job[t].last
        BY <1>0, <1>4, <3>2, SizesAssumption DEF Segment
      <4> QED
        BY <1>6, <1>7, <3>2, <4>1 DEF InPlace, Rendered
    <3> QED
      BY <1>4, <3>1, <3>2
  <2> QED
    BY <1>0, <1>2, <1>4, <1>6, <1>7, <2>1 DEF Sound, PicksAreNewest, Resolved, OwnChapter
<1>10. \A r \in Segment : Len(renders[r]) <= Len(renders'[r]) /\ Len(renders'[r]) <= MaxRenders
  BY <1>1, <1>7, Rows
<1> QED
  BY <1>0, <1>2, <1>4, <1>6, <1>7, <1>8, <1>9, <1>10, MoveIInv

\* assemble() gets the chapter's lock.
LEMMA AssembleBeginIInv ==
  ASSUME IInv, NEW t \in Thread, AssembleBegin(t)
  PROVE  IInv'
<1> DEFINE b == [job[t] EXCEPT !.text = revision, !.at = 1]
<1>0. pc[t] = "assembling" /\ job[t] \in Job /\ Sound(t) /\ 1 \in Segment /\ 1 \in 1..(N + 1)
  BY Basics DEF AssembleBegin, Segment
<1>1. revision \in [Segment -> 0..MaxRevision]
  BY SizesAssumption DEF IInv, TypeOK
<1>2. /\ b \in Job /\ b.n = job[t].n /\ b.at = 1 /\ b.last = job[t].last /\ b.got = job[t].got
      /\ b.picked = job[t].picked
  BY <1>0, <1>1 DEF Job
<1>3. job' = [job EXCEPT ![t] = b] /\ pc' = [pc EXCEPT ![t] = "resolving"] /\ lock = NoThread /\ lock' = t
      /\ UNCHANGED <<revision, renders, chapters, patches, queue, started, crashes>>
  BY DEF AssembleBegin, Goto, IInv, TypeOK
<1> HIDE DEF b
<1>4. TypeOK'
  BY <1>2, <1>3 DEF IInv, TypeOK, Stage
<1>5. /\ pc'[t] = "resolving" /\ job'[t] = b
      /\ \A u \in Thread : u # t => pc'[u] = pc[u] /\ job'[u] = job[u]
  BY <1>3 DEF IInv, TypeOK
<1>6. \A s \in Segment : ~(s < 1)
  BY DEF Segment
<1>7. Sound(t)'
  BY <1>0, <1>2, <1>3, <1>5, <1>6 DEF Sound, InPlace, PicksAreNewest, Resolved, OwnChapter, Rendered
<1> QED
  BY <1>0, <1>2, <1>3, <1>4, <1>5, <1>7, ThreadAssumption, Rows, MoveIInv

\* assemble() resolves the row of the next segment.
LEMMA AssembleInputIInv ==
  ASSUME IInv, NEW t \in Thread, AssembleInput(t)
  PROVE  IInv'
<1>s. PICK s : s = job[t].at
  OBVIOUS
<1>p. PICK stage : stage = IF s = N THEN "writing" ELSE "resolving"
  OBVIOUS
<1>r. PICK row : row = Len(renders[s])
  OBVIOUS
<1>0. pc[t] = "resolving" /\ job[t] \in Job /\ Sound(t) /\ s \in Segment /\ job[t].last \in Segment
      /\ renders[s] # <<>>
  BY <1>s, Basics DEF AssembleInput, Assemblable, Sound, InPlace
<1>1. row \in Nat /\ row <= MaxRenders /\ row \in 1..row /\ row \in RowNo
  BY <1>0, <1>r, Rows, SizesAssumption DEF RowNo
<1>2. s \in Nat /\ N \in Nat /\ s <= N /\ s + 1 \in 1..(N + 1) /\ (stage = "resolving" => s + 1 \in Segment)
  BY <1>0, <1>p, SizesAssumption DEF Segment
<1> DEFINE picked == [job[t].picked EXCEPT ![s] = row]
           b == [job[t] EXCEPT !.picked = picked, !.at = s + 1]
<1>3. picked \in [Segment -> RowNo] /\ picked[s] = row /\ \A r \in Segment : r # s => picked[r] = job[t].picked[r]
  BY <1>0, <1>1 DEF Job
<1>4. /\ job' = [job EXCEPT ![t] = b] /\ pc' = [pc EXCEPT ![t] = stage]
      /\ UNCHANGED <<revision, renders, chapters, patches, queue, lock, started, crashes>>
  BY <1>s, <1>p, <1>r, <1>0 DEF AssembleInput, Goto, IInv, TypeOK
<1> HIDE DEF picked
<1>5. /\ b \in Job /\ b.n = job[t].n /\ b.at = s + 1 /\ b.last = job[t].last /\ b.got = job[t].got
      /\ b.picked = picked
  BY <1>0, <1>2, <1>3 DEF Job
<1> HIDE DEF b
<1>6. stage \in {"writing", "resolving"} /\ (stage = "writing" => s = N)
  BY <1>p
<1>7. /\ pc'[t] = stage /\ job'[t] = b
      /\ \A u \in Thread : u # t => pc'[u] = pc[u] /\ job'[u] = job[u]
  BY <1>4 DEF IInv, TypeOK
<1>8. TypeOK'
  BY <1>4, <1>5, <1>6 DEF IInv, TypeOK, Stage
<1>9. PicksAreNewest(t)'
  <2>1. ASSUME NEW r \in Segment, Resolved(t, r)' PROVE r = s \/ Resolved(t, r)
    BY <1>s, <1>0, <1>2, <1>5, <1>6, <1>7, <2>1 DEF Resolved, Segment
  <2>2. \A k \in DOMAIN chapters : chapters[k].inputs[s] <= row
    BY <1>0, <1>r DEF IInv, ChaptersExist
  <2>3. s = job[t].last => job[t].got[s].row <= row
    BY <1>0, <1>r, Rows DEF Sound, InPlace, Rendered
  <2>4. \A r \in Segment : r # s /\ Resolved(t, r) =>
          /\ job[t].picked[r] \in 1..Len(renders[r])
          /\ \A k \in DOMAIN chapters : chapters[k].inputs[r] <= job[t].picked[r]
          /\ r = job[t].last => job[t].got[r].row <= job[t].picked[r]
    BY <1>0 DEF Sound, PicksAreNewest
  <2> QED
    BY <1>r, <1>1, <1>3, <1>4, <1>5, <1>7, <2>1, <2>2, <2>3, <2>4 DEF PicksAreNewest
<1>10. Sound(t)'
  BY <1>0, <1>2, <1>4, <1>5, <1>6, <1>7, <1>9 DEF Sound, InPlace, OwnChapter, Rendered
<1> QED
  BY <1>0, <1>4, <1>5, <1>7, <1>8, <1>10, Rows, MoveIInv

\* The assembly commits its chapter row.
LEMMA AssembleCommitIInv ==
  ASSUME IInv, NEW t \in Thread, AssembleCommit(t)
  PROVE  IInv'
<1> DEFINE row == [id |-> job[t].n, inputs |-> job[t].picked]
<1>0. pc[t] = "writing" /\ job[t] \in Job /\ Sound(t) /\ job[t].last \in Segment /\ lock = t /\ job[t].n <= started
  BY Basics DEF AssembleCommit, Sound
<1>1. \A s \in Segment : /\ job[t].picked[s] \in 1..Len(renders[s])
                         /\ \A k \in DOMAIN chapters : chapters[k].inputs[s] <= job[t].picked[s]
                         /\ s = job[t].last => job[t].got[s].row <= job[t].picked[s]
  BY <1>0 DEF Sound, PicksAreNewest, Resolved
<1>2. row \in Chapter /\ row.id = job[t].n /\ row.inputs = job[t].picked
  <2>1. job[t].n \in 1..MaxJobs /\ job[t].picked \in [Segment -> RowNo]
    BY <1>0 DEF Job
  <2>2. \A s \in Segment : job[t].picked[s] \in 1..MaxRenders
    BY <1>1, <2>1, Rows, SizesAssumption DEF RowNo
  <2> QED
    BY <2>1, <2>2 DEF Chapter
<1>3. chapters' = Append(chapters, row) /\ lock' = NoThread /\ pc' = [pc EXCEPT ![t] = "assembled"]
      /\ UNCHANGED <<revision, renders, patches, queue, job, started, crashes>>
  BY DEF AssembleCommit, Goto
<1> HIDE DEF row
<1>4. /\ chapters' \in Seq(Chapter) /\ Len(chapters') = Len(chapters) + 1 /\ Len(chapters) \in Nat
      /\ DOMAIN chapters' = 1..(Len(chapters) + 1) /\ DOMAIN chapters = 1..Len(chapters)
      /\ chapters'[Len(chapters) + 1] = row
      /\ \A k \in DOMAIN chapters : chapters'[k] = chapters[k]
  BY <1>2, <1>3 DEF IInv, TypeOK
<1>5. TypeOK'
  BY <1>3, <1>4 DEF IInv, TypeOK, Stage
<1>6. pc'[t] = "assembled" /\ \A u \in Thread : u # t => pc'[u] = pc[u]
  BY <1>3 DEF IInv, TypeOK
<1>7. ASSUME NEW u \in Thread PROVE Sound(u)'
  <2>0. Sound(u)
    BY SMTT(30), Basics
  <2>1. CASE u = t
    BY <1>0, <1>1, <1>2, <1>3, <1>4, <1>6, <2>1
       DEF Sound, InPlace, PicksAreNewest, Resolved, OwnChapter, Rendered
  <2>2. CASE u # t
    <3>1. pc[u] \notin {"resolving", "writing"}
      BY <1>0, <2>0, <2>2 DEF Sound
    <3>2. pc[u] # "idle" => job[u].n # row.id
      BY <1>0, <1>2, <2>2 DEF IInv, OneJobEach
    <3> QED
      BY <1>3, <1>4, <1>6, <2>0, <2>2, <3>1, <3>2
         DEF Sound, InPlace, PicksAreNewest, Resolved, OwnChapter, Rendered
  <2> QED
    BY <2>1, <2>2
<1>8. OneJobEach' /\ RowsFit'
  BY <1>0, <1>3, <1>6 DEF IInv, OneJobEach, RowsFit
<1>9. ChaptersExist'
  BY <1>0, <1>1, <1>2, <1>3, <1>4, Rows DEF IInv, ChaptersExist
<1>10. InputsNeverGoBack'
  BY <1>1, <1>2, <1>4 DEF IInv, InputsNeverGoBack
<1>11. PatchReachesChapter'
  <2>1. \A i \in 1..Len(patches) : patches[i].chapter # row.id
    BY <1>0, <1>2 DEF Sound, OwnChapter, IInv, TypeOK
  <2> QED
    BY <1>3, <1>4, <2>1 DEF IInv, PatchReachesChapter
<1> QED
  BY <1>5, <1>7, <1>8, <1>9, <1>10, <1>11 DEF IInv

\* A patch records its attempt.
LEMMA AddPatchAttemptIInv ==
  ASSUME IInv, NEW t \in Thread, AddPatchAttempt(t)
  PROVE  IInv'
<1>s. PICK s : s = job[t].last
  OBVIOUS
<1> DEFINE row == [segment |-> s, previous |-> job[t].previous, new |-> job[t].got[s].row, chapter |-> job[t].n]
<1>0. pc[t] = "assembled" /\ job[t] \in Job /\ Sound(t) /\ s \in Segment /\ job[t].n <= started
      /\ job[t].got[s].row \in 1..Len(renders[s])
  BY <1>s, Basics DEF AddPatchAttempt, Sound, InPlace, Rendered
<1>1. row \in Patch /\ row.segment = s /\ row.new = job[t].got[s].row /\ row.chapter = job[t].n
  <2>1. job[t].n \in 1..MaxJobs /\ job[t].previous \in RowNo
    BY <1>0 DEF Job
  <2>2. job[t].got[s].row \in 1..MaxRenders
    BY <1>0, Rows, SizesAssumption
  <2> QED
    BY <1>0, <2>1, <2>2 DEF Patch
<1>2. /\ patches' = Append(patches, row) /\ pc' = [pc EXCEPT ![t] = "idle"] /\ job' = [job EXCEPT ![t] = NoJob]
      /\ UNCHANGED <<revision, renders, chapters, queue, lock, started, crashes>>
  BY <1>s DEF AddPatchAttempt, End, Goto
<1> HIDE DEF row
<1>3. /\ patches' \in Seq(Patch) /\ Len(patches) \in Nat /\ DOMAIN patches = 1..Len(patches)
      /\ DOMAIN patches' = 1..(Len(patches) + 1) /\ Len(patches') = Len(patches) + 1
      /\ patches'[Len(patches) + 1] = row /\ \A i \in DOMAIN patches : patches'[i] = patches[i]
  BY <1>1, <1>2 DEF IInv, TypeOK
<1>4. TypeOK'
  BY <1>2, <1>3 DEF IInv, TypeOK, Stage
<1>5. pc'[t] = "idle" /\ \A u \in Thread : u # t => pc'[u] = pc[u] /\ job'[u] = job[u]
  BY <1>2 DEF IInv, TypeOK
<1>6. ASSUME NEW u \in Thread PROVE Sound(u)'
  <2>0. Sound(u)
    BY SMTT(30), Basics
  <2>1. CASE u = t
    BY <1>5, <2>1 DEF Sound, InPlace, PicksAreNewest, Resolved, OwnChapter, Rendered
  <2>2. CASE u # t
    <3>1. pc[u] # "idle" => job[u].n # row.chapter
      BY <1>0, <1>1, <2>2 DEF IInv, OneJobEach
    <3> QED
      BY <1>2, <1>3, <1>5, <2>0, <2>2, <3>1
         DEF Sound, InPlace, PicksAreNewest, Resolved, OwnChapter, Rendered
  <2> QED
    BY <2>1, <2>2
<1>7. OneJobEach' /\ RowsFit'
  BY <1>2, <1>5 DEF IInv, OneJobEach, RowsFit
<1>8. ChaptersExist'
  BY <1>0, <1>1, <1>2, <1>3 DEF IInv, ChaptersExist
<1>9. InputsNeverGoBack'
  BY <1>2 DEF IInv, InputsNeverGoBack
<1>10. PatchReachesChapter'
  <2>1. \A k \in 1..Len(chapters) : chapters[k].id = row.chapter => chapters[k].inputs[row.segment] >= row.new
    <3>1. \A k \in DOMAIN chapters : chapters[k].inputs[s] \in Nat /\ DOMAIN chapters = 1..Len(chapters)
      <4>1. \A k \in DOMAIN chapters : chapters[k] \in Chapter
        BY DEF IInv, TypeOK
      <4> QED
        BY <1>0, <4>1 DEF Chapter, IInv, TypeOK
    <3> QED
      BY <1>s, <1>0, <1>1, <3>1, Rows DEF Sound, OwnChapter
  <2> QED
    BY <1>2, <1>3, <2>1 DEF IInv, PatchReachesChapter
<1> QED
  BY <1>4, <1>6, <1>7, <1>8, <1>9, <1>10 DEF IInv

\* A request begins.
LEMMA BeginIInv ==
  ASSUME IInv, NEW t \in Thread, NEW kind \in {"produce", "patch"}, NEW force \in BOOLEAN,
         NEW want \in [Segment -> Input], NEW first \in Segment, NEW last \in Segment, NEW previous \in RowNo,
         Begin(t, kind, force, want, first, last, previous), first <= last,
         NEW stage \in {"rendering", "editing"}, Goto(t, stage),
         queue' \in [Thread -> [Segment -> ItemStatus]],
         UNCHANGED <<revision, renders, chapters, patches, lock, crashes>>
  PROVE  IInv'
<1>n. PICK n : n = started + 1
  OBVIOUS
<1> DEFINE b == [n |-> n, kind |-> kind, force |-> force, want |-> want, at |-> first,
                 last |-> last, previous |-> previous, revision |-> 0,
                 got |-> [s \in Segment |-> NotGot],
                 text |-> [s \in Segment |-> 0], picked |-> [s \in Segment |-> 0]]
<1>1. pc[t] = "idle" /\ started' = n /\ n \in 1..MaxJobs /\ started \in Nat /\ started < n
  BY <1>n, SizesAssumption DEF Begin, IInv, TypeOK
<1>2. /\ b \in Job /\ b.n = n /\ b.at = first /\ b.last = last
  <2>1. [s \in Segment |-> NotGot] \in [Segment -> Got] /\ [s \in Segment |-> 0] \in [Segment -> 0..MaxRevision]
        /\ [s \in Segment |-> 0] \in [Segment -> RowNo] /\ first \in 1..(N + 1) /\ 0 \in 0..MaxRevision
    BY SizesAssumption DEF NotGot, Got, RowNo, Segment
  <2> QED
    BY <1>1, <2>1 DEF Job
<1>3. job' = [job EXCEPT ![t] = b] /\ pc' = [pc EXCEPT ![t] = stage]
  BY <1>n DEF Begin, Goto
<1> HIDE DEF b
<1>4. TypeOK'
  BY <1>1, <1>2, <1>3 DEF IInv, TypeOK, Stage
<1>5. /\ pc'[t] = stage /\ job'[t] = b
      /\ \A u \in Thread : u # t => pc'[u] = pc[u] /\ job'[u] = job[u]
  BY <1>3 DEF IInv, TypeOK
<1>6. (\A k \in DOMAIN chapters : chapters[k].id # n) /\ \A i \in DOMAIN patches : patches[i].chapter # n
  BY <1>1 DEF IInv, ChaptersExist
<1>7. ASSUME NEW u \in Thread PROVE Sound(u)'
  <2>0. Sound(u) /\ (pc[u] # "idle" => job[u].n \in Nat)
    BY Basics DEF Job
  <2>1. CASE u = t
    BY <1>1, <1>2, <1>5, <1>6, <2>1 DEF Sound, InPlace, PicksAreNewest, Resolved, OwnChapter, Rendered
  <2>2. CASE u # t
    BY SMTT(30), <1>1, <1>5, <2>0, <2>2 DEF Sound, InPlace, PicksAreNewest, Resolved, OwnChapter, Rendered
  <2> QED
    BY <2>1, <2>2
<1>8. OneJobEach'
  <2>1. \A u \in Thread : pc[u] # "idle" => job[u].n # n
    BY <1>1, Basics DEF Sound, Job
  <2> QED
    BY <1>2, <1>5, <2>1 DEF IInv, OneJobEach
<1>9. RowsFit' /\ InputsNeverGoBack' /\ PatchReachesChapter'
  BY DEF IInv, RowsFit, InputsNeverGoBack, PatchReachesChapter
<1>10. ChaptersExist'
  <2>1. \A k \in DOMAIN chapters : chapters[k].id \in Nat
    <3>1. \A k \in DOMAIN chapters : chapters[k] \in Chapter
      BY DEF IInv, TypeOK
    <3> QED
      BY <3>1 DEF Chapter
  <2>2. \A i \in DOMAIN patches : patches[i].chapter \in Nat
    <3>1. \A i \in DOMAIN patches : patches[i] \in Patch
      BY DEF IInv, TypeOK
    <3> QED
      BY <3>1 DEF Patch
  <2> QED
    BY <1>1, <2>1, <2>2 DEF IInv, ChaptersExist
<1> QED
  BY <1>4, <1>7, <1>8, <1>9, <1>10 DEF IInv

\* A produce job begins.
LEMMA ProduceIInv ==
  ASSUME IInv, NEW t \in Thread, NEW force \in ForceValues, Produce(t, force)
  PROVE  IInv'
<1>1. PICK want \in [Segment -> Input] : Begin(t, "produce", force, want, 1, N, 0)
  BY DEF Produce
<1>2. queue' \in [Thread -> [Segment -> ItemStatus]]
  <2>1. [s \in Segment |-> "none"] \in [Segment -> ItemStatus]
    BY DEF ItemStatus
  <2> QED
    BY <2>1 DEF Produce, IInv, TypeOK
<1>3. 1 \in Segment /\ N \in Segment /\ 1 <= N /\ 0 \in RowNo
  BY SizesAssumption DEF Segment, RowNo
<1>4. force \in BOOLEAN
  <2>1. ForceValues \subseteq BOOLEAN
    BY ThreadAssumption
  <2> QED
    BY <2>1, Zenon
<1> QED
  BY <1>1, <1>2, <1>3, <1>4, BeginIInv DEF Produce

\* A patch request begins.
LEMMA PatchSegmentIInv ==
  ASSUME IInv, NEW t \in Thread, NEW s \in Segment, PatchSegment(t, s)
  PROVE  IInv'
<1>1. PICK want \in [Segment -> Input] : Begin(t, "patch", TRUE, want, s, s, Len(renders[s]))
  BY DEF PatchSegment
<1>2. Len(renders[s]) \in RowNo /\ s <= s
  BY Rows, SizesAssumption DEF RowNo, Segment
<1>3. queue' \in [Thread -> [Segment -> ItemStatus]]
  BY DEF PatchSegment, IInv, TypeOK
<1> QED
  BY <1>1, <1>2, <1>3, BeginIInv DEF PatchSegment

\* The first state.
LEMMA InitIInv == Init => IInv
<1> SUFFICES ASSUME Init PROVE IInv
  OBVIOUS
<1>1. TypeOK
  BY SizesAssumption DEF Init, TypeOK, Stage, ItemStatus
<1>2. \A t \in Thread : Sound(t)
  BY DEF Init, Sound, InPlace, PicksAreNewest, Resolved, OwnChapter, Rendered
<1>3. OneJobEach /\ RowsFit /\ ChaptersExist /\ InputsNeverGoBack /\ PatchReachesChapter
  BY SizesAssumption DEF Init, OneJobEach, RowsFit, ChaptersExist, InputsNeverGoBack, PatchReachesChapter
<1> QED
  BY <1>1, <1>2, <1>3 DEF IInv

\* Every step.
LEMMA NextIInv == IInv /\ [Next]_vars => IInv'
<1> SUFFICES ASSUME IInv, [Next]_vars PROVE IInv'
  OBVIOUS
<1>1. ASSUME NEW s \in Segment, UpdateSegment(s) PROVE IInv'
  <2>1. revision' \in [Segment -> 1..MaxRevision] /\ UNCHANGED <<renders, chapters, patches, queue, lock, pc, job, started, crashes>>
    BY <1>1, SizesAssumption DEF UpdateSegment, IInv, TypeOK
  <2>2. TypeOK'
    BY <2>1 DEF IInv, TypeOK
  <2> QED
    BY <2>1, <2>2 DEF IInv, Sound, InPlace, PicksAreNewest, Resolved, OwnChapter, OneJobEach, RowsFit,
       ChaptersExist, InputsNeverGoBack, PatchReachesChapter
<1>2. ASSUME Crash PROVE IInv'
  <2>1. /\ crashes' = crashes + 1 /\ crashes < MaxCrashes /\ lock' = NoThread
        /\ pc' = [t \in Thread |-> "idle"] /\ job' = [t \in Thread |-> NoJob]
        /\ UNCHANGED <<revision, renders, chapters, patches, queue, started>>
    BY <1>2 DEF Crash
  <2>2. TypeOK'
    BY <2>1, SizesAssumption DEF IInv, TypeOK, Stage
  <2>3. \A t \in Thread : Sound(t)'
    BY <2>1 DEF Sound, InPlace, PicksAreNewest, Resolved, OwnChapter, Rendered
  <2> QED
    BY <2>1, <2>2, <2>3 DEF IInv, OneJobEach, RowsFit, ChaptersExist, InputsNeverGoBack, PatchReachesChapter
<1>3. ASSUME UNCHANGED vars PROVE IInv'
  BY <1>3 DEF vars, IInv, TypeOK, Sound, InPlace, PicksAreNewest, Resolved, OwnChapter, OneJobEach, RowsFit,
     ChaptersExist, InputsNeverGoBack, PatchReachesChapter
<1>4. ASSUME NEW t \in Thread, Step(t) PROVE IInv'
  BY <1>4, PatchTextIInv, RenderKeyIInv, RenderReturnsIInv, RenderFailsIInv, AssembleBeginIInv, AssembleInputIInv,
     AssembleFailsIInv, AssembleCommitIInv, ProduceEndsIInv, AddPatchAttemptIInv DEF Step
<1>5. ASSUME NEW t \in Thread, NEW force \in ForceValues, Produce(t, force) PROVE IInv'
  BY <1>5, ProduceIInv
<1>6. ASSUME NEW t \in Thread, NEW s \in Segment, PatchSegment(t, s) PROVE IInv'
  BY <1>6, PatchSegmentIInv
<1>7. CASE \E t \in Thread, force \in ForceValues : Produce(t, force)
  BY <1>5, <1>7, Zenon
<1>8. CASE \E t \in Thread, s \in Segment : PatchSegment(t, s)
  BY <1>6, <1>8
<1>9. CASE \E t \in Thread : Step(t)
  BY <1>4, <1>9
<1>10. CASE \E s \in Segment : UpdateSegment(s)
  BY <1>1, <1>10
<1> QED
  BY <1>2, <1>3, <1>7, <1>8, <1>9, <1>10, Zenon DEF Next

\* What every state of the chapter keeps to.
THEOREM Invariance == Spec => []IInv
  BY InitIInv, NextIInv, PTL DEF Spec

\* The active chapter never falls back to older audio, and a patch attempt
\* names a chapter that has its audio.
THEOREM ChaptersKeepUp == Spec => []ChaptersFollowRows
<1>1. IInv => ChaptersFollowRows
  BY DEF IInv, ChaptersFollowRows
<1> QED
  BY <1>1, Invariance, PTL
-----------------------------------------------------------------------------
(*                                SoundDesk                                *)

-----------------------------------------------------------------------------
(* Cue rows, plans at work, and what placing a cue comes to *)

\* Cue rows and plans have the fields the code gives them.
RowFields == {"scene", "kind", "key", "segment", "start", "gain", "length", "mode", "evidence", "noSfx",
              "auto", "muted", "locked", "gone"}
IsRow(c) ==
  /\ c = [f \in RowFields |-> c[f]] /\ {c.auto, c.muted, c.locked, c.gone} \subseteq BOOLEAN
  /\ (c.locked => c.auto) /\ (c.auto /\ c.muted => c.locked)
\* An update under way resets a row that was not locked when it was read.
IsWrite(w) == IsRow(w.row) /\ ~w.row.muted /\ ~w.seen.locked
Writing(me) == me.write # <<>> => me.pc = "placing" /\ IsWrite(me.write[1])
RowsAreWhole ==
  /\ cues \in Seq(ToSet(cues)) /\ \A i \in DOMAIN cues : IsRow(cues[i])
  /\ plan = [p \in Planner |-> plan[p]] /\ \A p \in Planner : DOMAIN plan[p] = DOMAIN IdlePlan
  /\ \A p \in Planner : plan[p].read \in Seq(ToSet(plan[p].read)) /\ Writing(plan[p])

\* Directions and what is about to become of them; inference locks nothing, and
\* writes nothing it saw locked.
IsDirection(d) ==
  /\ d = [f \in {"locked", "noSfx", "source"} |-> d[f]] /\ d.locked \in BOOLEAN
  /\ d.source \in {"none", "inferred", "llm_inferred", "manual"}
IsRequest(m) ==
  /\ m.pc # "closed" => m.segment \in SegmentIds
  /\ m.pc = "open" => m.by # "nobody" /\ IsDirection(m.seen) /\ IsDirection(m.row)
  /\ m.pc = "open" /\ m.by = "infer" => ~m.seen.locked /\ ~m.row.locked
DirectionsAreWhole ==
  /\ direction = [x \in SegmentIds |-> direction[x]] /\ \A x \in SegmentIds : IsDirection(direction[x])
  /\ write = [w \in Writer |-> write[w]] /\ \A w \in Writer : IsRequest(write[w])

\* The key of a planned cue, and the cues that are placed already.
KeyOf(me, k) == PlanKey(me.mode, me.want[k])
Done(me) == DOMAIN me.want \ me.todo
\* The update under way is of a row the plan has found, and of its key.
Recollects(me) ==
  LET w == me.write[1]
  IN /\ w.id \in AutoRows(me.read) /\ w.seen.key = me.read[w.id].key
     /\ \E k \in DOMAIN me.want : /\ KeyOf(me, k) = me.read[w.id].key
                                  /\ \E asset : w.row = Row(me.want[k], me.mode, asset, "planner")
\* What a plan nobody disturbs has found and made.
Recalled(me, rows) ==
  /\ DOMAIN me.read \subseteq DOMAIN rows /\ me.todo \subseteq DOMAIN me.want
  /\ me.desired = {KeyOf(me, k) : k \in DOMAIN me.want}
  /\ \A i \in DOMAIN me.read :
       /\ rows[i].key = me.read[i].key /\ rows[i].auto = me.read[i].auto /\ rows[i].gone = me.read[i].gone
       /\ me.read[i].locked => rows[i].locked
  /\ me.write # <<>> => Recollects(me)
\* A row the plan has made for its k-th cue.
IsOwn(me, k, row) ==
  /\ row.key = KeyOf(me, k) /\ ~Taken(me.read, me.want[k])
  /\ \A j \in AutoRows(me.read) : me.read[j].key # KeyOf(me, k)
\* Every row is one the plan found or has made, and every cue it has placed has
\* a row but for those it passed over.
Keys(rows) == {rows[i].key : i \in AutoRows(rows)}
Followed(me, rows) ==
  /\ Recalled(me, rows)
  /\ \A i \in AutoRows(rows) \ DOMAIN me.read : \E k \in Done(me) : IsOwn(me, k, rows[i])
  /\ \A k \in Done(me) : KeyOf(me, k) \in me.silent \cup Keys(rows)
PlansFollow == \A p \in Planner : plan[p].pc = "placing" /\ plan[p].alone => Followed(plan[p], cues)

\* The cues of a plan at work can be told apart, the sounds it names twice aside.
PlansAreSound ==
  \A p \in Planner : plan[p].pc = "placing" =>
    CuesAreLaid(plan[p].want) /\ (~twice => ~NamedTwice(plan[p].mode, plan[p].want))

\* A planner's row says what its key says; no two have one key, or no two but
\* effects; no two beds or pieces of music are in one scene.
RowsAreKeyed(rows) ==
  \A i \in DOMAIN rows : rows[i].auto => rows[i].kind = KindOf(rows[i].key[2]) /\ rows[i].scene = rows[i].key[3]
OnePerScene(rows) ==
  \A i, j \in AutoRows(rows) : (i # j /\ rows[i].kind # "sfx" /\ rows[i].kind = rows[j].kind) => rows[i].scene # rows[j].scene
OnePerKey(rows, all) ==
  \A i, j \in AutoRows(rows) : (i # j /\ (all \/ rows[i].kind # "sfx")) => rows[i].key # rows[j].key
\* Plans that never meet leave such rows behind, and find them when they begin.
Quiet ==
  /\ \A p, q \in Planner : (plan[p].pc # "idle" /\ plan[q].pc # "idle") => p = q
  /\ RowsAreKeyed(cues) /\ OnePerKey(cues, ~twice)
  /\ \A p \in Planner : plan[p].pc = "placing" => plan[p].alone /\ RowsAreKeyed(plan[p].read) /\ OnePerScene(plan[p].read)
  /\ (\A p \in Planner : plan[p].pc # "placing") => OnePerScene(cues)
Heard == ~met => Quiet
Base == RowsAreWhole /\ DirectionsAreWhole /\ SoundTypeOK

LEMMA LargestOf ==
  ASSUME NEW n \in Nat, NEW x \in SUBSET (1..n), x # {}
  PROVE  \E b \in x : \A y \in x : y <= b
<1> PICK above \in SUBSET Nat : \A k \in Nat : k \in above <=> \A y \in x : y <= k
  <2> WITNESS {k \in Nat : \A y \in x : y <= k} \in SUBSET Nat
  <2> QED
    OBVIOUS
<1>1. n \in above
  OBVIOUS
<1>2. PICK m \in above : \A k \in above : m <= k
  <2>1. PICK m \in above : \A k \in above : <<k, m>> \notin OpToRel(<, Nat)
    BY <1>1, NatLessThanWellFounded, WFMin
  <2>2. \A k \in above : m <= k
    <3> SUFFICES ASSUME NEW k \in above PROVE ~(k < m)
      OBVIOUS
    <3>1. <<k, m>> \notin {ss \in Nat \X Nat : ss[1] < ss[2]}
      BY <2>1, Zenon DEF OpToRel
    <3> QED
      BY <3>1
  <2> QED
    BY <2>2
<1>3. m \in x
  <2> SUFFICES ASSUME m \notin x PROVE FALSE
    OBVIOUS
  <2>0. PICK z : z \in x
    OBVIOUS
  <2>1. \A y \in x : y \in Nat /\ y >= 1
    OBVIOUS
  <2>2. m \in Nat /\ \A y \in x : y <= m
    BY <1>2
  <2>3. \A y \in x : y <= m - 1
    BY <2>1, <2>2
  <2>4. m - 1 \in Nat
    BY <2>0, <2>1, <2>2
  <2> QED
    BY <1>2, <2>3, <2>4
<1> QED
  BY <1>2, <1>3

LEMMA Appended ==
  ASSUME NEW s, s \in Seq(ToSet(s)), NEW x
  PROVE  /\ Append(s, x) \in Seq(ToSet(Append(s, x)))
         /\ DOMAIN Append(s, x) = DOMAIN s \cup {Len(s) + 1} /\ Len(s) + 1 \notin DOMAIN s
         /\ Append(s, x)[Len(s) + 1] = x /\ \A i \in DOMAIN s : Append(s, x)[i] = s[i]
<1> PICK t : t = Append(s, x)
  OBVIOUS
<1> PICK S : S = ToSet(s) \cup {x}
  OBVIOUS
<1>1. s \in Seq(S) /\ x \in S /\ DOMAIN s = 1..Len(s) /\ Len(s) \in Nat
  OBVIOUS
<1>2. t \in Seq(S) /\ DOMAIN t = 1..(Len(s) + 1) /\ t[Len(s) + 1] = x /\ \A i \in DOMAIN s : t[i] = s[i]
  BY <1>1
<1>3. \A i \in DOMAIN t : t[i] \in ToSet(t)
  BY DEF ToSet
<1>4. t \in Seq(ToSet(t))
  BY <1>2, <1>3
<1> QED
  BY <1>1, <1>2, <1>4

LEMMA Refilled ==
  ASSUME NEW s, s \in Seq(ToSet(s)), NEW t, t = [i \in DOMAIN s |-> t[i]]
  PROVE  t \in Seq(ToSet(t)) /\ DOMAIN t = DOMAIN s
<1>1. DOMAIN s = 1..Len(s) /\ Len(s) \in Nat
  OBVIOUS
<1>2. \A i \in DOMAIN t : t[i] \in ToSet(t)
  BY DEF ToSet
<1> QED
  BY <1>1, <1>2

LEMMA BaseInit == SoundInit => Base
<1> SUFFICES ASSUME SoundInit PROVE Base
  OBVIOUS
<1>1. RowsAreWhole
  <2>1. <<>> \in Seq(ToSet(<<>>))
    BY DEF ToSet
  <2> QED
    <3>1. IdlePlan.read = <<>> /\ IdlePlan.write = <<>>
      BY DEF IdlePlan
    <3>2. plan = [p \in Planner |-> IdlePlan] /\ cues = <<>>
      BY DEF SoundInit
    <3>3. \A p \in Planner : plan[p] = IdlePlan
      BY <3>2
    <3>4. plan = [p \in Planner |-> plan[p]] /\ DOMAIN cues = {}
      BY <3>2
    <3> QED
      BY <2>1, <3>1, <3>2, <3>3, <3>4 DEF RowsAreWhole, Writing
<1>2. DirectionsAreWhole
  BY DEF SoundInit, DirectionsAreWhole, IsDirection, IsRequest, NoDirection, Closed
<1>3. SoundTypeOK
  BY SoundAssumption DEF SoundInit, SoundTypeOK, IdlePlan, NoDirection, Closed
<1> QED
  BY <1>1, <1>2, <1>3 DEF Base

\* A new row, of the planner's or the user's.
LEMMA RowIs ==
  ASSUME NEW c, NEW mode, NEW asset, NEW by
  PROVE  LET r == Row(c, mode, asset, by)
         IN /\ DOMAIN r = RowFields /\ r.auto = (by = "planner") /\ r.muted = FALSE /\ r.locked = FALSE /\ r.gone = FALSE
            /\ r.key = PlanKey(mode, c) /\ r.kind = c.kind /\ r.scene = c.scene
BY DEF Row, RowFields

\* How one of a plan's cues is placed: passed over, to be brought up to date, or
\* new; and how an update ends.
Skipped(p, n) ==
  /\ UNCHANGED cues /\ plan[p].write = <<>>
  /\ plan' = [plan EXCEPT ![p].todo = @ \ {n}, ![p].silent = @ \cup {KeyOf(plan[p], n)}]
Kept(p, n) ==
  /\ UNCHANGED cues
  /\ \E i \in AutoRows(plan[p].read) : 
       /\ plan[p].read[i].key = KeyOf(plan[p], n) 
       /\ \E asset :
            plan' = [plan EXCEPT ![p].todo = @ \ {n},
                                 ![p].write = Reread(i, Row(plan[p].want[n], plan[p].mode, asset, "planner"))]
Made(p, n) ==
  /\ plan' = [Disturbed(p) EXCEPT ![p].todo = @ \ {n}] /\ plan[p].write = <<>>
  /\ \A i \in AutoRows(plan[p].read) : plan[p].read[i].key # KeyOf(plan[p], n)
  /\ ~Taken(plan[p].read, plan[p].want[n])
  /\ \E asset : cues' = Append(cues, Row(plan[p].want[n], plan[p].mode, asset, "planner"))
Written(w) == [cues EXCEPT ![w.id] = Merged(@, w.seen, w.row, Applied)]
Wrote(p) ==
  /\ plan[p].write # <<>> /\ cues' = Written(plan[p].write[1])
  /\ LET w == plan[p].write[1] IN cues[w.id].gone => \A f \in Applied : w.row[f] = w.seen[f]
  /\ plan' = [Disturbed(p) EXCEPT ![p].write = <<>>]
Failed(p) ==
  /\ plan[p].write # <<>> /\ cues[plan[p].write[1].id].gone /\ UNCHANGED cues
  /\ plan' = [plan EXCEPT ![p] = IdlePlan]

LEMMA WriteCases ==
  ASSUME NEW p, PlaceWrite(p)
  PROVE  Wrote(p) \/ Failed(p)
BY DEF PlaceWrite, Wrote, Failed, Written

LEMMA PlaceCases ==
  ASSUME NEW p, NEW n, PlaceCue(p, n), plan[p].read \in Seq(ToSet(plan[p].read))
  PROVE  Skipped(p, n) \/ Kept(p, n) \/ Made(p, n)
<1>1. PICK same : same = Matching(plan[p], plan[p].want[n])
  OBVIOUS
<1>2. PICK existing : existing = Existing(plan[p], plan[p].want[n])
  OBVIOUS
<1>3. same # {} => existing \in same
  <2>1. Len(plan[p].read) \in Nat /\ same \in SUBSET (1..Len(plan[p].read))
    BY <1>1 DEF AutoRows, Matching
  <2>2. same # {} => \E b \in same : \A y \in same : y <= b
    BY <2>1, LargestOf
  <2> QED
    BY <1>1, <1>2, <2>2 DEF Existing
<1>5. \E asset :
        IF PassedOver(plan[p], plan[p].want[n]) \/ asset = <<>>
        THEN /\ UNCHANGED cues
             /\ plan' = [plan EXCEPT ![p].todo = @ \ {n}, ![p].silent = @ \cup {PlanKey(plan[p].mode, plan[p].want[n])}]
        ELSE LET row == Row(plan[p].want[n], plan[p].mode, asset[1], "planner")
             IN IF same # {}
                THEN /\ UNCHANGED cues
                     /\ plan' = [plan EXCEPT ![p].todo = @ \ {n}, ![p].write = Reread(existing, row)]
                ELSE /\ cues' = Append(cues, row)
                     /\ plan' = [Disturbed(p) EXCEPT ![p].todo = @ \ {n}]
  BY <1>1, <1>2, Zenon DEF PlaceCue
<1>6. plan[p].write = <<>>
  BY Zenon DEF PlaceCue
<1> QED
  BY <1>1, <1>2, <1>3, <1>5, <1>6 DEF Skipped, Kept, Made, KeyOf, PassedOver, Matching

-----------------------------------------------------------------------------
(* Rows and plans keep their shape *)

\* The base, cues and plans apart.
CuesWhole == cues \in Seq(ToSet(cues)) /\ \A i \in DOMAIN cues : IsRow(cues[i])
PlanWhole(me) ==
  /\ DOMAIN me = DOMAIN IdlePlan /\ me.pc \in {"idle", "filling", "reading", "placing"}
  /\ me.read \in Seq(ToSet(me.read)) /\ Writing(me)
PlansWhole == plan = [p \in Planner |-> plan[p]] /\ \A p \in Planner : PlanWhole(plan[p])

\* Whatever is counted was still allowed.
LEMMA ActCounts ==
  ASSUME Base, NEW what \in Acts, Act(what)
  PROVE  left' \in [Acts -> Nat]
BY DEF Base, SoundTypeOK, Act

\* Only the cues change, or only the plans, or neither.
LEMMA BaseSplit ==
  ASSUME Base, CuesWhole', PlansWhole', UNCHANGED <<direction, profile, write, left>>
  PROVE  Base'
<1>1. RowsAreWhole'
  BY DEF Base, RowsAreWhole, CuesWhole, PlansWhole, PlanWhole
<1>3. DirectionsAreWhole'
  BY DEF Base, DirectionsAreWhole
<1>2. SoundTypeOK'
  BY DEF Base, SoundTypeOK, CuesWhole, PlansWhole, PlanWhole, IsRow
<1> QED
  BY <1>1, <1>2, <1>3 DEF Base

LEMMA CuesSame ==
  ASSUME Base, UNCHANGED cues
  PROVE  CuesWhole'
BY DEF Base, RowsAreWhole, CuesWhole

LEMMA PlansSame ==
  ASSUME Base, UNCHANGED plan
  PROVE  PlansWhole'
BY DEF Base, RowsAreWhole, PlansWhole, PlanWhole, SoundTypeOK

LEMMA CueAdded ==
  ASSUME Base, NEW row, IsRow(row), cues' = Append(cues, row)
  PROVE  CuesWhole'
<1>1. cues \in Seq(ToSet(cues)) /\ \A i \in DOMAIN cues : IsRow(cues[i])
  BY DEF Base, RowsAreWhole
<1>2. /\ cues' \in Seq(ToSet(cues')) /\ DOMAIN cues' = DOMAIN cues \cup {Len(cues) + 1}
      /\ cues'[Len(cues) + 1] = row /\ \A i \in DOMAIN cues : cues'[i] = cues[i]
  BY <1>1, Appended
<1> QED
  BY <1>1, <1>2 DEF CuesWhole

LEMMA CueChanged ==
  ASSUME Base, NEW i, NEW row, IsRow(row), cues' = [cues EXCEPT ![i] = row]
  PROVE  CuesWhole'
<1>1. cues \in Seq(ToSet(cues)) /\ \A j \in DOMAIN cues : IsRow(cues[j])
  BY DEF Base, RowsAreWhole
<1>2. cues' = [j \in DOMAIN cues |-> cues'[j]] /\ \A j \in DOMAIN cues : cues'[j] \in {cues[j], row}
  BY <1>1
<1>3. cues' \in Seq(ToSet(cues')) /\ DOMAIN cues' = DOMAIN cues
  BY <1>1, <1>2, Refilled
<1> QED
  BY <1>1, <1>2, <1>3 DEF CuesWhole

LEMMA PlannedRowIs ==
  ASSUME NEW c, NEW mode, NEW asset
  PROVE  IsRow(Row(c, mode, asset, "planner"))
BY DEF IsRow, Row, RowFields

LEMMA DisturbedIs ==
  ASSUME Base, NEW p \in Planner
  PROVE  /\ DOMAIN Disturbed(p) = Planner /\ Disturbed(p)[p] = plan[p]
         /\ \A q \in Planner : /\ DOMAIN Disturbed(p)[q] = DOMAIN IdlePlan
                               /\ Disturbed(p)[q].pc = plan[q].pc /\ Disturbed(p)[q].read = plan[q].read
                               /\ Disturbed(p)[q].mode = plan[q].mode /\ Disturbed(p)[q].want = plan[q].want
                               /\ Disturbed(p)[q].write = plan[q].write
                               /\ q # p => Disturbed(p)[q].alone = FALSE
<1>1. \A q \in Planner : DOMAIN plan[q] = DOMAIN IdlePlan
  BY DEF Base, RowsAreWhole
<1> QED
  BY <1>1 DEF Disturbed, IdlePlan

\* A plan that is left alone, or marked as disturbed, keeps its shape.
LEMMA OthersWhole ==
  ASSUME Base, NEW p \in Planner, NEW new, plan' = [Disturbed(p) EXCEPT ![p] = new], PlanWhole(new)
  PROVE  PlansWhole'
<1>0. \A q \in Planner : PlanWhole(plan[q])
  BY DEF Base, RowsAreWhole, SoundTypeOK, PlanWhole
<1>1. plan' = [q \in Planner |-> plan'[q]] /\ plan'[p] = new /\ \A q \in Planner \ {p} : plan'[q] = Disturbed(p)[q]
  BY DisturbedIs
<1>2. ASSUME NEW q \in Planner \ {p} PROVE PlanWhole(plan'[q])
  <2>1. PICK me : me = Disturbed(p)[q]
    OBVIOUS
  <2>2. /\ DOMAIN me = DOMAIN IdlePlan /\ me.pc = plan[q].pc /\ me.read = plan[q].read /\ me.write = plan[q].write
    BY <2>1, DisturbedIs
  <2>3. PlanWhole(plan[q]) /\ plan'[q] = me
    BY <1>0, <1>1, <2>1
  <2> QED
    BY <2>2, <2>3 DEF PlanWhole, Writing
<1> QED
  BY <1>1, <1>2 DEF PlansWhole

LEMMA PlaceBase ==
  ASSUME Base, NEW p \in Planner, NEW n, Skipped(p, n) \/ Kept(p, n) \/ Made(p, n), plan[p].pc = "placing",
         UNCHANGED <<direction, profile, write, left>>
  PROVE  Base'
<1>0. /\ plan = [q \in Planner |-> plan[q]]
      /\ \A q \in Planner : PlanWhole(plan[q])
  BY DEF Base, RowsAreWhole, SoundTypeOK, PlanWhole
<1>1. CASE Skipped(p, n)
  <2>1. PlansWhole'
    BY <1>0, <1>1 DEF Skipped, PlansWhole, PlanWhole, IdlePlan, Writing
  <2> QED
    BY <1>1, <2>1, CuesSame, BaseSplit DEF Skipped
<1>2. CASE Kept(p, n)
  <2>1. PICK i, row, w :
          /\ IsRow(row) /\ ~row.muted /\ w = Reread(i, row)
          /\ plan' = [plan EXCEPT ![p].todo = @ \ {n}, ![p].write = w]
    <3>1. PICK i, asset :
            plan' = [plan EXCEPT ![p].todo = @ \ {n},
                                 ![p].write = Reread(i, Row(plan[p].want[n], plan[p].mode, asset, "planner"))]
      BY <1>2 DEF Kept
    <3>2. PICK row : row = Row(plan[p].want[n], plan[p].mode, asset, "planner")
      OBVIOUS
    <3>3. IsRow(row) /\ ~row.muted
      <4>1. IsRow(row)
        BY <3>2, PlannedRowIs
      <4> QED
        BY <3>2, <4>1 DEF Row
    <3> QED
      BY <3>1, <3>2, <3>3
  <2>2. w # <<>> => IsWrite(w[1])
    BY <2>1 DEF Reread, IsWrite
  <2>3. PlansWhole'
    BY <1>0, <2>1, <2>2 DEF PlansWhole, PlanWhole, IdlePlan, Writing
  <2> QED
    BY <1>2, <2>3, CuesSame, BaseSplit DEF Kept
<1>3. CASE Made(p, n)
  <2>1. PICK new : new = [plan[p] EXCEPT !.todo = @ \ {n}]
    OBVIOUS
  <2>2. plan' = [Disturbed(p) EXCEPT ![p] = new]
    BY <1>3, <2>1, DisturbedIs DEF Made
  <2>3. PlanWhole(new)
    BY <1>0, <2>1 DEF PlanWhole, IdlePlan, Writing
  <2>4. PlansWhole'
    BY <2>2, <2>3, OthersWhole
  <2> QED
    BY <1>3, <2>4, CueAdded, PlannedRowIs, BaseSplit DEF Made
<1> QED
  BY <1>1, <1>2, <1>3

\* An update leaves a row a row.
IsMerged(now, w, new) ==
  /\ IsRow(new) /\ new.auto = now.auto /\ new.locked = now.locked /\ new.gone = now.gone
  /\ new.scene = now.scene /\ new.kind \in {now.kind, w.row.kind}
  /\ w.row.key = w.seen.key => new.key = now.key
  /\ w.seen.muted = FALSE => new.muted = now.muted
LEMMA MergedIs ==
  ASSUME NEW now, IsRow(now), NEW w, IsWrite(w)
  PROVE  IsMerged(now, w, Merged(now, w.seen, w.row, Applied))
BY DEF IsMerged, IsRow, RowFields, IsWrite, Merged, Applied

LEMMA WriteBase ==
  ASSUME Base, NEW p \in Planner, Wrote(p) \/ Failed(p), UNCHANGED <<direction, profile, write, left>>
  PROVE  Base'
<1>0. /\ plan = [q \in Planner |-> plan[q]]
      /\ \A q \in Planner : PlanWhole(plan[q])
      /\ cues \in Seq(ToSet(cues)) /\ \A i \in DOMAIN cues : IsRow(cues[i])
  BY DEF Base, RowsAreWhole, SoundTypeOK, PlanWhole
<1>1. CASE Failed(p)
  <2>1. PlanWhole(IdlePlan)
    BY DEF PlanWhole, IdlePlan, ToSet, Writing
  <2>2. PlansWhole'
    BY <1>0, <1>1, <2>1 DEF PlansWhole, Failed
  <2> QED
    BY <1>1, <2>2, CuesSame, BaseSplit DEF Failed
<1>2. CASE Wrote(p)
  <2>1. PICK new : new = [plan[p] EXCEPT !.write = <<>>]
    OBVIOUS
  <2>2. plan' = [Disturbed(p) EXCEPT ![p] = new]
    BY <1>2, <2>1, DisturbedIs DEF Wrote
  <2>3. PlanWhole(new)
    BY <1>0, <2>1 DEF PlanWhole, IdlePlan, Writing
  <2>4. PlansWhole'
    BY <2>2, <2>3, OthersWhole
  <2>5. PICK w : w = plan[p].write[1] /\ IsWrite(w)
    BY <1>0, <1>2 DEF Wrote, PlanWhole, Writing
  <2>6. cues' = [cues EXCEPT ![w.id] = Merged(@, w.seen, w.row, Applied)]
    BY <1>2, <2>5 DEF Wrote, Written
  <2>7. CuesWhole'
    <3>1. CASE w.id \in DOMAIN cues
      <4>1. PICK row : row = Merged(cues[w.id], w.seen, w.row, Applied)
        OBVIOUS
      <4>2. IsRow(row)
        BY <1>0, <2>5, <3>1, <4>1, MergedIs DEF IsMerged
      <4> QED
        BY <2>6, <4>1, <4>2, CueChanged
    <3>2. CASE w.id \notin DOMAIN cues
      BY <1>0, <2>6, <3>2, CuesSame
    <3> QED
      BY <3>1, <3>2
  <2> QED
    BY <1>2, <2>4, <2>7, BaseSplit DEF Wrote
<1> QED
  BY <1>1, <1>2

LEMMA PlaceSame ==
  ASSUME Base, NEW p \in Planner, NEW n, Skipped(p, n) \/ Kept(p, n) \/ Made(p, n) \/ Wrote(p)
  PROVE  /\ \A q \in Planner : /\ plan'[q].pc = plan[q].pc /\ plan'[q].mode = plan[q].mode
                               /\ plan'[q].want = plan[q].want /\ plan'[q].read = plan[q].read
                               /\ q # p => plan'[q].write = plan[q].write
         /\ plan'[p].alone = plan[p].alone
<1>0. plan = [q \in Planner |-> plan[q]] /\ \A q \in Planner : DOMAIN plan[q] = DOMAIN IdlePlan
  BY DEF Base, RowsAreWhole
<1>1. CASE Skipped(p, n)
  BY <1>0, <1>1 DEF Skipped, IdlePlan
<1>2. CASE Kept(p, n)
  <2>1. PICK w : plan' = [plan EXCEPT ![p].todo = @ \ {n}, ![p].write = w]
    BY <1>2 DEF Kept
  <2> QED
    BY <1>0, <2>1 DEF IdlePlan
<1>3. CASE Made(p, n) \/ Wrote(p)
  <2>1. /\ plan'[p] \in {[plan[p] EXCEPT !.todo = @ \ {n}], [plan[p] EXCEPT !.write = <<>>]}
        /\ \A q \in Planner \ {p} : plan'[q] = Disturbed(p)[q]
    <3>1. DOMAIN Disturbed(p) = Planner /\ Disturbed(p)[p] = plan[p]
      BY DisturbedIs
    <3>2. CASE Made(p, n)
      <4>1. plan' = [Disturbed(p) EXCEPT ![p].todo = @ \ {n}]
        BY <3>2, Zenon DEF Made
      <4> QED
        BY <3>1, <4>1
    <3>3. CASE Wrote(p)
      <4>1. plan' = [Disturbed(p) EXCEPT ![p].write = <<>>]
        BY <3>3, Zenon DEF Wrote
      <4> QED
        BY <3>1, <4>1
    <3> QED
      BY <1>3, <3>2, <3>3
  <2>2. /\ plan'[p].pc = plan[p].pc /\ plan'[p].mode = plan[p].mode /\ plan'[p].want = plan[p].want
        /\ plan'[p].read = plan[p].read /\ plan'[p].alone = plan[p].alone
    BY <1>0, <2>1 DEF IdlePlan
  <2>3. ASSUME NEW q \in Planner \ {p}
        PROVE  /\ plan'[q].pc = plan[q].pc /\ plan'[q].mode = plan[q].mode /\ plan'[q].want = plan[q].want
               /\ plan'[q].read = plan[q].read /\ plan'[q].write = plan[q].write
    <3>1. PICK me : me = Disturbed(p)[q]
      OBVIOUS
    <3>2. /\ me.pc = plan[q].pc /\ me.mode = plan[q].mode /\ me.want = plan[q].want
          /\ me.read = plan[q].read /\ me.write = plan[q].write
      BY <3>1, DisturbedIs
    <3> QED
      BY <2>1, <3>1, <3>2
  <2> QED
    BY <2>2, <2>3
<1> QED
  BY <1>1, <1>2, <1>3

LEMMA EndBase ==
  ASSUME Base, NEW p \in Planner, PlanEnd(p)
  PROVE  Base'
<1>0. /\ plan = [q \in Planner |-> plan[q]]
      /\ \A q \in Planner : PlanWhole(plan[q])
      /\ cues \in Seq(ToSet(cues)) /\ \A i \in DOMAIN cues : IsRow(cues[i])
  BY DEF Base, RowsAreWhole, SoundTypeOK, PlanWhole
<1>1. plan' = [Disturbed(p) EXCEPT ![p] = IdlePlan]
  BY DEF PlanEnd
<1>2. PlansWhole'
  <2>1. PlanWhole(IdlePlan)
    BY DEF PlanWhole, IdlePlan, ToSet, Writing
  <2> QED
    BY <1>1, <2>1, OthersWhole
<1>3. cues' = [i \in DOMAIN cues |-> IF i \in Obsolete(plan[p]) THEN [cues[i] EXCEPT !.gone = TRUE] ELSE cues[i]]
  BY DEF PlanEnd
<1>4. \A i \in DOMAIN cues : IsRow([cues[i] EXCEPT !.gone = TRUE])
  BY <1>0 DEF IsRow, RowFields
<1>5. cues' = [i \in DOMAIN cues |-> cues'[i]] /\ \A i \in DOMAIN cues : IsRow(cues'[i])
  BY <1>0, <1>3, <1>4
<1>6. CuesWhole'
  BY <1>0, <1>5, Refilled DEF CuesWhole
<1> QED
  BY <1>2, <1>6, BaseSplit DEF PlanEnd

LEMMA PlanBase ==
  ASSUME Base, NEW p \in Planner,
         \/ \E m \in Mode : PlanBegin(p, m)
         \/ PlanFill(p) \/ PlanRead(p)
  PROVE  Base'
<1>0. /\ plan = [q \in Planner |-> plan[q]]
      /\ \A q \in Planner : PlanWhole(plan[q])
  BY DEF Base, RowsAreWhole, SoundTypeOK, PlanWhole
<1>1. CASE \E m \in Mode : PlanBegin(p, m)
  <2>1. PICK m \in Mode : PlanBegin(p, m)
    BY <1>1
  <2>2. PICK now \in {"reading", "filling"} :
          plan' = [plan EXCEPT ![p].pc = now, ![p].mode = m, ![p].fill = MissingOf(Scene)]
    BY <2>1 DEF PlanBegin
  <2>7. plan[p].pc = "idle"
    BY <2>1 DEF PlanBegin
  <2>3. PlansWhole'
    BY <1>0, <2>2, <2>7 DEF PlansWhole, PlanWhole, IdlePlan, Writing
  <2>4. left' \in [Acts -> Nat] /\ UNCHANGED <<profile, direction, cues, write>>
    BY <2>1, ActCounts DEF PlanBegin, Acts
  <2>5. RowsAreWhole' /\ DirectionsAreWhole'
    BY <2>3, <2>4, CuesSame DEF Base, RowsAreWhole, PlansWhole, PlanWhole, DirectionsAreWhole
  <2>6. SoundTypeOK'
    BY <2>3, <2>4 DEF Base, SoundTypeOK, PlansWhole, PlanWhole
  <2> QED
    BY <2>5, <2>6 DEF Base
<1>2. CASE PlanFill(p)
  <2>1. plan' = [plan EXCEPT ![p].pc = "reading"]
        /\ profile' = [s \in Scene |-> IF s \in plan[p].fill THEN Explicit[s] ELSE profile[s]]
        /\ UNCHANGED <<direction, cues, write, left>> /\ plan[p].pc = "filling"
    BY <1>2 DEF PlanFill
  <2>2. PlansWhole'
    BY <1>0, <2>1 DEF PlansWhole, PlanWhole, IdlePlan, Writing
  <2>3. RowsAreWhole' /\ DirectionsAreWhole'
    BY <2>1, <2>2 DEF Base, RowsAreWhole, PlansWhole, PlanWhole, DirectionsAreWhole
  <2>4. SoundTypeOK'
    BY <2>1, <2>2 DEF Base, SoundTypeOK, PlansWhole, PlanWhole
  <2> QED
    BY <2>3, <2>4 DEF Base
<1>3. CASE PlanRead(p)
  <2>1. PICK want, todo, desired, alone :
          plan' \in {[plan EXCEPT ![p] = IdlePlan],
                     [plan EXCEPT ![p].pc = "placing", ![p].want = want, ![p].todo = todo, ![p].desired = desired,
                                  ![p].read = cues, ![p].silent = {}, ![p].alone = alone]}
    BY <1>3 DEF PlanRead
  <2>2. CASE plan' = [plan EXCEPT ![p] = IdlePlan]
    <3>1. PlansWhole'
      <4>1. PlanWhole(IdlePlan)
        BY DEF PlanWhole, IdlePlan, ToSet, Writing
      <4> QED
        BY <1>0, <2>2, <4>1 DEF PlansWhole
    <3> QED
      BY <1>3, <3>1, CuesSame, BaseSplit DEF PlanRead
  <2>3. CASE plan' # [plan EXCEPT ![p] = IdlePlan]
    <3>1. plan'[p] = [plan[p] EXCEPT !.pc = "placing", !.want = want, !.todo = todo, !.desired = desired,
                                     !.read = cues, !.silent = {}, !.alone = alone]
          /\ (\A q \in Planner \ {p} : plan'[q] = plan[q]) /\ plan' = [q \in Planner |-> plan'[q]]
      BY <1>0, <2>1, <2>3
    <3>4. plan[p].write = <<>>
      BY <1>0, <1>3 DEF PlanRead, PlanWhole, Writing
    <3>2. PlanWhole(plan'[p])
      BY <1>0, <3>1, <3>4 DEF IdlePlan, PlanWhole, Base, RowsAreWhole, Writing
    <3>3. PlansWhole'
      BY <1>0, <3>1, <3>2 DEF PlansWhole
    <3> QED
      BY <1>3, <3>3, CuesSame, BaseSplit DEF PlanRead
  <2> QED
    BY <2>2, <2>3
<1> QED
  BY <1>1, <1>2, <1>3

LEMMA MuteBase ==
  ASSUME Base, NEW i, NEW b \in BOOLEAN, MuteCue(i, b)
  PROVE  Base'
<1>0. cues \in Seq(ToSet(cues)) /\ i \in DOMAIN cues /\ IsRow(cues[i])
  BY DEF Base, RowsAreWhole, MuteCue
<1>1. PICK row : row = [cues[i] EXCEPT !.muted = b, !.locked = @ \/ cues[i].auto]
  OBVIOUS
<1>2. cues' = [cues EXCEPT ![i] = row] /\ left' \in [Acts -> Nat]
      /\ UNCHANGED <<direction, profile, write, plan>>
  BY <1>1, ActCounts DEF MuteCue, Acts
<1>3. /\ row = [f \in RowFields |-> row[f]] /\ row.muted = b /\ row.auto = cues[i].auto /\ row.gone = cues[i].gone
      /\ row.locked = (cues[i].locked \/ cues[i].auto)
  BY <1>0, <1>1 DEF IsRow, RowFields
<1>4. IsRow(row)
  BY <1>0, <1>3 DEF IsRow
<1>5. CuesWhole'
  BY <1>2, <1>4, CueChanged
<1>6. RowsAreWhole' /\ DirectionsAreWhole' /\ SoundTypeOK'
  <2>1. \A k \in DOMAIN cues' : cues'[k].locked => cues'[k].auto
    BY <1>5 DEF CuesWhole, IsRow
  <2> QED
    BY <1>2, <1>5, <2>1 DEF Base, RowsAreWhole, DirectionsAreWhole, SoundTypeOK, CuesWhole
<1> QED
  BY <1>6 DEF Base

LEMMA CreateBase ==
  ASSUME Base, NEW s, NEW kind, CreateCue(s, kind)
  PROVE  Base'
<1>1. cues' = Append(cues, Row(Cue(s, kind, "by_hand", <<>>, <<>>), "light", [duration |-> 10000], "user"))
      /\ Act("touch") /\ UNCHANGED <<direction, profile, write, plan>>
  BY DEF CreateCue
<1>2. IsRow(Row(Cue(s, kind, "by_hand", <<>>, <<>>), "light", [duration |-> 10000], "user"))
  BY DEF IsRow, Row, RowFields
<1>4. CuesWhole'
  BY <1>1, <1>2, CueAdded
<1>5. left' \in [Acts -> Nat]
  BY <1>1, ActCounts DEF Acts
<1>6. RowsAreWhole' /\ DirectionsAreWhole' /\ SoundTypeOK'
  <2>1. \A k \in DOMAIN cues' : cues'[k].locked => cues'[k].auto
    BY <1>4 DEF CuesWhole, IsRow
  <2> QED
    BY <1>1, <1>4, <1>5, <2>1 DEF Base, RowsAreWhole, DirectionsAreWhole, SoundTypeOK, CuesWhole
<1> QED
  BY <1>6 DEF Base

\* A request takes another form, and a direction perhaps one it held or wrote.
LEMMA RequestBase ==
  ASSUME Base, NEW w \in Writer, NEW m, IsRequest(m), m.pc \in {"closed", "asked", "open"},
         m.segment \in SegmentIds \cup {0}, m.by \in {"nobody", "infer", "edit", "read"},
         write' = [write EXCEPT ![w] = m],
         direction' = [x \in SegmentIds |-> direction'[x]], \A x \in SegmentIds : IsDirection(direction'[x]),
         left' \in [Acts -> Nat],
         UNCHANGED <<cues, plan, profile>>
  PROVE  Base'
<1>1. DirectionsAreWhole'
  BY DEF Base, DirectionsAreWhole
<1>2. RowsAreWhole'
  BY DEF Base, RowsAreWhole
<1>4. SoundTypeOK'
  <2>1. \A x \in SegmentIds : direction'[x].source \in {"none", "inferred", "llm_inferred", "manual"}
    BY DEF IsDirection
  <2>2. \A v \in Writer : write'[v] \in {m, write[v]}
    BY DEF Base, DirectionsAreWhole
  <2> QED
    BY <2>1, <2>2 DEF Base, SoundTypeOK
<1> QED
  BY <1>1, <1>2, <1>4 DEF Base

LEMMA ClosedIs == /\ IsRequest(Closed) /\ Closed.pc = "closed" /\ Closed.segment = 0 /\ Closed.by = "nobody"
                  /\ DOMAIN Closed = {"pc", "by", "segment", "seen", "row"}
BY DEF IsRequest, Closed

LEMMA UpsertBase ==
  ASSUME Base, NEW w \in Writer, NEW by \in {"infer", "edit", "read"}, NEW x \in SegmentIds,
         NEW row, IsDirection(row), by = "infer" => ~row.locked, UpsertDirection(w, by, x, row),
         left' \in [Acts -> Nat],
         UNCHANGED <<cues, plan, profile, direction>>
  PROVE  Base'
<1>1. PICK m : m = [pc |-> "open", by |-> by, segment |-> x, seen |-> direction[x], row |-> row]
  OBVIOUS
<1>2. /\ m.pc = "open" /\ m.segment = x /\ m.by = by
      /\ ~(direction[x].locked /\ by = "infer") => IsRequest(m)
  BY <1>1 DEF IsRequest, Base, DirectionsAreWhole
<1>3. \/ write' = [write EXCEPT ![w] = Closed]
      \/ ~(direction[x].locked /\ by = "infer") /\ write' = [write EXCEPT ![w] = m]
  BY <1>1 DEF UpsertDirection
<1>4. direction' = [y \in SegmentIds |-> direction'[y]] /\ \A y \in SegmentIds : IsDirection(direction'[y])
  BY DEF Base, DirectionsAreWhole
<1>5. CASE write' = [write EXCEPT ![w] = Closed]
  BY <1>4, <1>5, ClosedIs, RequestBase
<1>6. CASE ~(direction[x].locked /\ by = "infer") /\ write' = [write EXCEPT ![w] = m]
  BY <1>2, <1>4, <1>6, RequestBase
<1> QED
  BY <1>3, <1>5, <1>6

\* What a commit makes of a direction.
LEMMA LandedIs ==
  ASSUME NEW now, IsDirection(now), NEW m, IsDirection(m.seen), IsDirection(m.row), NEW new,
         new = IF m.seen = NoDirection THEN (IF now = NoDirection THEN m.row ELSE now)
               ELSE Merged(now, m.seen, m.row, {"locked", "noSfx", "source"})
  PROVE  /\ IsDirection(new)
         /\ now.locked /\ ~m.seen.locked /\ ~m.row.locked => new.locked
<1>1. CASE m.seen = NoDirection
  BY <1>1 DEF NoDirection
<1>2. CASE m.seen # NoDirection
  <2>1. new = [f \in DOMAIN now |-> IF f \in {"locked", "noSfx", "source"} /\ m.row[f] # m.seen[f] THEN m.row[f] ELSE now[f]]
    BY <1>2 DEF Merged
  <2>2. DOMAIN now = {"locked", "noSfx", "source"}
    BY DEF IsDirection
  <2>3. new.locked \in {now.locked, m.row.locked} /\ new.source \in {now.source, m.row.source}
        /\ new = [f \in {"locked", "noSfx", "source"} |-> new[f]]
    BY <2>1, <2>2
  <2>4. now.locked /\ ~m.seen.locked /\ ~m.row.locked => new.locked
    BY <2>1, <2>2 DEF IsDirection
  <2> QED
    BY <2>3, <2>4 DEF IsDirection
<1> QED
  BY <1>1, <1>2

LEMMA CommitIs ==
  ASSUME Base, NEW w \in Writer, CommitDirection(w)
  PROVE  /\ write[w].segment \in SegmentIds /\ IsRequest(write[w]) /\ write[w].pc = "open"
         /\ \A x \in SegmentIds :
              direction'[x] = IF x # write[w].segment THEN direction[x]
                              ELSE IF write[w].seen = NoDirection
                                   THEN (IF direction[x] = NoDirection THEN write[w].row ELSE direction[x])
                                   ELSE Merged(direction[x], write[w].seen, write[w].row, {"locked", "noSfx", "source"})
         /\ direction' = [x \in SegmentIds |-> direction'[x]]
BY DEF Base, DirectionsAreWhole, IsRequest, CommitDirection

LEMMA CommitBase ==
  ASSUME Base, NEW w \in Writer, CommitDirection(w)
  PROVE  Base'
<1>1. \A x \in SegmentIds : IsDirection(direction'[x])
  <2> SUFFICES ASSUME NEW x \in SegmentIds PROVE IsDirection(direction'[x])
    OBVIOUS
  <2>1. IsDirection(direction[x]) /\ IsDirection(write[w].seen) /\ IsDirection(write[w].row)
    BY CommitIs DEF IsRequest, Base, DirectionsAreWhole
  <2> QED
    BY <2>1, CommitIs, LandedIs
<1>2. write' = [write EXCEPT ![w] = Closed] /\ left' \in [Acts -> Nat] /\ UNCHANGED <<cues, plan, profile>>
  BY DEF CommitDirection, Base, SoundTypeOK
<1> QED
  BY <1>1, <1>2, CommitIs, ClosedIs, RequestBase

LEMMA BaseStep ==
  ASSUME Base, SoundNext
  PROVE  Base'
<1>1. ASSUME NEW e \in Extractor, ReadScenes(e) \/ WriteProfiles(e) PROVE Base'
  <2>1. CASE ReadScenes(e)
    BY <2>1, ActCounts DEF ReadScenes, Acts, Base, RowsAreWhole, DirectionsAreWhole, SoundTypeOK
  <2>2. CASE WriteProfiles(e)
    <3>1. UNCHANGED <<direction, cues, plan, write, left>>
      BY <2>2 DEF WriteProfiles
    <3>2. \A s \in Scene : profile'[s] \in Answers \cup {NoProfile, Explicit[s]}
      <4>1. PICK answer \in [extract[e] -> Answers \cup {NoProfile}] :
               profile' = [s \in Scene |-> CASE s \notin extract[e] -> profile[s]
                                             [] Missing(answer[s]) -> Explicit[s]
                                             [] OTHER -> answer[s]]
        BY <2>2 DEF WriteProfiles
      <4> QED
        BY <4>1 DEF Base, SoundTypeOK
    <3> QED
      BY <3>1, <3>2 DEF Base, RowsAreWhole, DirectionsAreWhole, SoundTypeOK
  <2> QED
    BY <1>1, <2>1, <2>2
<1>2. ASSUME NEW w \in Writer, NEW x \in SegmentIds, NEW source \in {"inferred", "llm_inferred"}, Infer(w, x, source)
      PROVE  Base'
  <2>1. PICK row : IsDirection(row) /\ ~row.locked /\ UpsertDirection(w, "infer", x, row)
    BY <1>2 DEF Infer, IsDirection
  <2> QED
    BY <1>2, <2>1, ActCounts, UpsertBase DEF Infer, Acts
<1>3. ASSUME NEW w \in Writer, NEW x \in Touchable, NEW locked \in BOOLEAN, NEW noSfx \in BOOLEAN,
             UpdateSegmentDirection(w, x, locked, noSfx)
      PROVE  Base'
  <2>1. PICK row : IsDirection(row) /\ UpsertDirection(w, "edit", x, row)
    BY <1>3 DEF UpdateSegmentDirection, IsDirection
  <2>2. x \in SegmentIds
    BY SoundAssumption
  <2> QED
    BY <1>3, <2>1, <2>2, ActCounts, UpsertBase DEF UpdateSegmentDirection, Acts
<1>4. ASSUME NEW w \in Writer, NEW x \in SegmentIds, ReadDirection(w, x) PROVE Base'
  <2>1. PICK m : m = [Closed EXCEPT !.pc = "asked", !.segment = x]
    OBVIOUS
  <2>2. m.pc = "asked" /\ m.segment = x /\ m.by = "nobody"
    BY <2>1, ClosedIs
  <2>3. IsRequest(m)
    BY <2>2 DEF IsRequest
  <2>4. write' = [write EXCEPT ![w] = m] /\ left' \in [Acts -> Nat] /\ UNCHANGED <<profile, direction, cues, plan>>
    BY <1>4, <2>1, ActCounts DEF ReadDirection, Acts
  <2>5. direction' = [y \in SegmentIds |-> direction'[y]] /\ \A y \in SegmentIds : IsDirection(direction'[y])
    BY <2>4 DEF Base, DirectionsAreWhole
  <2> QED
    BY <2>2, <2>3, <2>4, <2>5, RequestBase
<1>5. ASSUME NEW w \in Writer, CreateDirection(w) PROVE Base'
  <2>1. PICK row : IsDirection(row) /\ UpsertDirection(w, "read", write[w].segment, row)
    BY <1>5 DEF CreateDirection, IsDirection
  <2>2. write[w].segment \in SegmentIds
    BY <1>5 DEF CreateDirection, Base, DirectionsAreWhole, IsRequest
  <2>3. left' \in [Acts -> Nat]
    BY <1>5 DEF CreateDirection, Base, SoundTypeOK
  <2> QED
    BY <1>5, <2>1, <2>2, <2>3, UpsertBase DEF CreateDirection
<1>6. ASSUME NEW p \in Planner, PlaceWrite(p) PROVE Base'
  BY <1>6, WriteCases, WriteBase DEF PlaceWrite
<1>7. ASSUME NEW p \in Planner, NEW n, PlaceCue(p, n) PROVE Base'
  <2>1. UNCHANGED <<direction, profile, write, left>> /\ plan[p].pc = "placing"
    BY <1>7, Zenon DEF PlaceCue
  <2>2. Skipped(p, n) \/ Kept(p, n) \/ Made(p, n)
    BY <1>7, PlaceCases DEF Base, RowsAreWhole
  <2> QED
    BY <2>1, <2>2, PlaceBase
<1>8. ASSUME NEW f, NEW m, Assemble(f, m) PROVE Base'
  BY <1>8, ActCounts DEF Assemble, Acts, Base, RowsAreWhole, DirectionsAreWhole, SoundTypeOK
<1>9. ASSUME NEW c, NEW s, NEW kind, CreateCue(s, kind) PROVE Base'
  BY <1>9, CreateBase
<1> QED
  BY <1>1, <1>2, <1>3, <1>4, <1>5, <1>6, <1>7, <1>8, <1>9, CommitBase, MuteBase, PlanBase, EndBase DEF SoundNext

\* What a step is to a plan and the rows: nothing, the user's hand, or a planner.
Aside == UNCHANGED <<cues, plan, met, twice>>
ByHand ==
  /\ (\E i : \E b \in BOOLEAN : MuteCue(i, b)) \/ \E s, kind : CreateCue(s, kind)
  /\ UNCHANGED <<plan, met, twice>>
Prepares(p) == (\E m \in Mode : PlanBegin(p, m)) \/ PlanFill(p) \/ PlanRead(p)
Places(p) ==
  /\ plan[p].pc = "placing" /\ UNCHANGED <<met, twice>>
  /\ \E n \in plan[p].todo : Skipped(p, n) \/ Kept(p, n) \/ Made(p, n)
Writes(p) == Wrote(p) /\ plan[p].pc = "placing" /\ UNCHANGED <<met, twice>>
Fails(p) == Failed(p) /\ plan[p].pc = "placing" /\ UNCHANGED <<met, twice>>
Ends(p) == PlanEnd(p) /\ UNCHANGED <<met, twice>>

LEMMA SoundCases ==
  ASSUME Base, SoundNext
  PROVE  Aside \/ ByHand \/ \E p \in Planner : Prepares(p) \/ Places(p) \/ Writes(p) \/ Fails(p) \/ Ends(p)
<1>1. ASSUME NEW e \in Extractor, ReadScenes(e) \/ WriteProfiles(e) PROVE Aside
  BY <1>1 DEF ReadScenes, WriteProfiles, Aside
<1>2. ASSUME NEW w, NEW x, NEW source, Infer(w, x, source) PROVE Aside
  BY <1>2 DEF Infer, Aside
<1>3. ASSUME NEW w, NEW x, NEW locked, NEW noSfx, UpdateSegmentDirection(w, x, locked, noSfx) PROVE Aside
  BY <1>3 DEF UpdateSegmentDirection, Aside
<1>4. ASSUME NEW w, (\E x \in SegmentIds : ReadDirection(w, x)) \/ CreateDirection(w) \/ CommitDirection(w) PROVE Aside
  BY <1>4 DEF ReadDirection, CreateDirection, CommitDirection, Aside
<1>5. ASSUME NEW f, NEW m, Assemble(f, m) PROVE Aside
  BY <1>5 DEF Assemble, Aside
<1>6. ASSUME NEW p \in Planner, NEW n \in plan[p].todo, PlaceCue(p, n) PROVE Places(p)
  <2>1. Skipped(p, n) \/ Kept(p, n) \/ Made(p, n)
    BY <1>6, PlaceCases DEF Base, RowsAreWhole
  <2>2. plan[p].pc = "placing" /\ UNCHANGED <<met, twice>>
    BY <1>6, Zenon DEF PlaceCue
  <2> QED
    BY <2>1, <2>2 DEF Places
<1>10. ASSUME NEW p \in Planner, PlaceWrite(p) PROVE Writes(p) \/ Fails(p)
  <2>1. plan[p].pc = "placing" /\ UNCHANGED <<met, twice>>
    BY <1>10 DEF PlaceWrite, Base, RowsAreWhole, Writing
  <2> QED
    BY <1>10, <2>1, WriteCases DEF Writes, Fails
<1>7. ASSUME NEW p \in Planner, PlanEnd(p) PROVE Ends(p)
  BY <1>7, Zenon DEF PlanEnd, Ends
<1>8. ASSUME NEW i, NEW b \in BOOLEAN, MuteCue(i, b) PROVE ByHand
  <2>1. UNCHANGED <<plan, met, twice>>
    BY <1>8 DEF MuteCue
  <2> QED
    BY <1>8, <2>1 DEF ByHand
<1>9. ASSUME NEW s, NEW kind, CreateCue(s, kind) PROVE ByHand
  <2>1. UNCHANGED <<plan, met, twice>>
    BY <1>9 DEF CreateCue
  <2> QED
    BY <1>9, <2>1 DEF ByHand
<1> QED
  BY <1>1, <1>2, <1>3, <1>4, <1>5, <1>6, <1>7, <1>8, <1>9, <1>10 DEF SoundNext, Prepares

-----------------------------------------------------------------------------
(* What is locked stays as it is *)

\* The two halves of LockHolds.
DirectionsHeld ==
  \A x \in SegmentIds :
    (direction[x].locked /\ direction'[x] # direction[x]) =>
       \E w \in Writer : /\ Rewrites(w, x)
                         /\ \/ write[w].by \in {"edit", "read"}
                            \/ ~write[w].seen.locked /\ direction'[x].locked
CuesHeld ==
  \A i \in DOMAIN cues :
    (cues[i].locked /\ cues'[i] # cues[i]) =>
       \/ UNCHANGED plan /\ cues'[i] = [cues[i] EXCEPT !.muted = ~@]
       \/ \E p \in Planner : /\ plan[p].write # <<>> /\ plan[p].write[1].id = i /\ ~plan[p].write[1].seen.locked
                             /\ cues'[i].locked /\ cues'[i].muted = cues[i].muted /\ ~cues'[i].gone
       \/ \E p \in Planner : /\ plan[p].pc = "placing" /\ plan'[p].pc = "idle"
                             /\ i \in AutoRows(plan[p].read) /\ ~plan[p].read[i].locked

\* The rows a plan has read stay a planner's, and so is the one it updates: not
\* locked when that was read, it was not muted either.
Standing(me) ==
  /\ \A i \in AutoRows(me.read) : i \in DOMAIN cues /\ cues[i].auto
  /\ me.write # <<>> => IsRow(me.write[1].seen) /\ me.write[1].seen.auto
Stands == \A p \in Planner : Standing(plan[p])

\* No step takes a row away, or makes it another's.
LEMMA RowsStay ==
  ASSUME Base, SoundNext
  PROVE  \A i \in DOMAIN cues : i \in DOMAIN cues' /\ cues'[i].auto = cues[i].auto
<1>0. cues \in Seq(ToSet(cues)) /\ \A i \in DOMAIN cues : IsRow(cues[i])
  BY DEF Base, RowsAreWhole
<1>1. ASSUME UNCHANGED cues PROVE \A i \in DOMAIN cues : i \in DOMAIN cues' /\ cues'[i].auto = cues[i].auto
  BY <1>1
<1>2. ASSUME NEW row, cues' = Append(cues, row)
      PROVE  \A i \in DOMAIN cues : i \in DOMAIN cues' /\ cues'[i].auto = cues[i].auto
  BY <1>0, <1>2, Appended
<1>3. ASSUME NEW j, NEW row, cues' = [cues EXCEPT ![j] = row], j \in DOMAIN cues => row.auto = cues[j].auto
      PROVE  \A i \in DOMAIN cues : i \in DOMAIN cues' /\ cues'[i].auto = cues[i].auto
  BY <1>3
<1>4. CASE ByHand
  <2>1. ASSUME NEW j, NEW b \in BOOLEAN, MuteCue(j, b)
        PROVE  \A i \in DOMAIN cues : i \in DOMAIN cues' /\ cues'[i].auto = cues[i].auto
    <3>1. PICK row : row = [cues[j] EXCEPT !.muted = b, !.locked = @ \/ cues[j].auto]
      OBVIOUS
    <3>2. cues' = [cues EXCEPT ![j] = row] /\ j \in DOMAIN cues
      BY <2>1, <3>1 DEF MuteCue
    <3>3. row.auto = cues[j].auto
      BY <1>0, <3>1, <3>2 DEF IsRow, RowFields
    <3> QED
      BY <1>3, <3>2, <3>3
  <2>2. ASSUME NEW s, NEW kind, CreateCue(s, kind)
        PROVE  \A i \in DOMAIN cues : i \in DOMAIN cues' /\ cues'[i].auto = cues[i].auto
    BY <1>2, <2>2 DEF CreateCue
  <2> QED
    BY <1>4, <2>1, <2>2 DEF ByHand
<1>5. ASSUME NEW p \in Planner, Prepares(p) PROVE UNCHANGED cues
  <2>1. ASSUME NEW m, PlanBegin(p, m) PROVE UNCHANGED cues
    BY <2>1, Zenon DEF PlanBegin
  <2>2. CASE PlanFill(p)
    BY <2>2, Zenon DEF PlanFill
  <2>3. CASE PlanRead(p)
    BY <2>3, Zenon DEF PlanRead
  <2> QED
    BY <1>5, <2>1, <2>2, <2>3 DEF Prepares
<1>6. ASSUME NEW p \in Planner, Places(p)
      PROVE  \A i \in DOMAIN cues : i \in DOMAIN cues' /\ cues'[i].auto = cues[i].auto
  <2>1. UNCHANGED cues \/ \E row : cues' = Append(cues, row)
    BY <1>6 DEF Places, Skipped, Kept, Made
  <2> QED
    BY <1>1, <1>2, <2>1
<1>7. ASSUME NEW p \in Planner, Writes(p)
      PROVE  \A i \in DOMAIN cues : i \in DOMAIN cues' /\ cues'[i].auto = cues[i].auto
  <2>1. PICK w : w = plan[p].write[1] /\ IsWrite(w)
    BY <1>7 DEF Writes, Wrote, Base, RowsAreWhole, Writing
  <2>2. PICK row : row = Merged(cues[w.id], w.seen, w.row, Applied)
    OBVIOUS
  <2>3. cues' = [cues EXCEPT ![w.id] = row]
    BY <1>7, <2>1, <2>2 DEF Writes, Wrote, Written
  <2>4. ASSUME w.id \in DOMAIN cues PROVE row.auto = cues[w.id].auto
    <3>1. IsMerged(cues[w.id], w, row)
      BY <1>0, <2>1, <2>2, <2>4, MergedIs
    <3> QED
      BY <3>1 DEF IsMerged
  <2> QED
    BY <1>3, <2>3, <2>4
<1>8. ASSUME NEW p \in Planner, Ends(p)
      PROVE  \A i \in DOMAIN cues : i \in DOMAIN cues' /\ cues'[i].auto = cues[i].auto
  <2>1. cues' = [i \in DOMAIN cues |-> IF i \in Obsolete(plan[p]) THEN [cues[i] EXCEPT !.gone = TRUE] ELSE cues[i]]
    BY <1>8, Zenon DEF Ends, PlanEnd
  <2>2. \A i \in DOMAIN cues : [cues[i] EXCEPT !.gone = TRUE].auto = cues[i].auto
    BY <1>0 DEF IsRow, RowFields
  <2> QED
    BY <2>1, <2>2
<1>9. ASSUME NEW p \in Planner, Fails(p) PROVE UNCHANGED cues
  BY <1>9 DEF Fails, Failed
<1> QED
  BY <1>1, <1>4, <1>5, <1>6, <1>7, <1>8, <1>9, SoundCases DEF Aside

\* A plan goes on with the rows it has read, or forgets them, or reads again.
ReadOn(me, new) == new.read = me.read \/ AutoRows(new.read) = {} \/ (UNCHANGED cues /\ new.read = cues)
WriteOn(me, new) ==
  new.write = me.write \/ new.write = <<>> \/ (IsRow(new.write[1].seen) /\ new.write[1].seen.auto)

LEMMA StandsOn ==
  ASSUME Stands, SoundNext, Base, \A q \in Planner : ReadOn(plan[q], plan'[q]) /\ WriteOn(plan[q], plan'[q])
  PROVE  Stands'
<1>1. \A i \in DOMAIN cues : i \in DOMAIN cues' /\ cues'[i].auto = cues[i].auto
  BY RowsStay
<1>2. ASSUME NEW q \in Planner, NEW me, me = plan'[q]
      PROVE  \A i \in AutoRows(me.read) : i \in DOMAIN cues' /\ cues'[i].auto
  <2>1. CASE me.read = plan[q].read
    BY <1>1, <2>1 DEF Stands, Standing
  <2>2. CASE UNCHANGED cues /\ me.read = cues
    BY <2>2 DEF AutoRows
  <2> QED
    BY <1>2, <2>1, <2>2 DEF ReadOn
<1>3. ASSUME NEW q \in Planner, NEW me, me = plan'[q]
      PROVE  me.write # <<>> => IsRow(me.write[1].seen) /\ me.write[1].seen.auto
  <2>1. CASE me.write = plan[q].write
    BY <2>1 DEF Stands, Standing
  <2> QED
    BY <1>3, <2>1 DEF WriteOn
<1> QED
  BY <1>2, <1>3 DEF Stands, Standing

LEMMA StandsApart ==
  ASSUME Stands, SoundNext, Base, NEW p \in Planner, ReadOn(plan[p], plan'[p]), WriteOn(plan[p], plan'[p]),
         \A q \in Planner \ {p} : plan'[q] \in {plan[q], Disturbed(p)[q]}
  PROVE  Stands'
<1>1. ASSUME NEW q \in Planner \ {p} PROVE ReadOn(plan[q], plan'[q]) /\ WriteOn(plan[q], plan'[q])
  <2>1. PICK me : me = Disturbed(p)[q]
    OBVIOUS
  <2>2. me.read = plan[q].read /\ me.write = plan[q].write
    BY <2>1, DisturbedIs
  <2> QED
    BY <2>1, <2>2 DEF ReadOn, WriteOn
<1> QED
  BY <1>1, StandsOn

LEMMA StandsStep ==
  ASSUME Base, Stands, SoundNext
  PROVE  Stands'
<1>0. /\ plan = [q \in Planner |-> plan[q]] /\ \A q \in Planner : DOMAIN plan[q] = DOMAIN IdlePlan /\ Writing(plan[q])
      /\ \A i \in DOMAIN cues : IsRow(cues[i])
  BY DEF Base, RowsAreWhole
<1>1. IdlePlan.write = <<>> /\ AutoRows(IdlePlan.read) = {}
  BY DEF IdlePlan, AutoRows
<1>2. CASE UNCHANGED plan
  BY <1>2, StandsOn DEF ReadOn, WriteOn
<1>3. ASSUME NEW p \in Planner, Prepares(p) PROVE Stands'
  <2>1. ASSUME NEW m \in Mode, PlanBegin(p, m) PROVE Stands'
    <3>1. PICK now : plan' = [plan EXCEPT ![p].pc = now, ![p].mode = m, ![p].fill = MissingOf(Scene)]
      BY <2>1 DEF PlanBegin
    <3>2. /\ \A q \in Planner \ {p} : plan'[q] = plan[q]
          /\ plan'[p].read = plan[p].read /\ plan'[p].write = plan[p].write
      BY <1>0, <3>1 DEF IdlePlan
    <3> QED
      BY <3>2, StandsApart DEF ReadOn, WriteOn
  <2>2. CASE PlanFill(p)
    <3>1. plan' = [plan EXCEPT ![p].pc = "reading"]
      BY <2>2 DEF PlanFill
    <3>2. /\ \A q \in Planner \ {p} : plan'[q] = plan[q]
          /\ plan'[p].read = plan[p].read /\ plan'[p].write = plan[p].write
      BY <1>0, <3>1 DEF IdlePlan
    <3> QED
      BY <3>2, StandsApart DEF ReadOn, WriteOn
  <2>3. CASE PlanRead(p)
    <3>1. PICK want, todo, desired, alone :
            plan' \in {[plan EXCEPT ![p] = IdlePlan],
                       [plan EXCEPT ![p].pc = "placing", ![p].want = want, ![p].todo = todo, ![p].desired = desired,
                                    ![p].read = cues, ![p].silent = {}, ![p].alone = alone]}
      BY <2>3 DEF PlanRead
    <3>2. \A q \in Planner \ {p} : plan'[q] = plan[q]
      BY <1>0, <3>1
    <3>3. UNCHANGED cues
      BY <2>3 DEF PlanRead
    <3>4. plan'[p] = IdlePlan \/ (plan'[p].read = cues /\ plan'[p].write = plan[p].write)
      <4>1. plan'[p] \in {IdlePlan, [plan[p] EXCEPT !.pc = "placing", !.want = want, !.todo = todo, !.desired = desired,
                                                   !.read = cues, !.silent = {}, !.alone = alone]}
        BY <1>0, <3>1
      <4> QED
        BY <1>0, <4>1 DEF IdlePlan
    <3> QED
      BY <1>1, <3>2, <3>3, <3>4, StandsApart DEF ReadOn, WriteOn
  <2> QED
    BY <1>3, <2>1, <2>2, <2>3 DEF Prepares
<1>4. ASSUME NEW p \in Planner, Places(p) PROVE Stands'
  <2>1. PICK n \in plan[p].todo : Skipped(p, n) \/ Kept(p, n) \/ Made(p, n)
    BY <1>4 DEF Places
  <2>2. \A q \in Planner : plan'[q].read = plan[q].read /\ (q # p => plan'[q].write = plan[q].write)
    BY <2>1, PlaceSame
  <2>6. WriteOn(plan[p], plan'[p]) => Stands'
    BY <2>2, StandsOn DEF ReadOn, WriteOn
  <2>3. CASE Skipped(p, n)
    <3>1. plan'[p].write = plan[p].write
      BY <1>0, <2>3 DEF Skipped, IdlePlan
    <3> QED
      BY <2>6, <3>1 DEF WriteOn
  <2>4. CASE Kept(p, n)
    <3>1. PICK i, row : /\ i \in AutoRows(plan[p].read)
                        /\ plan' = [plan EXCEPT ![p].todo = @ \ {n}, ![p].write = Reread(i, row)]
      BY <2>4 DEF Kept
    <3>2. plan'[p].write = Reread(i, row)
      BY <1>0, <3>1 DEF IdlePlan
    <3>3. IsRow(cues[i]) /\ cues[i].auto
      BY <1>0, <3>1 DEF Stands, Standing
    <3>4. plan'[p].write = <<>> \/ plan'[p].write[1].seen = cues[i]
      BY <3>2 DEF Reread
    <3> QED
      BY <2>6, <3>3, <3>4 DEF WriteOn
  <2>5. CASE Made(p, n)
    <3>1. plan'[p].write = plan[p].write
      <4>1. plan' = [Disturbed(p) EXCEPT ![p].todo = @ \ {n}]
        BY <2>5, Zenon DEF Made
      <4>2. plan'[p] = [plan[p] EXCEPT !.todo = @ \ {n}]
        BY <4>1, DisturbedIs
      <4> QED
        BY <1>0, <4>2 DEF IdlePlan
    <3> QED
      BY <2>6, <3>1 DEF WriteOn
  <2> QED
    BY <2>1, <2>3, <2>4, <2>5
<1>5. ASSUME NEW p \in Planner, Writes(p) PROVE Stands'
  <2>1. \A q \in Planner : plan'[q].read = plan[q].read /\ (q # p => plan'[q].write = plan[q].write)
    BY <1>5, PlaceSame DEF Writes
  <2>2. plan'[p].write = <<>>
    <3>1. plan' = [Disturbed(p) EXCEPT ![p].write = <<>>]
      BY <1>5, Zenon DEF Writes, Wrote
    <3>2. plan'[p] = [plan[p] EXCEPT !.write = <<>>]
      BY <3>1, DisturbedIs
    <3> QED
      BY <1>0, <3>2 DEF IdlePlan
  <2> QED
    BY <2>1, <2>2, StandsOn DEF ReadOn, WriteOn
<1>6. ASSUME NEW p \in Planner, Fails(p) \/ Ends(p) PROVE Stands'
  <2>1. plan'[p] = IdlePlan /\ \A q \in Planner \ {p} : plan'[q] \in {plan[q], Disturbed(p)[q]}
    <3>1. plan' \in {[plan EXCEPT ![p] = IdlePlan], [Disturbed(p) EXCEPT ![p] = IdlePlan]}
      BY <1>6, Zenon DEF Fails, Failed, Ends, PlanEnd
    <3> QED
      BY <1>0, <3>1, DisturbedIs
  <2> QED
    BY <1>1, <2>1, StandsApart DEF ReadOn, WriteOn
<1> QED
  BY <1>2, <1>3, <1>4, <1>5, <1>6, SoundCases DEF Aside, ByHand

LEMMA CommitHolds ==
  ASSUME Base, NEW w \in Writer, CommitDirection(w)
  PROVE  DirectionsHeld
<1> SUFFICES ASSUME NEW x \in SegmentIds, direction[x].locked, direction'[x] # direction[x]
             PROVE  /\ Rewrites(w, x)
                    /\ \/ write[w].by \in {"edit", "read"}
                       \/ ~write[w].seen.locked /\ direction'[x].locked
  BY DEF DirectionsHeld
<1>1. write[w].pc = "open" /\ write[w].segment = x /\ IsRequest(write[w])
  BY CommitIs
<1>2. write'[w].pc = "closed"
  BY ClosedIs DEF CommitDirection, Base, DirectionsAreWhole
<1>3. ASSUME write[w].by \notin {"edit", "read"} PROVE ~write[w].seen.locked /\ direction'[x].locked
  <2>1. write[w].by = "infer"
    BY <1>1, <1>3 DEF Base, SoundTypeOK, IsRequest
  <2>2. ~write[w].seen.locked /\ ~write[w].row.locked /\ IsDirection(write[w].seen) /\ IsDirection(write[w].row)
    BY <1>1, <2>1 DEF IsRequest
  <2>3. IsDirection(direction[x])
    BY DEF Base, DirectionsAreWhole
  <2>4. direction'[x] = IF write[w].seen = NoDirection
                        THEN (IF direction[x] = NoDirection THEN write[w].row ELSE direction[x])
                        ELSE Merged(direction[x], write[w].seen, write[w].row, {"locked", "noSfx", "source"})
    BY <1>1, CommitIs
  <2> QED
    BY <2>2, <2>3, <2>4, LandedIs
<1> QED
  BY <1>1, <1>2, <1>3 DEF Rewrites

LEMMA MuteHolds ==
  ASSUME Base, NEW i, NEW b \in BOOLEAN, MuteCue(i, b)
  PROVE  CuesHeld
<1> SUFFICES ASSUME NEW j \in DOMAIN cues, cues[j].locked, cues'[j] # cues[j]
             PROVE  UNCHANGED plan /\ cues'[j] = [cues[j] EXCEPT !.muted = ~@]
  BY DEF CuesHeld
<1>1. j = i /\ IsRow(cues[j]) /\ UNCHANGED plan
  BY DEF Base, RowsAreWhole, MuteCue
<1>2. cues'[j] = [[cues[j] EXCEPT !.muted = b] EXCEPT !.locked = @ \/ cues[j].auto]
  BY <1>1 DEF MuteCue, Base, RowsAreWhole
<1>3. cues[j].locked = TRUE /\ cues[j].muted \in BOOLEAN
  BY <1>1 DEF IsRow
<1>4. cues'[j] = [cues[j] EXCEPT !.muted = b]
  BY <1>1, <1>2, <1>3 DEF IsRow, RowFields
<1>5. b # cues[j].muted
  BY <1>1, <1>4 DEF IsRow, RowFields
<1>6. b = ~cues[j].muted
  BY <1>3, <1>5
<1> QED
  BY <1>1, <1>4, <1>6

LEMMA AppendHolds ==
  ASSUME Base, NEW row, cues' = Append(cues, row)
  PROVE  CuesHeld
BY Appended DEF CuesHeld, Base, RowsAreWhole

\* The lock has come after the update's reading, and outlives the update.
LEMMA WriteHolds ==
  ASSUME Base, Stands, NEW p \in Planner, Wrote(p)
  PROVE  CuesHeld
<1>0. \A i \in DOMAIN cues : IsRow(cues[i])
  BY DEF Base, RowsAreWhole
<1>1. PICK w : w = plan[p].write[1] /\ IsWrite(w) /\ IsRow(w.seen) /\ w.seen.auto /\ plan[p].write # <<>>
  BY DEF Wrote, Base, RowsAreWhole, Writing, Stands, Standing
<1>2. cues' = [cues EXCEPT ![w.id] = Merged(@, w.seen, w.row, Applied)]
  BY <1>1 DEF Wrote, Written
<1> SUFFICES ASSUME NEW i \in DOMAIN cues, cues[i].locked, cues'[i] # cues[i]
             PROVE  /\ w.id = i /\ ~w.seen.locked
                    /\ cues'[i].locked /\ cues'[i].muted = cues[i].muted /\ ~cues'[i].gone
  BY <1>1 DEF CuesHeld
<1>3. w.id = i /\ cues'[i] = Merged(cues[i], w.seen, w.row, Applied)
  BY <1>2
<1>4. ~w.seen.locked /\ w.seen.muted = FALSE
  BY <1>1 DEF IsWrite, IsRow
<1>5. cues'[i].locked = cues[i].locked /\ cues'[i].muted = cues[i].muted /\ cues'[i].gone = cues[i].gone
  <2>1. IsMerged(cues[i], w, cues'[i])
    BY <1>0, <1>1, <1>3, MergedIs
  <2> QED
    BY <1>4, <2>1 DEF IsMerged
<1>6. ~cues[i].gone
  <2> SUFFICES ASSUME cues[i].gone PROVE FALSE
    OBVIOUS
  <2>1. \A f \in Applied : w.row[f] = w.seen[f]
    BY <1>1, <1>3 DEF Wrote
  <2>2. cues'[i] = [f \in DOMAIN cues[i] |-> cues[i][f]]
    BY <1>3, <2>1 DEF Merged
  <2> QED
    BY <1>0, <2>2 DEF IsRow
<1> QED
  BY <1>3, <1>4, <1>5, <1>6

LEMMA EndHolds ==
  ASSUME Base, NEW p \in Planner, PlanEnd(p)
  PROVE  CuesHeld
<1>1. \A i \in DOMAIN cues : cues'[i] # cues[i] => i \in Obsolete(plan[p])
  BY DEF PlanEnd
<1>2. plan[p].pc = "placing" /\ plan'[p].pc = "idle"
  BY DisturbedIs DEF PlanEnd, IdlePlan
<1> QED
  BY <1>1, <1>2 DEF CuesHeld, Obsolete

LEMMA CuesHeldStep ==
  ASSUME Base, Stands, SoundNext
  PROVE  CuesHeld
<1>1. UNCHANGED cues => CuesHeld
  BY DEF CuesHeld
<1>2. CASE ByHand
  <2>1. ASSUME NEW s, NEW kind, CreateCue(s, kind) PROVE CuesHeld
    BY <2>1, AppendHolds DEF CreateCue
  <2> QED
    BY <1>2, <2>1, MuteHolds DEF ByHand
<1>3. ASSUME NEW p \in Planner, Prepares(p) PROVE UNCHANGED cues
  <2>1. ASSUME NEW m, PlanBegin(p, m) PROVE UNCHANGED cues
    BY <2>1, Zenon DEF PlanBegin
  <2>2. CASE PlanFill(p)
    BY <2>2, Zenon DEF PlanFill
  <2>3. CASE PlanRead(p)
    BY <2>3, Zenon DEF PlanRead
  <2> QED
    BY <1>3, <2>1, <2>2, <2>3 DEF Prepares
<1>4. ASSUME NEW p \in Planner, Places(p) PROVE CuesHeld
  <2>1. UNCHANGED cues \/ \E row : cues' = Append(cues, row)
    BY <1>4 DEF Places, Skipped, Kept, Made
  <2> QED
    BY <1>1, <2>1, AppendHolds
<1>5. ASSUME NEW p \in Planner, Writes(p) \/ Fails(p) \/ Ends(p) PROVE CuesHeld
  BY <1>1, <1>5, WriteHolds, EndHolds DEF Writes, Fails, Failed, Ends
<1> QED
  BY <1>1, <1>2, <1>3, <1>4, <1>5, SoundCases DEF Aside

LEMMA DirectionsHeldStep ==
  ASSUME Base, SoundNext
  PROVE  DirectionsHeld
<1>0. UNCHANGED direction => DirectionsHeld
  BY DEF DirectionsHeld
<1>1. ASSUME NEW e \in Extractor, ReadScenes(e) \/ WriteProfiles(e) PROVE UNCHANGED direction
  BY <1>1 DEF ReadScenes, WriteProfiles
<1>2. ASSUME NEW w, NEW x, NEW source, Infer(w, x, source) PROVE UNCHANGED direction
  BY <1>2 DEF Infer
<1>3. ASSUME NEW w, NEW x, NEW locked, NEW noSfx, UpdateSegmentDirection(w, x, locked, noSfx) PROVE UNCHANGED direction
  BY <1>3 DEF UpdateSegmentDirection
<1>4. ASSUME NEW w, (\E x \in SegmentIds : ReadDirection(w, x)) \/ CreateDirection(w) PROVE UNCHANGED direction
  BY <1>4 DEF ReadDirection, CreateDirection
<1>5. ASSUME NEW p, NEW m, PlanBegin(p, m) PROVE UNCHANGED direction
  BY <1>5, Zenon DEF PlanBegin
<1>6. ASSUME NEW p, PlanFill(p) \/ PlanRead(p) \/ PlaceWrite(p) \/ PlanEnd(p) PROVE UNCHANGED direction
  <2>1. ASSUME PlanFill(p) PROVE UNCHANGED direction
    BY <2>1, Zenon DEF PlanFill
  <2>2. ASSUME PlanRead(p) PROVE UNCHANGED direction
    BY <2>2, Zenon DEF PlanRead
  <2>3. ASSUME PlaceWrite(p) PROVE UNCHANGED direction
    BY <2>3, Zenon DEF PlaceWrite
  <2>4. ASSUME PlanEnd(p) PROVE UNCHANGED direction
    BY <2>4, Zenon DEF PlanEnd
  <2> QED
    BY <1>6, <2>1, <2>2, <2>3, <2>4
<1>7. ASSUME NEW p, NEW n, PlaceCue(p, n) PROVE UNCHANGED direction
  BY <1>7, Zenon DEF PlaceCue
<1>8. ASSUME NEW i, NEW b, MuteCue(i, b) PROVE UNCHANGED direction
  BY <1>8 DEF MuteCue
<1>9. ASSUME NEW s, NEW kind, CreateCue(s, kind) PROVE UNCHANGED direction
  BY <1>9 DEF CreateCue
<1>10. ASSUME NEW f, NEW m, Assemble(f, m) PROVE UNCHANGED direction
  BY <1>10 DEF Assemble
<1> QED
  BY <1>0, <1>1, <1>2, <1>3, <1>4, <1>5, <1>6, <1>7, <1>8, <1>9, <1>10, CommitHolds DEF SoundNext

LEMMA BaseHolds == SoundSpec => []Base
<1>1. Base /\ UNCHANGED soundVars => Base'
  BY DEF Base, RowsAreWhole, DirectionsAreWhole, SoundTypeOK, soundVars
<1> QED
  BY <1>1, BaseInit, BaseStep, PTL DEF SoundSpec

\* A lock is lifted by the user alone: what an update changes of a row that was
\* locked after it was read is neither the lock nor a cue's silence; the windows
\* in which a locked row is overwritten or deleted are the ones LockHolds names
\* (upsert, _materialize).
THEOREM LocksHold == SoundSpec => LockHolds
<1>1. Base /\ Stands /\ [SoundNext]_soundVars => [DirectionsHeld /\ CuesHeld]_soundVars
  BY DirectionsHeldStep, CuesHeldStep
<1>2. (DirectionsHeld /\ CuesHeld) <=>
      /\ \A x \in SegmentIds :
          (direction[x].locked /\ direction'[x] # direction[x]) =>
             \E w \in Writer : /\ Rewrites(w, x)
                               /\ \/ write[w].by \in {"edit", "read"}
                                  \/ ~write[w].seen.locked /\ direction'[x].locked
      /\ \A i \in DOMAIN cues :
          (cues[i].locked /\ cues'[i] # cues[i]) =>
             \/ UNCHANGED plan /\ cues'[i] = [cues[i] EXCEPT !.muted = ~@]
             \/ \E p \in Planner : /\ plan[p].write # <<>> /\ plan[p].write[1].id = i /\ ~plan[p].write[1].seen.locked
                                   /\ cues'[i].locked /\ cues'[i].muted = cues[i].muted /\ ~cues'[i].gone
             \/ \E p \in Planner : /\ plan[p].pc = "placing" /\ plan'[p].pc = "idle"
                                   /\ i \in AutoRows(plan[p].read) /\ ~plan[p].read[i].locked
  BY Zenon DEF DirectionsHeld, CuesHeld
<1>3. SoundInit => Stands
  BY DEF SoundInit, IdlePlan, Stands, Standing, AutoRows
<1>4. Base /\ Stands /\ [SoundNext]_soundVars => Stands'
  BY StandsStep DEF Stands, Standing, soundVars
<1> QED
  BY <1>1, <1>2, <1>3, <1>4, BaseHolds, PTL DEF SoundSpec, LockHolds

-----------------------------------------------------------------------------
(* A plan that nobody disturbs finds its rows where it left them *)

\* Rows that differ in nothing a plan looks at.
Alike(rows, new) ==
  /\ DOMAIN rows \subseteq DOMAIN new
  /\ \A i \in DOMAIN rows : /\ new[i].key = rows[i].key /\ new[i].auto = rows[i].auto /\ new[i].gone = rows[i].gone
                            /\ rows[i].locked => new[i].locked
  /\ \A i \in DOMAIN new \ DOMAIN rows : ~new[i].auto

LEMMA FollowsAlike ==
  ASSUME NEW me, NEW rows, NEW new, Followed(me, rows), Alike(rows, new)
  PROVE  Followed(me, new)
<1>1. AutoRows(new) = AutoRows(rows) /\ \A i \in AutoRows(rows) : i \in DOMAIN rows
  BY DEF Alike, AutoRows
<1>2. Keys(new) = Keys(rows)
  BY <1>1 DEF Alike, Keys
<1>3. Recalled(me, new)
  BY DEF Followed, Recalled, Alike
<1>4. \A i \in AutoRows(new) \ DOMAIN me.read : \E k \in Done(me) : IsOwn(me, k, new[i])
  BY <1>1 DEF Followed, Alike, IsOwn
<1> QED
  BY <1>1, <1>2, <1>3, <1>4 DEF Followed

\* The same plan, one cue further.
Further(me, n, new) ==
  /\ new.want = me.want /\ new.mode = me.mode /\ new.read = me.read /\ new.desired = me.desired
  /\ new.todo = me.todo \ {n} /\ (new.write = <<>> \/ Recollects(new))

LEMMA FurtherDone ==
  ASSUME NEW me, NEW rows, NEW n \in me.todo, Recalled(me, rows), NEW new, Further(me, n, new)
  PROVE  Done(new) = Done(me) \cup {n} /\ Recalled(new, rows)
BY DEF Further, Done, Recalled, KeyOf

LEMMA FollowsSkip ==
  ASSUME NEW me, NEW rows, NEW n \in me.todo, Followed(me, rows), NEW new,
         Further(me, n, new), new.silent = me.silent \cup {KeyOf(me, n)}
  PROVE  Followed(new, rows)
<1>1. Done(new) = Done(me) \cup {n} /\ Recalled(new, rows)
  BY FurtherDone DEF Followed
<1>2. \A k : KeyOf(new, k) = KeyOf(me, k)
  BY DEF KeyOf, Further
<1>3. \A k, row : IsOwn(me, k, row) => IsOwn(new, k, row)
  BY <1>2 DEF IsOwn, Further
<1>4. \A k \in Done(new) : KeyOf(new, k) \in new.silent \cup Keys(rows)
  BY <1>1, <1>2 DEF Followed
<1>5. \A i \in AutoRows(rows) \ DOMAIN new.read : \E k \in Done(new) : IsOwn(new, k, rows[i])
  BY <1>1, <1>3 DEF Followed, Further
<1> QED
  BY <1>1, <1>4, <1>5 DEF Followed

\* A row of its own, or one it found, carries the key of the cue just placed.
PlacedIn(me, n, rows, here) ==
  /\ DOMAIN rows \subseteq DOMAIN here
  /\ \A i \in DOMAIN rows :
       /\ here[i].key = rows[i].key /\ here[i].auto = rows[i].auto /\ here[i].gone = rows[i].gone
       /\ (i \in DOMAIN me.read /\ me.read[i].locked) => here[i].locked
  /\ \A i \in AutoRows(here) \ DOMAIN rows : IsOwn(me, n, here[i])
  /\ KeyOf(me, n) \in Keys(here)

LEMMA FollowsPlace ==
  ASSUME NEW me, NEW rows, NEW n \in me.todo, Followed(me, rows), NEW new, NEW here,
         Further(me, n, new), new.silent = me.silent, PlacedIn(me, n, rows, here)
  PROVE  Followed(new, here)
<1>1. Recalled(me, here)
  BY DEF PlacedIn, Recalled, Followed
<1>2. Done(new) = Done(me) \cup {n} /\ Recalled(new, here)
  BY <1>1, FurtherDone
<1>3. \A k : KeyOf(new, k) = KeyOf(me, k)
  BY DEF KeyOf, Further
<1>4. \A k, row : IsOwn(me, k, row) => IsOwn(new, k, row)
  BY <1>3 DEF IsOwn, Further
<1>5. \A i \in AutoRows(rows) : i \in AutoRows(here) /\ here[i].key = rows[i].key
  BY DEF AutoRows, PlacedIn
<1>6. Keys(rows) \subseteq Keys(here)
  BY <1>5 DEF Keys
<1>7. \A k \in Done(new) : KeyOf(new, k) \in new.silent \cup Keys(here)
  BY <1>2, <1>3, <1>6 DEF Followed, PlacedIn
<1>8. ASSUME NEW i \in AutoRows(here) \ DOMAIN new.read
      PROVE  \E k \in Done(new) : IsOwn(new, k, here[i])
  <2>1. CASE i \in DOMAIN rows
    <3>1. i \in AutoRows(rows) \ DOMAIN me.read /\ here[i].key = rows[i].key
      BY <2>1 DEF AutoRows, PlacedIn, Further
    <3>2. PICK k \in Done(me) : IsOwn(me, k, rows[i])
      BY <3>1 DEF Followed
    <3>3. IsOwn(me, k, here[i])
      BY <3>1, <3>2 DEF IsOwn
    <3> QED
      BY <1>2, <1>4, <3>3
  <2>2. CASE i \notin DOMAIN rows
    BY <1>2, <1>4, <2>2 DEF PlacedIn
  <2> QED
    BY <2>1, <2>2
<1> QED
  BY <1>2, <1>7, <1>8 DEF Followed

LEMMA FollowsRead ==
  ASSUME NEW me, NEW rows, me.read = rows, me.todo = DOMAIN me.want, me.write = <<>>,
         me.desired = {KeyOf(me, k) : k \in DOMAIN me.want}
  PROVE  Followed(me, rows)
BY DEF Followed, Done, AutoRows, Recalled

LEMMA FollowsWritten ==
  ASSUME NEW me, NEW rows, Followed(me, rows), NEW new, new.want = me.want, new.mode = me.mode, new.read = me.read,
         new.desired = me.desired, new.todo = me.todo, new.silent = me.silent, new.write = <<>>
  PROVE  Followed(new, rows)
<1>1. \A k : KeyOf(new, k) = KeyOf(me, k)
  BY DEF KeyOf
<1>2. \A k, row : IsOwn(me, k, row) => IsOwn(new, k, row)
  BY <1>1 DEF IsOwn
<1>3. Done(new) = Done(me)
  BY DEF Done
<1>4. Recalled(new, rows)
  BY <1>1 DEF Followed, Recalled
<1> QED
  BY <1>1, <1>2, <1>3, <1>4 DEF Followed

LEMMA FollowTouch ==
  ASSUME Base, PlansFollow,
         (\E i : \E b \in BOOLEAN : MuteCue(i, b)) \/ \E s, kind : CreateCue(s, kind)
  PROVE  PlansFollow'
<1>1. UNCHANGED plan /\ Alike(cues, cues')
  <2>1. ASSUME NEW i, NEW b \in BOOLEAN, MuteCue(i, b) PROVE UNCHANGED plan /\ Alike(cues, cues')
    <3>1. \A j \in DOMAIN cues : IsRow(cues[j])
      BY DEF Base, RowsAreWhole
    <3>2. cues' = [cues EXCEPT ![i] = [[cues[i] EXCEPT !.muted = b] EXCEPT !.locked = @ \/ cues[i].auto]]
          /\ i \in DOMAIN cues /\ UNCHANGED plan
      BY <2>1 DEF MuteCue
    <3>3. PICK row : row = [[cues[i] EXCEPT !.muted = b] EXCEPT !.locked = @ \/ cues[i].auto]
      OBVIOUS
    <3>4. /\ row.key = cues[i].key /\ row.auto = cues[i].auto /\ row.gone = cues[i].gone
          /\ cues[i].locked => row.locked
      BY <3>1, <3>2, <3>3 DEF IsRow, RowFields
    <3>5. cues' = [cues EXCEPT ![i] = row]
      BY <3>2, <3>3
    <3>6. DOMAIN cues' = DOMAIN cues /\ \A j \in DOMAIN cues : cues'[j] = IF j = i THEN row ELSE cues[j]
      BY <3>2, <3>5
    <3> QED
      BY <3>2, <3>4, <3>6 DEF Alike
  <2>2. ASSUME NEW s, NEW kind, CreateCue(s, kind) PROVE UNCHANGED plan /\ Alike(cues, cues')
    <3>1. PICK c, asset : cues' = Append(cues, Row(c, "light", asset, "user"))
      BY <2>2 DEF CreateCue
    <3>3. ~Row(c, "light", asset, "user").auto
      BY DEF Row
    <3>2. UNCHANGED plan
      BY <2>2 DEF CreateCue
    <3> QED
      BY <3>1, <3>2, <3>3, Appended DEF Alike, Base, RowsAreWhole
  <2> QED
    BY <2>1, <2>2
<1>2. ASSUME NEW p \in Planner, plan[p].pc = "placing", plan[p].alone PROVE Followed(plan[p], cues')
  BY <1>1, <1>2, FollowsAlike DEF PlansFollow
<1> QED
  BY <1>1, <1>2 DEF PlansFollow

LEMMA FollowPlan ==
  ASSUME Base, PlansFollow, NEW p \in Planner,
         \/ \E m \in Mode : PlanBegin(p, m)
         \/ PlanFill(p) \/ PlanRead(p)
  PROVE  PlansFollow'
<1>0. plan = [q \in Planner |-> plan[q]] /\ \A q \in Planner : DOMAIN plan[q] = DOMAIN IdlePlan
  BY DEF Base, RowsAreWhole
<1>1. CASE (\E m \in Mode : PlanBegin(p, m)) \/ PlanFill(p)
  <2>1. UNCHANGED cues /\ plan'[p].pc # "placing" /\ \A q \in Planner \ {p} : plan'[q] = plan[q]
    <3>1. ASSUME NEW m \in Mode, PlanBegin(p, m)
          PROVE  UNCHANGED cues /\ plan'[p].pc # "placing" /\ \A q \in Planner \ {p} : plan'[q] = plan[q]
      <4>1. PICK now \in {"reading", "filling"} :
              plan' = [plan EXCEPT ![p].pc = now, ![p].mode = m, ![p].fill = MissingOf(Scene)]
        BY <3>1 DEF PlanBegin
      <4>2. UNCHANGED cues
        BY <3>1 DEF PlanBegin
      <4> QED
        BY <1>0, <4>1, <4>2 DEF IdlePlan
    <3>2. CASE PlanFill(p)
      <4>1. plan' = [plan EXCEPT ![p].pc = "reading"] /\ UNCHANGED cues
        BY <3>2 DEF PlanFill
      <4> QED
        BY <1>0, <4>1 DEF IdlePlan
    <3> QED
      BY <1>1, <3>1, <3>2
  <2> QED
    BY <2>1 DEF PlansFollow
<1>2. CASE PlanRead(p)
  <2>1. PICK want, alone :
          plan' \in {[plan EXCEPT ![p] = IdlePlan],
                     [plan EXCEPT ![p].pc = "placing", ![p].want = want, ![p].todo = DOMAIN want,
                                  ![p].desired = {PlanKey(plan[p].mode, want[i]) : i \in DOMAIN want},
                                  ![p].read = cues, ![p].silent = {}, ![p].alone = alone]}
    BY <1>2 DEF PlanRead
  <2>2. UNCHANGED cues
    BY <1>2 DEF PlanRead
  <2>3. (\A q \in Planner \ {p} : plan'[q] = plan[q])
        /\ (plan'[p].pc = "placing" => Followed(plan'[p], cues))
    <3>1. CASE plan' = [plan EXCEPT ![p] = IdlePlan]
      BY <1>0, <3>1 DEF IdlePlan
    <3>2. CASE plan' # [plan EXCEPT ![p] = IdlePlan]
      <4>1. plan'[p] = [plan[p] EXCEPT !.pc = "placing", !.want = want, !.todo = DOMAIN want,
                                       !.desired = {PlanKey(plan[p].mode, want[i]) : i \in DOMAIN want},
                                       !.read = cues, !.silent = {}, !.alone = alone]
            /\ \A q \in Planner \ {p} : plan'[q] = plan[q]
        BY <1>0, <2>1, <3>2
      <4>2. /\ plan'[p].want = want /\ plan'[p].todo = DOMAIN want /\ plan'[p].read = cues
            /\ plan'[p].desired = {PlanKey(plan[p].mode, want[i]) : i \in DOMAIN want}
            /\ plan'[p].mode = plan[p].mode /\ plan'[p].write = plan[p].write
        BY <1>0, <4>1 DEF IdlePlan
      <4>4. plan[p].write = <<>>
        BY <1>2 DEF PlanRead, Base, RowsAreWhole, Writing
      <4>3. plan'[p].desired = {KeyOf(plan'[p], k) : k \in DOMAIN plan'[p].want}
        BY <4>2 DEF KeyOf
      <4> QED
        BY <4>1, <4>2, <4>3, <4>4, FollowsRead
    <3> QED
      BY <3>1, <3>2
  <2> QED
    BY <2>2, <2>3 DEF PlansFollow
<1> QED
  BY <1>1, <1>2

LEMMA FollowEnd ==
  ASSUME Base, PlansFollow, NEW p \in Planner, PlanEnd(p)
  PROVE  PlansFollow'
<1>1. plan' = [Disturbed(p) EXCEPT ![p] = IdlePlan]
  BY DEF PlanEnd
<1>2. plan'[p].pc = "idle" /\ \A q \in Planner \ {p} : plan'[q].alone = FALSE
  BY <1>1, DisturbedIs DEF IdlePlan
<1> QED
  BY <1>2 DEF PlansFollow

LEMMA FollowPlaceStep ==
  ASSUME Base, PlansFollow, NEW p \in Planner, NEW n \in plan[p].todo,
         Skipped(p, n) \/ Kept(p, n) \/ Made(p, n)
  PROVE  PlansFollow'
<1>0. plan = [q \in Planner |-> plan[q]] /\ \A q \in Planner : DOMAIN plan[q] = DOMAIN IdlePlan
  BY DEF Base, RowsAreWhole
<1>1. CASE Skipped(p, n)
  <2>1. /\ UNCHANGED cues /\ \A q \in Planner \ {p} : plan'[q] = plan[q]
        /\ plan'[p] = [plan[p] EXCEPT !.todo = @ \ {n}, !.silent = @ \cup {KeyOf(plan[p], n)}]
    BY <1>0, <1>1 DEF Skipped
  <2>2. /\ Further(plan[p], n, plan'[p]) /\ plan'[p].silent = plan[p].silent \cup {KeyOf(plan[p], n)}
        /\ plan'[p].pc = plan[p].pc /\ plan'[p].alone = plan[p].alone
    BY <1>0, <1>1, <2>1 DEF IdlePlan, Further, Skipped
  <2>3. plan[p].pc = "placing" /\ plan[p].alone => Followed(plan'[p], cues)
    BY <2>2, FollowsSkip DEF PlansFollow
  <2> QED
    BY <2>1, <2>2, <2>3 DEF PlansFollow
<1>2. ASSUME plan' = [Disturbed(p) EXCEPT ![p].todo = @ \ {n}], plan[p].write = <<>>,
             PlacedIn(plan[p], n, cues, cues') \/ ~Followed(plan[p], cues)
      PROVE  PlansFollow'
  <2>1. /\ plan'[p] = [plan[p] EXCEPT !.todo = @ \ {n}]
        /\ \A q \in Planner \ {p} : plan'[q].alone = FALSE
    BY <1>2, DisturbedIs
  <2>2. /\ Further(plan[p], n, plan'[p]) /\ plan'[p].silent = plan[p].silent
        /\ plan'[p].pc = plan[p].pc /\ plan'[p].alone = plan[p].alone
    BY <1>0, <1>2, <2>1 DEF IdlePlan, Further
  <2>3. plan[p].pc = "placing" /\ plan[p].alone => Followed(plan'[p], cues')
    BY <1>2, <2>2, FollowsPlace DEF PlansFollow
  <2> QED
    BY <2>1, <2>2, <2>3 DEF PlansFollow
<1>3. CASE Kept(p, n)
  <2>1. PICK i, asset :
          /\ UNCHANGED cues /\ i \in AutoRows(plan[p].read) /\ plan[p].read[i].key = KeyOf(plan[p], n)
          /\ plan' = [plan EXCEPT ![p].todo = @ \ {n},
                                  ![p].write = Reread(i, Row(plan[p].want[n], plan[p].mode, asset, "planner"))]
    BY <1>3 DEF Kept
  <2>2. PICK row : row = Row(plan[p].want[n], plan[p].mode, asset, "planner")
    OBVIOUS
  <2>3. /\ plan'[p] = [plan[p] EXCEPT !.todo = @ \ {n}, !.write = Reread(i, row)]
        /\ \A q \in Planner \ {p} : plan'[q] = plan[q]
    BY <1>0, <2>1, <2>2
  <2>4. PICK new : new = plan'[p]
    OBVIOUS
  <2>5. /\ new.want = plan[p].want /\ new.mode = plan[p].mode /\ new.read = plan[p].read /\ new.desired = plan[p].desired
        /\ new.todo = plan[p].todo \ {n} /\ new.write = Reread(i, row) /\ new.silent = plan[p].silent
        /\ new.pc = plan[p].pc /\ new.alone = plan[p].alone
    BY <1>0, <2>3, <2>4 DEF IdlePlan
  <2>6. ASSUME Followed(plan[p], cues) PROVE Followed(new, cues)
    <3>1. /\ i \in DOMAIN cues /\ cues[i].auto /\ ~cues[i].gone /\ cues[i].key = KeyOf(plan[p], n)
          /\ n \in DOMAIN plan[p].want
      BY <2>1, <2>6 DEF Followed, Recalled, AutoRows
    <3>2. PlacedIn(plan[p], n, cues, cues)
      BY <2>6, <3>1 DEF PlacedIn, AutoRows, Keys, Followed, Recalled
    <3>3. new.write = <<>> \/ Recollects(new)
      <4>1. CASE new.write = <<[id |-> i, seen |-> cues[i], row |-> row]>>
        <5>1. new.write[1].id = i /\ new.write[1].seen = cues[i] /\ new.write[1].row = row
          BY <4>1
        <5>2. KeyOf(new, n) = plan[p].read[i].key
          BY <2>1, <2>5 DEF KeyOf
        <5> QED
          BY <2>1, <2>2, <2>5, <3>1, <5>1, <5>2 DEF Recollects
      <4> QED
        BY <2>5, <4>1 DEF Reread
    <3>4. Further(plan[p], n, new)
      BY <2>5, <3>3 DEF Further
    <3> QED
      BY <2>5, <2>6, <3>2, <3>4, FollowsPlace
  <2>7. ASSUME NEW q \in Planner, plan'[q].pc = "placing", plan'[q].alone PROVE Followed(plan'[q], cues)
    <3>1. CASE q = p
      <4>1. Followed(plan[p], cues)
        BY <2>4, <2>5, <2>7, <3>1 DEF PlansFollow
      <4> QED
        BY <2>4, <2>6, <3>1, <4>1
    <3>2. CASE q # p
      BY <2>3, <2>7, <3>2 DEF PlansFollow
    <3> QED
      BY <3>1, <3>2
  <2> QED
    BY <2>1, <2>7 DEF PlansFollow
<1>4. CASE Made(p, n)
  <2>1. PICK asset : cues' = Append(cues, Row(plan[p].want[n], plan[p].mode, asset, "planner"))
    BY <1>4 DEF Made
  <2>2. PICK row : row = Row(plan[p].want[n], plan[p].mode, asset, "planner")
    OBVIOUS
  <2>3. row.key = KeyOf(plan[p], n) /\ row.auto /\ ~row.gone
    BY <2>2 DEF Row, KeyOf
  <2>4. IsOwn(plan[p], n, row)
    BY <1>4, <2>3 DEF Made, IsOwn
  <2>5. /\ DOMAIN cues' = DOMAIN cues \cup {Len(cues) + 1} /\ Len(cues) + 1 \notin DOMAIN cues
        /\ cues'[Len(cues) + 1] = row /\ \A i \in DOMAIN cues : cues'[i] = cues[i]
    BY <2>1, <2>2, Appended DEF Base, RowsAreWhole
  <2>6. \A i \in AutoRows(cues') \ DOMAIN cues : IsOwn(plan[p], n, cues'[i])
    BY <2>4, <2>5 DEF AutoRows
  <2>7. KeyOf(plan[p], n) \in Keys(cues')
    BY <2>3, <2>5 DEF Keys, AutoRows
  <2>8. Followed(plan[p], cues) => PlacedIn(plan[p], n, cues, cues')
    BY <2>5, <2>6, <2>7 DEF PlacedIn, Followed, Recalled
  <2> QED
    BY <1>2, <1>4, <2>8 DEF Made
<1> QED
  BY <1>1, <1>3, <1>4

\* The row an update of its own changes keeps its key.
LEMMA FollowWrite ==
  ASSUME Base, PlansFollow, NEW p \in Planner, Wrote(p), plan[p].pc = "placing"
  PROVE  PlansFollow'
<1>0. /\ plan = [q \in Planner |-> plan[q]] /\ DOMAIN plan[p] = DOMAIN IdlePlan
      /\ \A i \in DOMAIN cues : IsRow(cues[i])
  BY DEF Base, RowsAreWhole
<1>1. plan' = [Disturbed(p) EXCEPT ![p].write = <<>>]
  BY Zenon DEF Wrote
<1>2. /\ plan'[p] = [plan[p] EXCEPT !.write = <<>>]
      /\ \A q \in Planner \ {p} : plan'[q].alone = FALSE
  BY <1>1, DisturbedIs
<1>3. PICK w : w = plan[p].write[1] /\ IsWrite(w)
  BY DEF Wrote, Base, RowsAreWhole, Writing
<1>4. ASSUME Followed(plan[p], cues) PROVE Followed(plan'[p], cues')
  <2>1. Recollects(plan[p]) /\ Recalled(plan[p], cues)
    BY <1>4 DEF Followed, Recalled, Wrote
  <2>2. w.row.key = w.seen.key /\ w.id \in AutoRows(plan[p].read)
    <3>1. PICK k, asset : /\ KeyOf(plan[p], k) = plan[p].read[w.id].key
                          /\ w.row = Row(plan[p].want[k], plan[p].mode, asset, "planner")
      BY <1>3, <2>1 DEF Recollects
    <3>2. w.row.key = KeyOf(plan[p], k)
      BY <3>1 DEF Row, KeyOf
    <3> QED
      BY <1>3, <2>1, <3>1, <3>2 DEF Recollects
  <2>3. w.id \in DOMAIN cues
    BY <2>1, <2>2 DEF Recalled, AutoRows
  <2>4. PICK row : row = Merged(cues[w.id], w.seen, w.row, Applied)
    OBVIOUS
  <2>5. IsMerged(cues[w.id], w, row)
    BY <1>0, <1>3, <2>3, <2>4, MergedIs
  <2>6. row.key = cues[w.id].key /\ row.auto = cues[w.id].auto /\ row.gone = cues[w.id].gone /\ row.locked = cues[w.id].locked
    BY <2>2, <2>5 DEF IsMerged
  <2>7. cues' = [cues EXCEPT ![w.id] = row]
    BY <1>3, <2>4 DEF Wrote, Written
  <2>8. Alike(cues, cues')
    BY <2>6, <2>7 DEF Alike
  <2>9. Followed(plan[p], cues')
    BY <1>4, <2>8, FollowsAlike
  <2>10. PICK new : new = plan'[p]
    OBVIOUS
  <2>11. /\ new.want = plan[p].want /\ new.mode = plan[p].mode /\ new.read = plan[p].read /\ new.write = <<>>
         /\ new.desired = plan[p].desired /\ new.todo = plan[p].todo /\ new.silent = plan[p].silent
    BY <1>0, <1>2, <2>10 DEF IdlePlan
  <2> QED
    BY <2>9, <2>10, <2>11, FollowsWritten
<1>5. plan'[p].alone = plan[p].alone
  BY <1>0, <1>2 DEF IdlePlan
<1> QED
  BY <1>2, <1>4, <1>5 DEF PlansFollow

LEMMA FollowFail ==
  ASSUME Base, PlansFollow, NEW p \in Planner, Failed(p)
  PROVE  PlansFollow'
<1>1. UNCHANGED cues /\ plan' = [plan EXCEPT ![p] = IdlePlan]
  BY Zenon DEF Failed
<1>2. plan'[p].pc = "idle" /\ \A q \in Planner \ {p} : plan'[q] = plan[q]
  BY <1>1 DEF Base, RowsAreWhole, IdlePlan
<1> QED
  BY <1>1, <1>2 DEF PlansFollow

LEMMA FollowStep ==
  ASSUME Base, PlansFollow, SoundNext
  PROVE  PlansFollow'
<1>1. CASE Aside
  BY <1>1 DEF Aside, PlansFollow
<1>2. CASE ByHand
  BY <1>2, FollowTouch DEF ByHand
<1>3. ASSUME NEW p \in Planner, Prepares(p) PROVE PlansFollow'
  BY <1>3, FollowPlan DEF Prepares
<1>4. ASSUME NEW p \in Planner, Places(p) PROVE PlansFollow'
  BY <1>4, FollowPlaceStep DEF Places
<1>5. ASSUME NEW p \in Planner, Writes(p) \/ Fails(p) \/ Ends(p) PROVE PlansFollow'
  BY <1>5, FollowWrite, FollowFail, FollowEnd DEF Writes, Fails, Ends
<1> QED
  BY <1>1, <1>2, <1>3, <1>4, <1>5, SoundCases

-----------------------------------------------------------------------------
(* What a finished plan leaves behind *)

\* What PlanIsCarriedOut asks of a step.
CarriedOut ==
  \A p \in Planner :
       (plan[p].pc = "placing" /\ plan'[p].pc = "idle" /\ plan[p].alone) =>
         LET live == {i \in DOMAIN cues' : cues'[i].auto /\ ~cues'[i].gone}
         IN /\ {cues'[i].key : i \in {k \in live : ~cues'[k].locked}} \subseteq plan[p].desired
            /\ plan[p].desired \ plan[p].silent \subseteq {cues'[i].key : i \in live}

\* The obsolete rows of a plan are marked as deleted.
Cleaned(me, rows, new) ==
  new = [i \in DOMAIN rows |-> IF i \in Obsolete(me) THEN [rows[i] EXCEPT !.gone = TRUE] ELSE rows[i]]

\* Rows without those a plan has found obsolete.
LEMMA CleanedRows ==
  ASSUME NEW me, NEW rows, NEW new, \A i \in DOMAIN rows : IsRow(rows[i]), Cleaned(me, rows, new)
  PROVE  \A i \in AutoRows(new) : i \in AutoRows(rows) /\ i \notin Obsolete(me) /\ new[i] = rows[i]
<1> SUFFICES ASSUME NEW i \in DOMAIN rows, ~new[i].gone, new[i].auto
             PROVE  i \in AutoRows(rows) /\ i \notin Obsolete(me) /\ new[i] = rows[i]
  BY DEF AutoRows, Cleaned
<1>1. CASE i \in Obsolete(me)
  <2>1. new[i] = [rows[i] EXCEPT !.gone = TRUE] /\ rows[i] = [f \in RowFields |-> rows[i][f]]
    BY <1>1 DEF IsRow, Cleaned
  <2>2. new[i].gone
    BY <2>1 DEF RowFields
  <2> QED
    BY <2>2
<1>2. CASE i \notin Obsolete(me)
  BY <1>2 DEF AutoRows, Cleaned
<1> QED
  BY <1>1, <1>2

LEMMA EndsAsWanted ==
  ASSUME NEW me, NEW rows, NEW new, Followed(me, rows), me.todo = {},
         \A i \in DOMAIN rows : IsRow(rows[i]),
         Cleaned(me, rows, new)
  PROVE  /\ \A i \in AutoRows(new) : ~new[i].locked => new[i].key \in me.desired
         /\ \A x \in me.desired \ me.silent : x \in Keys(new)
<1>1. \A i \in AutoRows(new) : i \in AutoRows(rows) /\ i \notin Obsolete(me) /\ new[i] = rows[i]
  BY CleanedRows
<1>2. \A i \in AutoRows(rows) \ Obsolete(me) : i \in AutoRows(new) /\ new[i] = rows[i]
  BY DEF AutoRows, Cleaned
<1>3. ASSUME NEW i \in AutoRows(new), ~new[i].locked PROVE new[i].key \in me.desired
  <2>1. CASE i \in DOMAIN me.read
    <3>1. /\ i \in AutoRows(me.read) /\ me.read[i].key = new[i].key /\ ~me.read[i].locked /\ i \notin Obsolete(me)
      BY <1>1, <1>3, <2>1 DEF Followed, Recalled, AutoRows
    <3> QED
      BY <3>1 DEF Obsolete
  <2>2. CASE i \notin DOMAIN me.read
    <3>1. PICK k \in Done(me) : IsOwn(me, k, new[i])
      BY <1>1, <2>2 DEF Followed
    <3> QED
      BY <3>1 DEF IsOwn, Followed, Recalled, Done
  <2> QED
    BY <2>1, <2>2
<1>4. ASSUME NEW x \in me.desired \ me.silent PROVE x \in Keys(new)
  <2>1. PICK k \in Done(me) : x = KeyOf(me, k)
    BY <1>4 DEF Followed, Recalled, Done
  <2>2. PICK i \in AutoRows(rows) : rows[i].key = x
    BY <1>4, <2>1 DEF Followed, Keys
  <2>3. i \notin Obsolete(me)
    BY <1>4, <2>2 DEF Obsolete, AutoRows, Followed, Recalled
  <2> QED
    BY <1>2, <2>2, <2>3 DEF Keys
<1> QED
  BY <1>3, <1>4

LEMMA EndCarries ==
  ASSUME Base, PlansFollow, NEW p \in Planner, PlanEnd(p)
  PROVE  CarriedOut
<1>1. plan' = [Disturbed(p) EXCEPT ![p] = IdlePlan] /\ plan[p].pc = "placing" /\ plan[p].todo = {}
  BY DEF PlanEnd
<1>2. \A q \in Planner \ {p} : plan'[q].pc = plan[q].pc
  BY <1>1, DisturbedIs
<1>3. \A i \in DOMAIN cues : IsRow(cues[i])
  BY DEF Base, RowsAreWhole
<1>4. cues' = [i \in DOMAIN cues |-> IF i \in Obsolete(plan[p]) THEN [cues[i] EXCEPT !.gone = TRUE] ELSE cues[i]]
  BY DEF PlanEnd
<1>5. SUFFICES ASSUME plan[p].alone
      PROVE  /\ \A i \in AutoRows(cues') : ~cues'[i].locked => cues'[i].key \in plan[p].desired
             /\ \A x \in plan[p].desired \ plan[p].silent : x \in Keys(cues')
  <2>1. \A q \in Planner : (plan[q].pc = "placing" /\ plan'[q].pc = "idle") => q = p
    BY <1>2
  <2>3. Keys(cues') = {cues'[i].key : i \in AutoRows(cues')}
    BY DEF Keys
  <2>2. AutoRows(cues') = {i \in DOMAIN cues' : cues'[i].auto /\ ~cues'[i].gone}
    BY DEF AutoRows
  <2> QED
    BY <2>1, <2>2, <2>3 DEF CarriedOut
<1>6. Followed(plan[p], cues)
  BY <1>1, <1>5 DEF PlansFollow
<1> QED
  <2>1. Cleaned(plan[p], cues, cues')
    BY <1>4, Zenon DEF Cleaned
  <2> QED
    BY <1>1, <1>3, <1>6, <2>1, EndsAsWanted

LEMMA CarriedStep ==
  ASSUME Base, PlansFollow, SoundNext
  PROVE  CarriedOut
<1>0. ASSUME \A p \in Planner : plan[p].pc = "placing" => plan'[p].pc # "idle" PROVE CarriedOut
  BY <1>0 DEF CarriedOut
<1>1. ASSUME NEW p \in Planner, Prepares(p)
      PROVE  plan[p].pc # "placing" /\ \A q \in Planner \ {p} : plan'[q] = plan[q]
  <2>0. plan = [q \in Planner |-> plan[q]]
    BY DEF Base, RowsAreWhole
  <2>1. ASSUME NEW m, PlanBegin(p, m) PROVE plan[p].pc # "placing" /\ \A q \in Planner \ {p} : plan'[q] = plan[q]
    BY <2>0, <2>1 DEF PlanBegin
  <2>2. CASE PlanFill(p)
    BY <2>0, <2>2 DEF PlanFill
  <2>3. CASE PlanRead(p)
    BY <2>0, <2>3 DEF PlanRead
  <2> QED
    BY <1>1, <2>1, <2>2, <2>3 DEF Prepares
<1>2. ASSUME NEW p \in Planner, Prepares(p) PROVE CarriedOut
  BY <1>0, <1>1, <1>2
<1>3. ASSUME NEW p \in Planner, Places(p) \/ Writes(p) PROVE CarriedOut
  BY <1>0, <1>3, PlaceSame DEF Places, Writes
<1>4. ASSUME UNCHANGED plan PROVE CarriedOut
  BY <1>0, <1>4
<1>5. ASSUME NEW p \in Planner, Ends(p) PROVE CarriedOut
  BY <1>5, EndCarries DEF Ends
<1>6. ASSUME NEW p \in Planner, Fails(p) PROVE CarriedOut
  <2>1. /\ cues[plan[p].write[1].id].gone /\ plan' = [plan EXCEPT ![p] = IdlePlan]
        /\ plan[p].pc = "placing" /\ plan[p].write # <<>>
    BY <1>6, Zenon DEF Fails, Failed
  <2>2. \A q \in Planner \ {p} : plan'[q] = plan[q]
    BY <2>1 DEF Base, RowsAreWhole
  <2>3. ~plan[p].alone
    BY <2>1 DEF PlansFollow, Followed, Recalled, Recollects, AutoRows
  <2> QED
    BY <2>2, <2>3 DEF CarriedOut
<1> QED
  BY <1>2, <1>3, <1>4, <1>5, <1>6, SoundCases DEF Aside, ByHand

\* A plan that no other plan disturbed leaves the cues it wanted, whatever the
\* user, the extraction and the mixer do in the meantime (_materialize).
THEOREM PlansCarriedOut == SoundSpec => PlanIsCarriedOut
<1>1. SoundInit => PlansFollow
  BY DEF SoundInit, IdlePlan, PlansFollow
<1>2. Base /\ PlansFollow /\ [SoundNext]_soundVars => PlansFollow'
  BY FollowStep DEF PlansFollow, soundVars
<1>3. Base /\ PlansFollow /\ [SoundNext]_soundVars => [CarriedOut]_soundVars
  BY CarriedStep
<1>4. CarriedOut <=>
      \A p \in Planner :
       (plan[p].pc = "placing" /\ plan'[p].pc = "idle" /\ plan[p].alone) =>
         LET live == {i \in DOMAIN cues' : cues'[i].auto /\ ~cues'[i].gone}
         IN /\ {cues'[i].key : i \in {k \in live : ~cues'[k].locked}} \subseteq plan[p].desired
            /\ plan[p].desired \ plan[p].silent \subseteq {cues'[i].key : i \in live}
  BY Zenon DEF CarriedOut
<1> QED
  BY <1>1, <1>2, <1>3, <1>4, BaseHolds, PTL DEF SoundSpec, PlanIsCarriedOut

-----------------------------------------------------------------------------
(* One cue a key, and one bed or piece of music a scene *)

\* What a plan's key says of its cue.
LEMMA KeyParts ==
  ASSUME NEW mode, NEW c
  PROVE  PlanKey(mode, c)[2] = c.rule /\ PlanKey(mode, c)[3] = c.scene
<1>1. PICK tail : tail = IF c.kind = "sfx" THEN <<c.segment, c.start, c.said>> ELSE <<>>
  OBVIOUS
<1>2. PlanKey(mode, c) = <<mode, c.rule, c.scene, c.tags>> \o tail
  BY <1>1 DEF PlanKey
<1>3. PICK S : {mode, c.rule, c.scene, c.tags, c.segment, c.start, c.said} \subseteq S
  OBVIOUS
<1>4. tail \in Seq(S) /\ <<mode, c.rule, c.scene, c.tags>> \in Seq(S)
  BY <1>1, <1>3
<1> QED
  BY <1>2, <1>4

\* A planned row's kind and scene are those of its key's cue.
LEMMA WantedIs ==
  ASSUME NEW me, CuesAreLaid(me.want), NEW k \in DOMAIN me.want
  PROVE  me.want[k].kind = KindOf(KeyOf(me, k)[2]) /\ me.want[k].scene = KeyOf(me, k)[3]
<1>1. KeyOf(me, k)[2] = me.want[k].rule /\ KeyOf(me, k)[3] = me.want[k].scene
  BY KeyParts DEF KeyOf
<1> QED
  BY <1>1 DEF CuesAreLaid, KeyOf

\* Two cues of one key are effects, of a profile that names a sound twice.
LEMMA WantsApart ==
  ASSUME NEW me, CuesAreLaid(me.want), NEW all \in BOOLEAN, all => ~NamedTwice(me.mode, me.want),
         NEW k \in DOMAIN me.want, NEW m \in DOMAIN me.want, k # m, all \/ me.want[k].kind # "sfx"
  PROVE  KeyOf(me, k) # KeyOf(me, m)
<1> SUFFICES ASSUME KeyOf(me, k) = KeyOf(me, m) PROVE FALSE
  OBVIOUS
<1>1. CASE all
  BY <1>1 DEF NamedTwice, KeyOf
<1>2. CASE ~all
  <2>1. me.want[k].kind = me.want[m].kind /\ me.want[k].scene = me.want[m].scene
    BY WantedIs
  <2> QED
    BY <1>2, <2>1 DEF CuesAreLaid
<1> QED
  BY <1>1, <1>2

LEMMA EndsQuiet ==
  ASSUME NEW me, NEW rows, NEW new, Followed(me, rows), me.todo = {},
         \A i \in DOMAIN rows : IsRow(rows[i]),
         Cleaned(me, rows, new), CuesAreLaid(me.want), NEW all,
         RowsAreKeyed(rows), OnePerKey(rows, all), RowsAreKeyed(me.read), OnePerScene(me.read)
  PROVE  RowsAreKeyed(new) /\ OnePerKey(new, all) /\ OnePerScene(new)
<1>1. \A i \in AutoRows(new) : i \in AutoRows(rows) /\ i \notin Obsolete(me) /\ new[i] = rows[i]
  BY CleanedRows
<1>2. OnePerKey(new, all)
  BY <1>1 DEF OnePerKey
<1>3. RowsAreKeyed(new)
  <2> SUFFICES ASSUME NEW i \in DOMAIN rows, new[i].auto
               PROVE  new[i].kind = KindOf(new[i].key[2]) /\ new[i].scene = new[i].key[3]
    BY DEF RowsAreKeyed, Cleaned
  <2>1. PICK row : row = [rows[i] EXCEPT !.gone = TRUE]
    OBVIOUS
  <2>2. row.auto = rows[i].auto /\ row.kind = rows[i].kind /\ row.scene = rows[i].scene /\ row.key = rows[i].key
    BY <2>1 DEF IsRow, RowFields
  <2>3. new[i] \in {rows[i], row}
    BY <2>1 DEF Cleaned
  <2> QED
    BY <2>2, <2>3 DEF RowsAreKeyed
\* A row the plan found, or one of its own, says what its cue says.
<1>4. \A i \in AutoRows(rows) \cap DOMAIN me.read :
        /\ i \in AutoRows(me.read) /\ me.read[i].key = rows[i].key
        /\ me.read[i].kind = rows[i].kind /\ me.read[i].scene = rows[i].scene
  BY DEF AutoRows, Followed, Recalled, RowsAreKeyed
<1>5. ASSUME NEW i \in AutoRows(rows), NEW k \in DOMAIN me.want, rows[i].key = KeyOf(me, k)
      PROVE  me.want[k].kind = rows[i].kind /\ me.want[k].scene = rows[i].scene
  BY <1>5, WantedIs DEF AutoRows, RowsAreKeyed
<1>6. ASSUME NEW i \in AutoRows(rows) \ DOMAIN me.read
      PROVE  \E k \in DOMAIN me.want : IsOwn(me, k, rows[i])
  BY <1>6 DEF Followed, Done
<1>7. ASSUME NEW i \in AutoRows(new), NEW j \in AutoRows(new), i # j,
             rows[i].kind # "sfx", rows[i].kind = rows[j].kind, rows[i].scene = rows[j].scene,
             i \in DOMAIN me.read, j \notin DOMAIN me.read
      PROVE  FALSE
  <2>1. PICK k \in DOMAIN me.want : IsOwn(me, k, rows[j])
    BY <1>1, <1>6, <1>7
  <2>2. me.want[k].kind = rows[i].kind /\ me.want[k].scene = rows[i].scene
    BY <1>1, <1>5, <1>7, <2>1 DEF IsOwn
  <2>3. CASE me.read[i].locked
    <3>1. Slot(me.read[i]) = Slot(me.want[k])
      BY <1>1, <1>4, <1>7, <2>2 DEF Slot
    <3> QED
      BY <1>1, <1>4, <1>7, <2>1, <2>3, <3>1 DEF IsOwn, Taken
  <2>4. CASE ~me.read[i].locked
    <3>1. me.read[i].key \in me.desired
      BY <1>1, <1>4, <1>7, <2>4 DEF Obsolete
    <3>2. PICK m \in DOMAIN me.want : me.read[i].key = KeyOf(me, m)
      BY <3>1 DEF Followed, Recalled
    <3>3. me.want[m].kind = rows[i].kind /\ me.want[m].scene = rows[i].scene
      BY <1>1, <1>4, <1>5, <1>7, <3>2
    <3>4. m = k
      BY <1>7, <2>2, <3>3 DEF CuesAreLaid
    <3> QED
      BY <1>1, <1>4, <1>7, <2>1, <3>2, <3>4 DEF IsOwn
  <2> QED
    BY <2>3, <2>4
<1>8. ASSUME NEW i \in AutoRows(new), NEW j \in AutoRows(new), i # j,
             rows[i].kind # "sfx", rows[i].kind = rows[j].kind, rows[i].scene = rows[j].scene,
             i \notin DOMAIN me.read, j \notin DOMAIN me.read
      PROVE  FALSE
  <2>1. PICK k \in DOMAIN me.want : IsOwn(me, k, rows[i])
    BY <1>1, <1>6, <1>8
  <2>2. PICK m \in DOMAIN me.want : IsOwn(me, m, rows[j])
    BY <1>1, <1>6, <1>8
  <2>3. /\ me.want[k].kind = rows[i].kind /\ me.want[k].scene = rows[i].scene
        /\ me.want[m].kind = rows[j].kind /\ me.want[m].scene = rows[j].scene
    BY <1>1, <1>5, <2>1, <2>2 DEF IsOwn
  <2>4. k = m
    BY <1>8, <2>3 DEF CuesAreLaid
  <2>5. rows[i].key = rows[j].key
    BY <2>1, <2>2, <2>4 DEF IsOwn
  <2> QED
    BY <1>1, <1>8, <2>5 DEF OnePerKey
<1>9. ASSUME NEW i \in AutoRows(new), NEW j \in AutoRows(new), i # j,
             rows[i].kind # "sfx", rows[i].kind = rows[j].kind, rows[i].scene = rows[j].scene,
             i \in DOMAIN me.read, j \in DOMAIN me.read
      PROVE  FALSE
  BY <1>1, <1>4, <1>9 DEF OnePerScene
<1>10. OnePerScene(new)
  <2> SUFFICES ASSUME NEW i \in AutoRows(new), NEW j \in AutoRows(new), i # j,
                      new[i].kind # "sfx", new[i].kind = new[j].kind, new[i].scene = new[j].scene
               PROVE  FALSE
    BY DEF OnePerScene
  <2>1. /\ rows[i].kind # "sfx" /\ rows[i].kind = rows[j].kind /\ rows[i].scene = rows[j].scene
        /\ rows[j].kind # "sfx"
    BY <1>1
  <2> QED
    BY <1>7, <1>8, <1>9, <2>1
<1> QED
  BY <1>2, <1>3, <1>10

\* Rows that differ in nothing their keys say.
LEMMA SameQuiet ==
  ASSUME NEW rows, NEW new, NEW all,
         \A j \in DOMAIN new :
           /\ j \in DOMAIN rows /\ new[j].key = rows[j].key /\ new[j].auto = rows[j].auto
           /\ new[j].gone = rows[j].gone /\ new[j].kind = rows[j].kind /\ new[j].scene = rows[j].scene,
         RowsAreKeyed(rows), OnePerKey(rows, all)
  PROVE  RowsAreKeyed(new) /\ OnePerKey(new, all) /\ (OnePerScene(rows) => OnePerScene(new))
<1>1. RowsAreKeyed(new)
  BY DEF RowsAreKeyed
<1>2. \A j \in AutoRows(new) : j \in AutoRows(rows) /\ j \in DOMAIN new
  BY DEF AutoRows
<1>3. OnePerKey(new, all)
  BY <1>2 DEF OnePerKey
<1>4. OnePerScene(rows) => OnePerScene(new)
  BY <1>2 DEF OnePerScene
<1> QED
  BY <1>1, <1>3, <1>4

LEMMA AddedQuiet ==
  ASSUME NEW rows, rows \in Seq(ToSet(rows)), NEW row, NEW new, new = Append(rows, row), NEW all,
         row.auto => /\ row.kind = KindOf(row.key[2]) /\ row.scene = row.key[3]
                     /\ \A j \in AutoRows(rows) : (all \/ row.kind # "sfx") => rows[j].key # row.key,
         RowsAreKeyed(rows), OnePerKey(rows, all)
  PROVE  RowsAreKeyed(new) /\ OnePerKey(new, all)
<1>1. /\ DOMAIN new = DOMAIN rows \cup {Len(rows) + 1} /\ Len(rows) + 1 \notin DOMAIN rows
      /\ new[Len(rows) + 1] = row /\ \A i \in DOMAIN rows : new[i] = rows[i]
  BY Appended
<1>2. RowsAreKeyed(new)
  BY <1>1 DEF RowsAreKeyed
<1>3. \A j \in AutoRows(new) \cap DOMAIN rows : j \in AutoRows(rows) /\ new[j] = rows[j]
  BY <1>1 DEF AutoRows
<1>4. \A j \in AutoRows(new) \ DOMAIN rows : j = Len(rows) + 1 /\ new[j] = row /\ row.auto
  BY <1>1 DEF AutoRows
<1>6. ASSUME NEW i \in AutoRows(rows), row.auto, rows[i].key = row.key PROVE rows[i].kind = row.kind
  BY <1>6 DEF RowsAreKeyed, AutoRows
<1>5. ASSUME NEW i \in AutoRows(new), NEW j \in AutoRows(new), i # j, all \/ new[i].kind # "sfx"
      PROVE  new[i].key # new[j].key
  <2>1. CASE i \in DOMAIN rows /\ j \in DOMAIN rows
    BY <1>3, <1>5, <2>1 DEF OnePerKey
  <2>2. CASE i \notin DOMAIN rows
    BY <1>3, <1>4, <1>5, <2>2
  <2>3. CASE j \notin DOMAIN rows
    BY <1>3, <1>4, <1>5, <1>6, <2>3
  <2> QED
    BY <2>1, <2>2, <2>3
<1> QED
  BY <1>2, <1>5 DEF OnePerKey

LEMMA HeardPlace ==
  ASSUME Base, PlansFollow, PlansAreSound, Quiet, NEW p \in Planner, NEW n \in plan[p].todo,
         plan[p].pc = "placing", Skipped(p, n) \/ Kept(p, n) \/ Made(p, n), UNCHANGED twice
  PROVE  Quiet'
<1>1. /\ \A q \in Planner : plan'[q].pc = plan[q].pc /\ (q # p => plan[q].pc = "idle")
      /\ plan'[p].read = plan[p].read /\ plan'[p].alone = plan[p].alone
  BY PlaceSame DEF Quiet
<1>2. /\ Followed(plan[p], cues) /\ CuesAreLaid(plan[p].want)
      /\ ~twice => ~NamedTwice(plan[p].mode, plan[p].want)
  BY DEF Quiet, PlansFollow, PlansAreSound
<1>3. n \in DOMAIN plan[p].want /\ n \notin Done(plan[p])
  BY <1>2 DEF Followed, Recalled, Done
<1>4. cues \in Seq(ToSet(cues)) /\ RowsAreKeyed(cues) /\ OnePerKey(cues, ~twice)
  BY DEF Base, RowsAreWhole, Quiet
<1>6. RowsAreKeyed(cues') /\ OnePerKey(cues', ~twice)
  <2>1. CASE Skipped(p, n) \/ Kept(p, n)
    BY <1>4, <2>1 DEF Skipped, Kept
  <2>3. CASE Made(p, n)
    <3>1. PICK asset : cues' = Append(cues, Row(plan[p].want[n], plan[p].mode, asset, "planner"))
      BY <2>3 DEF Made
    <3>2. PICK row : row = Row(plan[p].want[n], plan[p].mode, asset, "planner")
      OBVIOUS
    <3>3. /\ row.key = KeyOf(plan[p], n) /\ row.kind = plan[p].want[n].kind
          /\ row.kind = KindOf(row.key[2]) /\ row.scene = row.key[3]
      <4>1. row.key = KeyOf(plan[p], n) /\ row.kind = plan[p].want[n].kind /\ row.scene = plan[p].want[n].scene
        BY <3>2 DEF Row, KeyOf
      <4> QED
        BY <1>2, <1>3, <4>1, WantedIs
    <3>4. ASSUME NEW j \in AutoRows(cues), ~twice \/ row.kind # "sfx" PROVE cues[j].key # KeyOf(plan[p], n)
      <4>1. CASE j \in DOMAIN plan[p].read
        BY <1>2, <2>3, <4>1 DEF Made, Followed, Recalled, AutoRows
      <4>2. CASE j \notin DOMAIN plan[p].read
        <5>1. PICK k \in Done(plan[p]) : cues[j].key = KeyOf(plan[p], k)
          BY <1>2, <4>2 DEF Followed, IsOwn
        <5>2. k \in DOMAIN plan[p].want /\ k # n
          BY <1>3, <5>1 DEF Done
        <5>3. PICK all \in BOOLEAN : all = ~twice
          OBVIOUS
        <5>4. (all => ~NamedTwice(plan[p].mode, plan[p].want)) /\ (all \/ plan[p].want[n].kind # "sfx")
          BY <1>2, <3>3, <3>4, <5>3
        <5>5. KeyOf(plan[p], n) # KeyOf(plan[p], k)
          BY <1>2, <1>3, <5>2, <5>4, WantsApart
        <5> QED
          BY <5>1, <5>5
      <4> QED
        BY <4>1, <4>2
    <3>5. cues' = Append(cues, row) /\ \A j \in AutoRows(cues) : (~twice \/ row.kind # "sfx") => cues[j].key # row.key
      BY <3>1, <3>2, <3>3, <3>4
    <3> QED
      BY <1>4, <3>3, <3>5, AddedQuiet
  <2> QED
    BY <2>1, <2>3
<1> QED
  BY <1>1, <1>6 DEF Quiet

\* An update changes nothing a row's key says.
LEMMA HeardWrite ==
  ASSUME Base, PlansFollow, PlansAreSound, Quiet, NEW p \in Planner, Wrote(p), plan[p].pc = "placing", UNCHANGED twice
  PROVE  Quiet'
<1>0. \A i \in DOMAIN cues : IsRow(cues[i])
  BY DEF Base, RowsAreWhole
<1>1. /\ \A q \in Planner : plan'[q].pc = plan[q].pc /\ (q # p => plan[q].pc = "idle")
      /\ plan'[p].read = plan[p].read /\ plan'[p].alone = plan[p].alone
  BY PlaceSame DEF Quiet
<1>2. /\ Followed(plan[p], cues) /\ CuesAreLaid(plan[p].want) /\ Recollects(plan[p]) /\ Recalled(plan[p], cues)
  BY DEF Quiet, PlansFollow, PlansAreSound, Followed, Recalled, Wrote
<1>3. PICK w : w = plan[p].write[1] /\ IsWrite(w)
  BY DEF Wrote, Base, RowsAreWhole, Writing
<1>4. PICK k, asset :
        /\ k \in DOMAIN plan[p].want /\ KeyOf(plan[p], k) = plan[p].read[w.id].key
        /\ w.row = Row(plan[p].want[k], plan[p].mode, asset, "planner")
  BY <1>2, <1>3 DEF Recollects
<1>5. w.row.key = KeyOf(plan[p], k) /\ w.row.kind = plan[p].want[k].kind
  BY <1>4 DEF Row, KeyOf
<1>6. w.id \in AutoRows(plan[p].read) /\ w.seen.key = plan[p].read[w.id].key
  BY <1>2, <1>3 DEF Recollects
<1>7. w.id \in DOMAIN cues /\ cues[w.id].auto /\ cues[w.id].key = plan[p].read[w.id].key
  BY <1>2, <1>6 DEF Recalled, AutoRows
<1>8. w.row.kind = cues[w.id].kind
  <2>1. w.row.kind = KindOf(KeyOf(plan[p], k)[2])
    BY <1>2, <1>4, <1>5, WantedIs
  <2>2. cues[w.id].kind = KindOf(cues[w.id].key[2])
    BY <1>7 DEF Quiet, RowsAreKeyed
  <2> QED
    BY <1>4, <1>7, <2>1, <2>2
<1>9. PICK row : row = Merged(cues[w.id], w.seen, w.row, Applied)
  OBVIOUS
<1>10. IsMerged(cues[w.id], w, row)
  BY <1>0, <1>3, <1>7, <1>9, MergedIs
<1>11. /\ row.key = cues[w.id].key /\ row.auto = cues[w.id].auto /\ row.gone = cues[w.id].gone
       /\ row.kind = cues[w.id].kind /\ row.scene = cues[w.id].scene
  BY <1>4, <1>5, <1>6, <1>8, <1>10 DEF IsMerged
<1>12. cues' = [cues EXCEPT ![w.id] = row]
  BY <1>3, <1>9 DEF Wrote, Written
<1>13. RowsAreKeyed(cues') /\ OnePerKey(cues', ~twice)
  <2>1. \A j \in DOMAIN cues' :
          /\ j \in DOMAIN cues /\ cues'[j].key = cues[j].key /\ cues'[j].auto = cues[j].auto
          /\ cues'[j].gone = cues[j].gone /\ cues'[j].kind = cues[j].kind /\ cues'[j].scene = cues[j].scene
    BY <1>11, <1>12
  <2>2. RowsAreKeyed(cues) /\ OnePerKey(cues, ~twice)
    BY DEF Quiet
  <2> QED
    BY <2>1, <2>2, SameQuiet
<1> QED
  BY <1>1, <1>13 DEF Quiet

LEMMA HeardEnd ==
  ASSUME Base, PlansFollow, PlansAreSound, Quiet, NEW p \in Planner, PlanEnd(p), UNCHANGED twice
  PROVE  Quiet'
<1>1. plan[p].pc = "placing" /\ plan[p].todo = {} /\ plan' = [Disturbed(p) EXCEPT ![p] = IdlePlan]
  BY DEF PlanEnd
<1>2. \A q \in Planner : plan'[q].pc = "idle"
  <2>1. plan'[p] = IdlePlan /\ \A q \in Planner \ {p} : plan'[q] = Disturbed(p)[q]
    BY <1>1, DisturbedIs
  <2>2. ASSUME NEW q \in Planner \ {p} PROVE plan'[q].pc = "idle"
    <3>1. Disturbed(p)[q].pc = plan[q].pc /\ plan[q].pc = "idle"
      <4>1. plan[q].pc = "idle"
        BY <1>1 DEF Quiet
      <4> QED
        BY <4>1, DisturbedIs
    <3> QED
      BY <2>1, <3>1
  <2> QED
    BY <2>1, <2>2 DEF IdlePlan
<1>3. Cleaned(plan[p], cues, cues')
  BY Zenon DEF PlanEnd, Cleaned
<1>4. Followed(plan[p], cues) /\ CuesAreLaid(plan[p].want) /\ RowsAreKeyed(plan[p].read) /\ OnePerScene(plan[p].read)
  BY <1>1 DEF Quiet, PlansFollow, PlansAreSound
<1>5. \A j \in DOMAIN cues : IsRow(cues[j])
  BY DEF Base, RowsAreWhole
<1>6. RowsAreKeyed(cues') /\ OnePerKey(cues', ~twice) /\ OnePerScene(cues')
  BY <1>1, <1>3, <1>4, <1>5, EndsQuiet DEF Quiet
<1> QED
  BY <1>2, <1>6 DEF Quiet

\* The rows are what they were, but for one the user has muted or added.
LEMMA HeardTouch ==
  ASSUME Base, Quiet, UNCHANGED twice,
         (\E i : \E b \in BOOLEAN : MuteCue(i, b)) \/ \E s, kind : CreateCue(s, kind)
  PROVE  Quiet'
<1>0. cues \in Seq(ToSet(cues)) /\ \A j \in DOMAIN cues : IsRow(cues[j])
  BY DEF Base, RowsAreWhole
<1>1. UNCHANGED plan
  <2>1. ASSUME NEW i, NEW b, MuteCue(i, b) PROVE UNCHANGED plan
    BY <2>1 DEF MuteCue
  <2>2. ASSUME NEW s, NEW kind, CreateCue(s, kind) PROVE UNCHANGED plan
    BY <2>2 DEF CreateCue
  <2> QED
    BY <2>1, <2>2
<1>2. /\ RowsAreKeyed(cues') /\ OnePerKey(cues', ~twice)
      /\ OnePerScene(cues) => OnePerScene(cues')
  <2>1. ASSUME NEW i, NEW b \in BOOLEAN, MuteCue(i, b)
        PROVE  \A j \in DOMAIN cues' :
                 /\ j \in DOMAIN cues /\ cues'[j].key = cues[j].key /\ cues'[j].auto = cues[j].auto
                 /\ cues'[j].gone = cues[j].gone /\ cues'[j].kind = cues[j].kind /\ cues'[j].scene = cues[j].scene
    <3>1. PICK row : row = [[cues[i] EXCEPT !.muted = b] EXCEPT !.locked = @ \/ cues[i].auto]
      OBVIOUS
    <3>2. cues' = [cues EXCEPT ![i] = row] /\ i \in DOMAIN cues
      BY <2>1, <3>1 DEF MuteCue
    <3>3. /\ row.key = cues[i].key /\ row.auto = cues[i].auto /\ row.gone = cues[i].gone
          /\ row.kind = cues[i].kind /\ row.scene = cues[i].scene
      BY <1>0, <3>1, <3>2 DEF IsRow, RowFields
    <3> QED
      BY <3>2, <3>3
  <2>2. ASSUME \A j \in DOMAIN cues' :
                 /\ j \in DOMAIN cues /\ cues'[j].key = cues[j].key /\ cues'[j].auto = cues[j].auto
                 /\ cues'[j].gone = cues[j].gone /\ cues'[j].kind = cues[j].kind /\ cues'[j].scene = cues[j].scene
        PROVE  RowsAreKeyed(cues') /\ OnePerKey(cues', ~twice) /\ (OnePerScene(cues) => OnePerScene(cues'))
    BY <2>2, SameQuiet DEF Quiet
  <2>3. ASSUME NEW s, NEW kind, CreateCue(s, kind)
        PROVE  RowsAreKeyed(cues') /\ OnePerKey(cues', ~twice) /\ (OnePerScene(cues) => OnePerScene(cues'))
    <3>1. PICK row : cues' = Append(cues, row) /\ ~row.auto
      <4>1. PICK c, asset : cues' = Append(cues, Row(c, "light", asset, "user"))
        BY <2>3 DEF CreateCue
      <4>2. ~Row(c, "light", asset, "user").auto
        BY DEF Row
      <4> QED
        BY <4>1, <4>2
    <3>2. RowsAreKeyed(cues') /\ OnePerKey(cues', ~twice)
      BY <1>0, <3>1, AddedQuiet DEF Quiet
    <3>3. \A j \in AutoRows(cues') : j \in AutoRows(cues) /\ cues'[j] = cues[j]
      BY <1>0, <3>1, Appended DEF AutoRows
    <3> QED
      BY <3>2, <3>3 DEF OnePerScene
  <2> QED
    BY <2>1, <2>2, <2>3
<1> QED
  BY <1>1, <1>2 DEF Quiet

LEMMA HeardPlan ==
  ASSUME Base, Heard, ~met', NEW p \in Planner,
         \/ \E m \in Mode : PlanBegin(p, m)
         \/ PlanFill(p) \/ PlanRead(p)
  PROVE  Quiet'
<1>0. plan = [q \in Planner |-> plan[q]] /\ \A q \in Planner : DOMAIN plan[q] = DOMAIN IdlePlan
  BY DEF Base, RowsAreWhole
<1>1. CASE \E m \in Mode : PlanBegin(p, m)
  <2>1. PICK m \in Mode : PlanBegin(p, m)
    BY <1>1
  <2>2. PICK now \in {"reading", "filling"} :
          plan' = [plan EXCEPT ![p].pc = now, ![p].mode = m, ![p].fill = MissingOf(Scene)]
    BY <2>1 DEF PlanBegin
  <2>3. plan[p].pc = "idle" /\ met' = (met \/ \E q \in Planner \ {p} : plan[q].pc # "idle") /\ UNCHANGED <<cues, twice>>
    BY <2>1 DEF PlanBegin
  <2>4. Quiet /\ \A q \in Planner : plan[q].pc = "idle"
    BY <2>3 DEF Heard
  <2>5. plan'[p].pc \in {"reading", "filling"} /\ \A q \in Planner \ {p} : plan'[q] = plan[q]
    BY <1>0, <2>2 DEF IdlePlan
  <2> QED
    BY <2>3, <2>4, <2>5 DEF Quiet
<1>2. CASE PlanFill(p)
  <2>1. plan' = [plan EXCEPT ![p].pc = "reading"] /\ plan[p].pc = "filling" /\ UNCHANGED <<cues, met, twice>>
    BY <1>2 DEF PlanFill
  <2>2. plan'[p].pc = "reading" /\ \A q \in Planner \ {p} : plan'[q] = plan[q]
    BY <1>0, <2>1 DEF IdlePlan
  <2> QED
    BY <2>1, <2>2 DEF Quiet, Heard
<1>3. CASE PlanRead(p)
  <2>1. PICK want, todo, desired :
          plan' \in {[plan EXCEPT ![p] = IdlePlan],
                     [plan EXCEPT ![p].pc = "placing", ![p].want = want, ![p].todo = todo, ![p].desired = desired,
                                  ![p].read = cues, ![p].silent = {},
                                  ![p].alone = ~\E q \in Planner \ {p} : plan[q].pc = "placing"]}
    BY <1>3 DEF PlanRead
  <2>2. UNCHANGED <<cues, met>> /\ plan[p].pc = "reading" /\ (twice => twice')
    BY <1>3 DEF PlanRead
  <2>3. Quiet /\ \A q \in Planner \ {p} : plan[q].pc = "idle"
    BY <2>2 DEF Heard, Quiet
  <2>7. OnePerKey(cues, ~twice)' /\ RowsAreKeyed(cues)
    <3>1. OnePerKey(cues, ~twice')
      BY <2>2, <2>3 DEF Quiet, OnePerKey
    <3> QED
      BY <2>2, <2>3, <3>1 DEF Quiet
  <2>4. OnePerScene(cues)
    BY <2>2, <2>3 DEF Quiet
  <2>5. CASE plan' = [plan EXCEPT ![p] = IdlePlan]
    <3>1. plan'[p] = IdlePlan /\ \A q \in Planner \ {p} : plan'[q] = plan[q]
      BY <1>0, <2>5
    <3> QED
      BY <2>2, <2>3, <2>4, <2>7, <3>1 DEF Quiet, IdlePlan
  <2>6. CASE plan' # [plan EXCEPT ![p] = IdlePlan]
    <3>1. plan'[p] = [plan[p] EXCEPT !.pc = "placing", !.want = want, !.todo = todo, !.desired = desired,
                                     !.read = cues, !.silent = {},
                                     !.alone = ~\E q \in Planner \ {p} : plan[q].pc = "placing"]
          /\ \A q \in Planner \ {p} : plan'[q] = plan[q]
      BY <1>0, <2>1, <2>6
    <3>2. plan'[p].pc = "placing" /\ plan'[p].read = cues
          /\ plan'[p].alone = ~\E q \in Planner \ {p} : plan[q].pc = "placing"
      BY <1>0, <3>1 DEF IdlePlan
    <3>3. plan'[p].alone
      BY <2>3, <3>2
    <3>4. RowsAreKeyed(cues) /\ OnePerKey(cues, ~twice)'
      BY <2>7
    <3>5. \A q \in Planner \ {p} : plan'[q].pc = "idle"
      BY <2>3, <3>1
    <3>6. \A q \in Planner : plan'[q].pc = "placing" =>
             plan'[q].alone /\ RowsAreKeyed(plan'[q].read) /\ OnePerScene(plan'[q].read)
      BY <2>4, <3>2, <3>3, <3>4, <3>5
    <3>7. \A q, r \in Planner : (plan'[q].pc # "idle" /\ plan'[r].pc # "idle") => q = r
      BY <3>5
    <3> QED
      BY <2>2, <2>4, <3>4, <3>6, <3>7 DEF Quiet
  <2> QED
    BY <2>5, <2>6
<1> QED
  BY <1>1, <1>2, <1>3

LEMMA HeardStep ==
  ASSUME Base, PlansFollow, PlansAreSound, Heard, SoundNext
  PROVE  Heard'
<1> SUFFICES ASSUME ~met' PROVE Quiet'
  BY DEF Heard
<1>1. CASE Aside
  BY <1>1 DEF Aside, Heard, Quiet
<1>2. CASE ByHand
  BY <1>2, HeardTouch DEF ByHand, Heard
<1>3. ASSUME NEW p \in Planner, Prepares(p) PROVE Quiet'
  BY <1>3, HeardPlan DEF Prepares
<1>4. ASSUME NEW p \in Planner, Places(p) PROVE Quiet'
  BY <1>4, HeardPlace DEF Places, Heard
<1>5. ASSUME NEW p \in Planner, Ends(p) PROVE Quiet'
  BY <1>5, HeardEnd DEF Ends, Heard
<1>6. ASSUME NEW p \in Planner, Writes(p) PROVE Quiet'
  BY <1>6, HeardWrite DEF Writes, Heard
<1>7. ASSUME NEW p \in Planner, Fails(p) PROVE FALSE
  <2>1. cues[plan[p].write[1].id].gone /\ plan[p].pc = "placing" /\ plan[p].write # <<>> /\ UNCHANGED met
    BY <1>7, Zenon DEF Fails, Failed
  <2>2. Followed(plan[p], cues)
    BY <2>1 DEF Heard, Quiet, PlansFollow
  <2> QED
    BY <2>1, <2>2 DEF Followed, Recalled, Recollects, AutoRows
<1> QED
  BY <1>1, <1>2, <1>3, <1>4, <1>5, <1>6, <1>7, SoundCases

\* What a plan of the chapter, as it is at the moment, would come to.
FoundAreLaid == \A m \in Mode : CuesAreLaid(PlanOf(m).cues)
\* A plan is of a mode that was asked for, and of cues that can be told apart.
IsServed(me) ==
  /\ me.pc # "idle" => me.mode \in Mode
  /\ me.pc = "placing" => CuesAreLaid(me.want) /\ (~twice => ~NamedTwice(me.mode, me.want))
Served == \A p \in Planner : IsServed(plan[p])

LEMMA ServedPlan ==
  ASSUME Base, Served, FoundAreLaid, NEW p \in Planner, Prepares(p)
  PROVE  Served'
<1>0. plan = [q \in Planner |-> plan[q]] /\ \A q \in Planner : DOMAIN plan[q] = DOMAIN IdlePlan
  BY DEF Base, RowsAreWhole
<1>1. ASSUME NEW m \in Mode, PlanBegin(p, m) PROVE Served'
  <2>1. PICK now \in {"reading", "filling"} :
          plan' = [plan EXCEPT ![p].pc = now, ![p].mode = m, ![p].fill = MissingOf(Scene)]
    BY <1>1 DEF PlanBegin
  <2>2. plan'[p].pc = now /\ plan'[p].mode = m /\ \A q \in Planner \ {p} : plan'[q] = plan[q]
    BY <1>0, <2>1 DEF IdlePlan
  <2>3. UNCHANGED twice
    BY <1>1 DEF PlanBegin
  <2> QED
    BY <2>1, <2>2, <2>3 DEF Served, IsServed
<1>2. CASE PlanFill(p)
  <2>1. plan' = [plan EXCEPT ![p].pc = "reading"] /\ plan[p].pc = "filling" /\ UNCHANGED twice
    BY <1>2 DEF PlanFill
  <2>2. plan'[p].pc = "reading" /\ plan'[p].mode = plan[p].mode /\ \A q \in Planner \ {p} : plan'[q] = plan[q]
    BY <1>0, <2>1 DEF IdlePlan
  <2> QED
    BY <2>1, <2>2 DEF Served, IsServed
<1>3. CASE PlanRead(p)
  <2>1. PICK want : want = PlanOf(plan[p].mode).cues
    OBVIOUS
  <2>2. PICK todo, desired, alone :
          plan' \in {[plan EXCEPT ![p] = IdlePlan],
                     [plan EXCEPT ![p].pc = "placing", ![p].want = want, ![p].todo = todo, ![p].desired = desired,
                                  ![p].read = cues, ![p].silent = {}, ![p].alone = alone]}
    BY <1>3, <2>1 DEF PlanRead
  <2>3. \/ plan'[p] = IdlePlan
        \/ plan'[p].pc = "placing" /\ plan'[p].mode = plan[p].mode /\ plan'[p].want = want
    <3>1. CASE plan' = [plan EXCEPT ![p] = IdlePlan]
      BY <1>0, <3>1
    <3>2. CASE plan' # [plan EXCEPT ![p] = IdlePlan]
      <4>1. plan'[p] = [plan[p] EXCEPT !.pc = "placing", !.want = want, !.todo = todo, !.desired = desired,
                                       !.read = cues, !.silent = {}, !.alone = alone]
        BY <1>0, <2>2, <3>2
      <4> QED
        BY <1>0, <4>1 DEF IdlePlan
    <3> QED
      BY <3>1, <3>2
  <2>4. \A q \in Planner \ {p} : plan'[q] = plan[q]
    BY <1>0, <2>2
  <2>5. CuesAreLaid(want) /\ plan[p].mode \in Mode
    <3>1. plan[p].mode \in Mode
      BY <1>3 DEF PlanRead, Served, IsServed
    <3> QED
      BY <2>1, <3>1 DEF FoundAreLaid
  <2>7. twice' = (twice \/ NamedTwice(plan[p].mode, want))
    BY <1>3, <2>1 DEF PlanRead
  <2>6. IdlePlan.pc = "idle"
    BY DEF IdlePlan
  <2> QED
    BY <2>3, <2>4, <2>5, <2>6, <2>7 DEF Served, IsServed
<1> QED
  BY <1>1, <1>2, <1>3 DEF Prepares

LEMMA ServedStep ==
  ASSUME Base, Served, FoundAreLaid, SoundNext
  PROVE  Served'
<1>1. CASE UNCHANGED <<plan, twice>>
  BY <1>1 DEF Served, IsServed
<1>2. ASSUME NEW p \in Planner, Places(p) \/ Writes(p) PROVE Served'
  <2>1. \A q \in Planner : plan'[q].pc = plan[q].pc /\ plan'[q].mode = plan[q].mode /\ plan'[q].want = plan[q].want
    BY <1>2, PlaceSame DEF Places, Writes
  <2>2. UNCHANGED twice
    BY <1>2 DEF Places, Writes
  <2> QED
    BY <2>1, <2>2 DEF Served, IsServed
<1>4. ASSUME NEW p \in Planner, Fails(p) PROVE Served'
  <2>1. plan' = [plan EXCEPT ![p] = IdlePlan] /\ UNCHANGED twice
    BY <1>4, Zenon DEF Fails, Failed
  <2>2. plan'[p].pc = "idle" /\ \A q \in Planner \ {p} : plan'[q] = plan[q]
    BY <2>1 DEF Base, RowsAreWhole, IdlePlan
  <2> QED
    BY <2>1, <2>2 DEF Served, IsServed
<1>3. ASSUME NEW p \in Planner, Ends(p) PROVE Served'
  <2>1. plan'[p].pc = "idle" /\ UNCHANGED twice /\ \A q \in Planner \ {p} : plan'[q] = Disturbed(p)[q]
    BY <1>3, DisturbedIs DEF Ends, PlanEnd, IdlePlan
  <2>2. ASSUME NEW q \in Planner \ {p}
        PROVE  plan'[q].pc = plan[q].pc /\ plan'[q].mode = plan[q].mode /\ plan'[q].want = plan[q].want
    <3>1. Disturbed(p)[q].pc = plan[q].pc /\ Disturbed(p)[q].mode = plan[q].mode /\ Disturbed(p)[q].want = plan[q].want
      BY DisturbedIs
    <3> QED
      BY <2>1, <3>1
  <2> QED
    BY <2>1, <2>2 DEF Served, IsServed
<1> QED
  BY <1>1, <1>2, <1>3, <1>4, ServedPlan, SoundCases DEF Aside, ByHand

\* As long as plans have not overlapped, a bed or music cue the user has muted
\* is not replaced by another in its scene, and no planned cue exists twice
\* unless a profile named a sound twice; provided that no plan of the chapter
\* has two beds, or two pieces of music, in one scene, which LayoutIsSound checks
\* of plan_chapter_sound (locked_slots and by_key in _materialize).
THEOREM SilenceKept == SoundSpec /\ []FoundAreLaid => []SilenceIsKept
<1>1. SoundInit => PlansFollow /\ Served /\ Heard
  BY DEF SoundInit, IdlePlan, PlansFollow, Served, IsServed, Heard, Quiet, RowsAreKeyed, OnePerKey, OnePerScene, AutoRows
<1>2. Base /\ PlansFollow /\ Served /\ FoundAreLaid /\ Heard /\ [SoundNext]_soundVars
        => PlansFollow' /\ Served' /\ Heard'
  <2>1. UNCHANGED soundVars /\ PlansFollow /\ Served /\ Heard => PlansFollow' /\ Served' /\ Heard'
    BY DEF PlansFollow, soundVars, Served, IsServed, Heard, Quiet
  <2>2. Served => PlansAreSound
    BY DEF Served, IsServed, PlansAreSound
  <2> QED
    BY <2>1, <2>2, FollowStep, ServedStep, HeardStep
<1>3. Base /\ Heard => SilenceIsKept
  <2> SUFFICES ASSUME Base, Heard PROVE SilenceIsKept
    OBVIOUS
  <2>1. SoundTypeOK
    BY DEF Base
  <2>2. (~met /\ ~twice) => \A i, j \in Live : i # j => cues[i].key # cues[j].key
    BY DEF Heard, Quiet, OnePerKey, Live
  <2>3. ASSUME ~met, Resting, NEW i \in Live, NEW j \in Live, cues[i].locked, i # j, cues[i].kind # "sfx",
               cues[i].kind = cues[j].kind
        PROVE  cues[i].scene # cues[j].scene
    <3>1. OnePerScene(cues)
      BY <2>3 DEF Heard, Quiet, Resting
    <3> QED
      BY <2>3, <3>1 DEF OnePerScene, Live
  <2> QED
    BY <2>1, <2>2, <2>3 DEF SilenceIsKept
<1> QED
  BY <1>1, <1>2, <1>3, BaseHolds, PTL DEF SoundSpec
=============================================================================
