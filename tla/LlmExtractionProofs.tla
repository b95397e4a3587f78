------------------------- MODULE LlmExtractionProofs -------------------------
(***************************************************************************)
(* Checkpoints, the inference cache and refined scenes of LlmExtraction,   *)
(* for any jobs, batches, answers, pool sizes, faults and crashes.         *)
(***************************************************************************)
EXTENDS LlmExtraction, SequenceTheorems, TLAPS

\* Only the variables the argument is about.
Types ==
  /\ pc \in [Unit -> Stage]
  /\ got \in [Unit -> Answer \cup {NoAnswer}]
  /\ ckpt \in [Unit -> CkptState]
  /\ cache \in [Batch -> Answer \cup {NoAnswer}]

\* A thread about to write the cache holds an answer to write.
AnsweredHasAnswer == \A u \in Unit : pc[u] = "answered" => got[u] # NoAnswer

\* A thread that may still mark its unit done has seen or made the entry.
PastCacheIsCached ==
  \A u \in Unit : pc[u] \in {"hit", "closed", "cached", "completed"} => cache[u[2]] # NoAnswer

\* Stages between a cache miss and the unit's end.
MissPath == {"missed", "asking", "inferring", "answered", "cached", "completed", "failing"}

\* A unit that is asked for again was never done.
MissIsNotDone == \A u \in Unit : pc[u] \in MissPath => ckpt[u] # "done"

IInv ==
  /\ Types
  /\ DoneIsCached
  /\ AnsweredHasAnswer
  /\ PastCacheIsCached
  /\ MissIsNotDone
-----------------------------------------------------------------------------
\* A unit is a job and a batch.
LEMMA UnitParts == \A u \in Unit : u[1] \in Job /\ u[2] \in Batch
BY DEF Unit

\* Nothing is done, cached or under way at first.
LEMMA InitIInv == Init => IInv
<1> SUFFICES ASSUME Init PROVE IInv
  OBVIOUS
<1>1. Types
  BY DEF Init, Types, Stage, Idle, CkptState
<1>2. DoneIsCached
  BY DEF Init, DoneIsCached
<1>3. AnsweredHasAnswer /\ PastCacheIsCached /\ MissIsNotDone
  BY DEF Init, AnsweredHasAnswer, PastCacheIsCached, MissIsNotDone, MissPath, Idle
<1> QED
  BY <1>1, <1>2, <1>3 DEF IInv

\* A step that moves one thread to a stage outside the miss path, or to one it
\* is already in, and leaves cache, checkpoints and answers alone.
LEMMA MoveIInv ==
  ASSUME IInv, NEW u \in Unit, NEW stage \in Stage,
         Goto(u, stage), UNCHANGED <<got, ckpt, cache>>,
         stage # "answered",
         stage \in {"hit", "closed", "cached", "completed"} => cache[u[2]] # NoAnswer,
         stage \in MissPath => ckpt[u] # "done"
  PROVE  IInv'
<1> USE DEF IInv, Types, Goto
<1>1. Types'
  OBVIOUS
<1>2. DoneIsCached'
  BY DEF DoneIsCached
<1>3. AnsweredHasAnswer'
  BY DEF AnsweredHasAnswer
<1>4. PastCacheIsCached'
  BY DEF PastCacheIsCached
<1>5. MissIsNotDone'
  BY DEF MissIsNotDone
<1> QED
  BY <1>1, <1>2, <1>3, <1>4, <1>5

\* A step that writes a thread's checkpoint as it moves.
LEMMA MarkIInv ==
  ASSUME IInv, NEW u \in Unit, NEW stage \in Stage, NEW status \in CkptState,
         Goto(u, stage), Mark(u, status), UNCHANGED <<got, cache>>,
         stage \notin {"answered", "hit", "closed", "cached", "completed"},
         status = "done" => cache[u[2]] # NoAnswer /\ stage \notin MissPath
  PROVE  IInv'
<1> USE DEF IInv, Types, Goto, Mark
<1>1. Types'
  OBVIOUS
<1>2. DoneIsCached'
  BY DEF DoneIsCached
<1>3. AnsweredHasAnswer'
  BY DEF AnsweredHasAnswer
<1>4. PastCacheIsCached'
  BY DEF PastCacheIsCached
<1>5. MissIsNotDone'
  BY DEF MissIsNotDone
<1> QED
  BY <1>1, <1>2, <1>3, <1>4, <1>5

\* A step that gives a thread the answer it moves on with.
LEMMA GotIInv ==
  ASSUME IInv, NEW u \in Unit, NEW stage \in {"hit", "answered"}, NEW answer \in Answer,
         Goto(u, stage), got' = [got EXCEPT ![u] = answer], UNCHANGED <<ckpt, cache>>,
         stage = "hit" => cache[u[2]] # NoAnswer,
         stage = "answered" => ckpt[u] # "done"
  PROVE  IInv'
<1> USE DEF IInv, Types, Goto
<1>1. Types'
  BY DEF Stage
<1>2. DoneIsCached'
  BY DEF DoneIsCached
<1>3. AnsweredHasAnswer'
  BY AnswersAssumption DEF AnsweredHasAnswer
<1>4. PastCacheIsCached'
  BY DEF PastCacheIsCached
<1>5. MissIsNotDone'
  BY DEF MissIsNotDone, MissPath
<1> QED
  BY <1>1, <1>2, <1>3, <1>4, <1>5

\* put_cache: an entry is added or replaced, never taken away.
LEMMA PutCacheIInv ==
  ASSUME IInv, NEW u \in Unit, PutCache(u)
  PROVE  IInv'
<1> USE DEF IInv, Types, PutCache, Goto
<1>0. u[2] \in Batch /\ \A v \in Unit : v[2] \in Batch
  BY UnitParts
<1>1. got[u] \in Answer \cup {NoAnswer} /\ got[u] # NoAnswer
  BY DEF AnsweredHasAnswer
<1>2. Types'
  BY <1>0, <1>1 DEF Stage
<1>3. \A b \in Batch : cache[b] # NoAnswer => cache'[b] # NoAnswer
  BY <1>1
<1>4. DoneIsCached'
  BY <1>0, <1>3 DEF DoneIsCached
<1>5. AnsweredHasAnswer'
  BY DEF AnsweredHasAnswer
<1>6. cache'[u[2]] # NoAnswer
  BY <1>0, <1>1
<1>7. PastCacheIsCached'
  <2> SUFFICES ASSUME NEW v \in Unit, pc'[v] \in {"hit", "closed", "cached", "completed"}
               PROVE  cache'[v[2]] # NoAnswer
    BY DEF PastCacheIsCached
  <2>1. CASE v = u
    BY <2>1, <1>6
  <2>2. CASE v # u
    BY <2>2, <1>0, <1>3 DEF PastCacheIsCached
  <2> QED
    BY <2>1, <2>2
<1>8. MissIsNotDone'
  BY DEF MissIsNotDone, MissPath
<1> QED
  BY <1>2, <1>4, <1>5, <1>7, <1>8

\* Steps of a job leave its threads, checkpoints and answers alone.
LEMMA JobIInv ==
  ASSUME IInv, UNCHANGED <<pc, got, ckpt, cache>>
  PROVE  IInv'
BY DEF IInv, Types, DoneIsCached, AnsweredHasAnswer, PastCacheIsCached, MissIsNotDone

\* A crash puts threads back to idle and keeps what was written.
LEMMA CrashIInv ==
  ASSUME IInv, Crash
  PROVE  IInv'
<1> USE DEF IInv, Types, Crash, Idle
<1>1. \A u \in Unit : /\ pc'[u] \in {pc[u], Idle}
                      /\ pc'[u] # Idle => got'[u] = got[u]
  OBVIOUS
<1>2. Types'
  BY DEF Stage
<1>3. DoneIsCached'
  BY DEF DoneIsCached
<1>4. AnsweredHasAnswer'
  BY <1>1 DEF AnsweredHasAnswer
<1>5. PastCacheIsCached'
  BY <1>1 DEF PastCacheIsCached
<1>6. MissIsNotDone'
  BY <1>1 DEF MissIsNotDone, MissPath
<1> QED
  BY <1>2, <1>3, <1>4, <1>5, <1>6
-----------------------------------------------------------------------------
\* Every step keeps the invariant.
LEMMA NextIInv == IInv /\ [Next]_vars => IInv'
<1> SUFFICES ASSUME IInv, [Next]_vars PROVE IInv'
  OBVIOUS
<1>1. ASSUME NEW j \in Job, Request(j) \/ Driver(j) PROVE IInv'
  BY <1>1, JobIInv DEF Request, Driver, Resume, JobFails, Save, Finish
<1>2. ASSUME NEW u \in Unit, Thread(u) PROVE IInv'
  <2>0. u[2] \in Batch /\ cache[u[2]] \in Answer \cup {NoAnswer}
    BY UnitParts DEF IInv, Types
  <2>1. CASE OpenRun(u)
    BY <2>1, MoveIInv DEF OpenRun, Stage, MissPath
  <2>2. CASE CacheHit(u)
    BY <2>0, <2>2, GotIInv DEF CacheHit
  <2>3. CASE CacheMiss(u)
    <3>1. ckpt[u] # "done"
      BY <2>3 DEF CacheMiss, IInv, DoneIsCached
    <3> QED
      BY <2>3, <3>1, MoveIInv DEF CacheMiss, Stage
  <2>4. CASE MarkRunning(u)
    BY <2>4, MarkIInv DEF MarkRunning, Stage, CkptState
  <2>5. CASE Infer(u)
    BY <2>5, MoveIInv DEF Infer, Stage, IInv, MissIsNotDone, MissPath
  <2>6. CASE \E a \in Answer : Answered(u, a)
    BY <2>6, GotIInv DEF Answered, IInv, MissIsNotDone, MissPath
  <2>7. CASE Invalid(u)
    <3>1. ckpt[u] # "done"
      BY <2>7 DEF Invalid, IInv, MissIsNotDone, MissPath
    <3>2. PICK stage \in {"asking", "failing"} : Goto(u, stage)
      BY <2>7 DEF Invalid
    <3> QED
      BY <2>7, <3>1, <3>2, MoveIInv DEF Invalid, Stage
  <2>8. CASE InferFails(u)
    BY <2>8, MoveIInv DEF InferFails, Stage, IInv, MissIsNotDone, MissPath
  <2>9. CASE PutCache(u)
    BY <2>9, PutCacheIInv
  <2>10. CASE CompleteRun(u)
    <3>1. cache[u[2]] # NoAnswer
      BY <2>10 DEF CompleteRun, IInv, PastCacheIsCached
    <3>2. CASE pc[u] = "hit"
      BY <2>10, <3>1, <3>2, MoveIInv DEF CompleteRun, Stage, MissPath
    <3>3. CASE pc[u] = "cached"
      <4>1. ckpt[u] # "done"
        BY <3>3 DEF IInv, MissIsNotDone, MissPath
      <4> QED
        BY <2>10, <3>1, <3>3, <4>1, MoveIInv DEF CompleteRun, Stage
    <3> QED
      BY <2>10, <3>2, <3>3 DEF CompleteRun
  <2>11. CASE MarkDone(u)
    <3>1. cache[u[2]] # NoAnswer
      BY <2>11 DEF MarkDone, IInv, PastCacheIsCached
    <3> QED
      BY <2>11, <3>1, MarkIInv DEF MarkDone, Stage, Over, Returned, CkptState, MissPath
  <2>12. CASE MarkFailed(u)
    BY <2>12, MarkIInv DEF MarkFailed, Stage, CkptState
  <2>13. CASE FailRun(u)
    BY <2>13, MoveIInv DEF FailRun, Stage, Over, Returned, MissPath
  <2> QED
    BY <1>2, <2>1, <2>2, <2>3, <2>4, <2>5, <2>6, <2>7, <2>8, <2>9, <2>10, <2>11, <2>12, <2>13
       DEF Thread
<1>3. ASSUME NEW u \in Unit, WriteFails(u) PROVE IInv'
  <2>1. ckpt[u] # "done"
    BY <1>3 DEF WriteFails, IInv, MissIsNotDone, MissPath
  <2> QED
    BY <1>3, <2>1, MoveIInv DEF WriteFails, Stage
<1>4. ASSUME NEW u \in Unit, ThreadBreaks(u) PROVE IInv'
  BY <1>4, MoveIInv DEF ThreadBreaks, Stage, Over, MissPath
<1>5. CASE Crash
  BY <1>5, CrashIInv
<1>6. CASE UNCHANGED vars
  BY <1>6, JobIInv DEF vars
<1> QED
  BY <1>1, <1>2, <1>3, <1>4, <1>5, <1>6 DEF Next

\* The invariant holds in every reachable state.
THEOREM Invariance == Spec => []IInv
<1>1. Init => IInv
  BY InitIInv
<1>2. IInv /\ [Next]_vars => IInv'
  BY NextIInv
<1> QED
  BY <1>1, <1>2, PTL DEF Spec

\* extract writes the cache before the checkpoint, whatever fails in between:
\* a unit marked done always has its answer in the inference cache.
THEOREM DoneHasAnswer == Spec => []DoneIsCached
<1>1. IInv => DoneIsCached
  BY DEF IInv
<1> QED
  BY <1>1, Invariance, PTL

\* No crash, resumption or other job makes the engine ask again for a unit
\* that was done: its thread finds the entry and never marks it otherwise.
THEOREM NeverAskedAgain == Spec => DoneStaysDone
<1>1. ASSUME IInv, [Next]_vars, NEW u \in Unit, ckpt[u] = "done" PROVE ckpt'[u] = "done"
  <2>1. pc[u] \notin MissPath
    BY <1>1 DEF IInv, MissIsNotDone
  <2>2. ckpt \in [Unit -> CkptState]
    BY <1>1 DEF IInv, Types
  <2>3. ASSUME NEW v \in Unit, Thread(v) PROVE ckpt'[u] = "done"
    <3>1. CASE MarkRunning(v)
      BY <1>1, <2>1, <2>2, <3>1 DEF MarkRunning, Mark, MissPath
    <3>2. CASE MarkDone(v)
      BY <1>1, <2>2, <3>2 DEF MarkDone, Mark
    <3>3. CASE MarkFailed(v)
      BY <1>1, <2>1, <2>2, <3>3 DEF MarkFailed, Mark, MissPath
    <3> QED
      BY <1>1, <2>3, <3>1, <3>2, <3>3
         DEF Thread, OpenRun, CacheHit, CacheMiss, Infer, Answered, Invalid, InferFails,
             PutCache, CompleteRun, FailRun
  <2> QED
    BY <1>1, <2>3
       DEF Next, Request, Driver, Resume, JobFails, Save, Finish, WriteFails, ThreadBreaks,
           Crash, vars
<1>2. IInv /\ [Next]_vars => [\A u \in Unit : ckpt[u] = "done" => ckpt'[u] = "done"]_vars
  BY <1>1
<1> QED
  BY <1>2, Invariance, PTL DEF Spec, DoneStaysDone
-----------------------------------------------------------------------------
(***************************************************************************)
(* Refined scenes.  The run rows a saved scene goes back to must outlive   *)
(* what a resumed job does to the rows of the same batches: it closes only *)
(* the row its own thread has opened, which lies behind them.              *)
(***************************************************************************)
Active == Stage \ ({Idle} \cup Over)

OtherTypes ==
  /\ job \in [Job -> JobState]
  /\ retries \in [Unit -> 0..(MaxAttempts - 1)]
  /\ runs \in [Unit -> Seq(RunRow)]
  /\ DOMAIN saved = Job
  /\ \A j \in Job, s \in Scene : DOMAIN saved[j][s] \subseteq Batch
  /\ faults \in 0..MaxFaults /\ crashes \in 0..MaxCrashes

\* The last row of a unit is the one its thread has opened.
RunIsOpened == \A u \in Unit : pc[u] \notin {Idle, "broken"} => runs[u] # <<>>

\* A thread that has closed its row holds the answer the row names.
AnswerIsRecorded ==
  \A u \in Unit : pc[u] \in {"closed", "completed", "returned"} =>
    runs[u][Len(runs[u])] = [status |-> "succeeded", result |-> got[u]]

ReturnedIsDone == \A u \in Unit : pc[u] = "returned" => ckpt[u] = "done"

\* RefinedIsAccounted by a row that no thread can still close.
SavedIsSettled ==
  \A j \in Job, s \in Scene : \A b \in DOMAIN saved[j][s] :
    \E i \in DOMAIN runs[<<j, b>>] :
      /\ runs[<<j, b>>][i] = [status |-> "succeeded", result |-> saved[j][s][b]]
      /\ pc[<<j, b>>] \in Active => i < Len(runs[<<j, b>>])

WInv ==
  /\ OtherTypes
  /\ RunIsOpened
  /\ AnswerIsRecorded
  /\ ReturnedIsDone
  /\ SavedIsSettled
  /\ RefinedInFull

LEMMA InitWInv == Init => WInv
<1> SUFFICES ASSUME Init PROVE WInv
  OBVIOUS
<1>1. OtherTypes
  BY PoolAssumption, EmptySeq DEF Init, OtherTypes, JobState, MaxAttempts, Kept
<1>2. RunIsOpened /\ AnswerIsRecorded /\ ReturnedIsDone
  BY DEF Init, RunIsOpened, AnswerIsRecorded, ReturnedIsDone, Idle
<1>3. \A j \in Job, s \in Scene : saved[j][s] = Kept /\ DOMAIN saved[j][s] = {}
  BY DEF Init, Kept
<1>4. SavedIsSettled /\ RefinedInFull
  BY <1>3 DEF SavedIsSettled, RefinedInFull
<1> QED
  BY <1>1, <1>2, <1>4 DEF WInv

\* What a thread may do to the rows of its unit: those it cannot close stay.
RowsStay(u) ==
  \A i \in DOMAIN runs[u] : (pc[u] \in Active => i < Len(runs[u])) =>
    /\ i \in DOMAIN runs'[u] /\ runs'[u][i] = runs[u][i]
    /\ pc'[u] \in Active => i < Len(runs'[u])

LEMMA ThreadWInv ==
  ASSUME WInv, NEW u \in Unit, OtherTypes', UNCHANGED saved,
         \A v \in Unit : v # u => pc'[v] = pc[v] /\ got'[v] = got[v] /\ ckpt'[v] = ckpt[v] /\ runs'[v] = runs[v],
         RowsStay(u),
         pc'[u] \notin {Idle, "broken"} => runs'[u] # <<>>,
         pc'[u] \in {"closed", "completed", "returned"} =>
           runs'[u][Len(runs'[u])] = [status |-> "succeeded", result |-> got'[u]],
         pc'[u] = "returned" => ckpt'[u] = "done",
         ckpt[u] = "done" => ckpt'[u] = "done"
  PROVE  WInv'
<1>1. RunIsOpened'
  BY DEF WInv, RunIsOpened
<1>2. AnswerIsRecorded'
  <2> SUFFICES ASSUME NEW v \in Unit, pc'[v] \in {"closed", "completed", "returned"}
               PROVE  runs'[v][Len(runs'[v])] = [status |-> "succeeded", result |-> got'[v]]
    BY DEF AnswerIsRecorded
  <2>1. CASE v = u
    BY <2>1
  <2>2. CASE v # u
    BY <2>2 DEF WInv, AnswerIsRecorded
  <2> QED
    BY <2>1, <2>2
<1>3. ReturnedIsDone'
  BY DEF WInv, ReturnedIsDone
<1>4. SavedIsSettled'
  <2> SUFFICES ASSUME NEW j \in Job, NEW s \in Scene, NEW b \in DOMAIN saved[j][s]
               PROVE  \E i \in DOMAIN runs'[<<j, b>>] :
                        /\ runs'[<<j, b>>][i] = [status |-> "succeeded", result |-> saved[j][s][b]]
                        /\ pc'[<<j, b>>] \in Active => i < Len(runs'[<<j, b>>])
    BY DEF SavedIsSettled
  <2>1. PICK i \in DOMAIN runs[<<j, b>>] :
          /\ runs[<<j, b>>][i] = [status |-> "succeeded", result |-> saved[j][s][b]]
          /\ pc[<<j, b>>] \in Active => i < Len(runs[<<j, b>>])
    BY DEF WInv, SavedIsSettled
  <2>2. <<j, b>> \in Unit
    BY DEF WInv, OtherTypes, Unit
  <2>3. CASE <<j, b>> = u
    BY <2>1, <2>3 DEF RowsStay
  <2>4. CASE <<j, b>> # u
    BY <2>1, <2>2, <2>4
  <2> QED
    BY <2>3, <2>4
<1>5. RefinedInFull'
  <2> SUFFICES ASSUME NEW j \in Job, NEW s \in Scene, saved[j][s] # Kept, NEW b \in BatchesOf(s)
               PROVE  ckpt'[<<j, b>>] = "done" /\ b \in DOMAIN saved[j][s]
    BY DEF RefinedInFull
  <2>1. <<j, b>> \in Unit
    BY DEF Unit, BatchesOf
  <2>2. ckpt[<<j, b>>] = "done" /\ b \in DOMAIN saved[j][s]
    BY DEF WInv, RefinedInFull
  <2> QED
    BY <2>1, <2>2
<1> QED
  BY <1>1, <1>2, <1>3, <1>4, <1>5 DEF WInv

\* A thread that moves on without touching its run row.
LEMMA MoveWInv ==
  ASSUME IInv, WInv, NEW u \in Unit, OtherTypes', UNCHANGED <<saved, runs>>,
         pc' = [pc EXCEPT ![u] = pc'[u]], pc[u] \in Active \/ pc'[u] \notin Active,
         \A v \in Unit : v # u => got'[v] = got[v] /\ ckpt'[v] = ckpt[v],
         pc'[u] \notin {Idle, "broken"} => pc[u] \notin {Idle, "broken"},
         pc'[u] \in {"closed", "completed", "returned"} =>
           pc[u] \in {"closed", "completed", "returned"} /\ got'[u] = got[u],
         pc'[u] = "returned" => ckpt'[u] = "done",
         ckpt[u] = "done" => ckpt'[u] = "done"
  PROVE  WInv'
<1>1. \A v \in Unit : v # u => pc'[v] = pc[v]
  BY DEF IInv, Types
<1>2. RowsStay(u)
  BY DEF RowsStay
<1>3. pc'[u] \notin {Idle, "broken"} => runs'[u] # <<>>
  BY DEF WInv, RunIsOpened
<1>4. pc'[u] \in {"closed", "completed", "returned"} =>
        runs'[u][Len(runs'[u])] = [status |-> "succeeded", result |-> got'[u]]
  BY DEF WInv, AnswerIsRecorded
<1> QED
  BY <1>1, <1>2, <1>3, <1>4, ThreadWInv

LEMMA OpenWInv == ASSUME IInv, WInv, NEW u \in Unit, OpenRun(u) PROVE WInv'
<1>1. PICK row : row = [status |-> "running", result |-> NoAnswer]
  OBVIOUS
<1>2. /\ pc[u] = Idle /\ runs' = [runs EXCEPT ![u] = Append(@, row)] /\ pc' = [pc EXCEPT ![u] = "opened"]
      /\ UNCHANGED <<job, got, retries, ckpt, saved, faults, crashes>>
  BY <1>1 DEF OpenRun, NextBatch, Goto
<1>3. pc \in [Unit -> Stage] /\ runs \in [Unit -> Seq(RunRow)] /\ row \in RunRow
  BY <1>1 DEF IInv, Types, WInv, OtherTypes, RunRow
<1>4. runs[u] \in Seq(RunRow) /\ Len(runs[u]) \in Nat
  BY <1>3
<1>5. PICK rows : rows = Append(runs[u], row)
  OBVIOUS
<1>6. /\ rows \in Seq(RunRow) /\ rows # <<>> /\ Len(rows) = Len(runs[u]) + 1
      /\ \A i \in 1..Len(runs[u]) : i \in DOMAIN rows /\ rows[i] = runs[u][i]
      /\ DOMAIN runs[u] = 1..Len(runs[u])
  BY <1>3, <1>4, <1>5
<1>7. runs'[u] = rows /\ \A v \in Unit : v # u => pc'[v] = pc[v] /\ runs'[v] = runs[v]
  BY <1>2, <1>3, <1>5
<1>8. OtherTypes'
  BY <1>2, <1>3, <1>6, <1>7 DEF WInv, OtherTypes
<1>9. RowsStay(u)
  BY <1>4, <1>6, <1>7 DEF RowsStay
<1>10. pc'[u] = "opened"
  BY <1>2, <1>3
<1> QED
  BY <1>2, <1>6, <1>7, <1>8, <1>9, <1>10, ThreadWInv

\* A row is closed by the thread that has opened it.
LEMMA CloseWInv ==
  ASSUME IInv, WInv, NEW u \in Unit, NEW stage \in {"closed", "completed", "rejected"}, NEW row \in RunRow,
         pc[u] \in Active, Goto(u, stage), runs' = [runs EXCEPT ![u][Len(runs[u])] = row],
         stage # "rejected" => row = [status |-> "succeeded", result |-> got[u]],
         UNCHANGED <<job, got, retries, ckpt, saved, faults, crashes>>
  PROVE  WInv'
<1>1. pc \in [Unit -> Stage] /\ runs \in [Unit -> Seq(RunRow)] /\ pc' = [pc EXCEPT ![u] = stage]
  BY DEF IInv, Types, WInv, OtherTypes, Goto
<1>2. runs[u] # <<>>
  BY DEF WInv, RunIsOpened, Active, Over
<1>3. PICK n \in Nat : n = Len(runs[u]) /\ n # 0 /\ runs[u] \in Seq(RunRow) /\ DOMAIN runs[u] = 1..n
  BY <1>1, <1>2, EmptySeq, LenProperties
<1>4. PICK rows : rows = [runs[u] EXCEPT ![n] = row]
  OBVIOUS
<1>5. rows \in Seq(RunRow) /\ Len(rows) = n /\ DOMAIN rows = 1..n
  BY <1>3, <1>4, ExceptSeq
<1>6. rows # <<>> /\ rows[n] = row /\ \A i \in 1..n : i < n => rows[i] = runs[u][i]
  BY <1>3, <1>4, <1>5
<1>7. runs'[u] = rows /\ \A v \in Unit : v # u => pc'[v] = pc[v] /\ runs'[v] = runs[v]
  BY <1>1, <1>3, <1>4
<1>8. OtherTypes'
  BY <1>1, <1>5, <1>7 DEF WInv, OtherTypes
<1>9. RowsStay(u)
  BY <1>3, <1>5, <1>6, <1>7 DEF RowsStay
<1>10. pc'[u] = stage
  BY <1>1
<1>11. pc'[u] \in {"closed", "completed", "returned"} =>
         runs'[u][Len(runs'[u])] = [status |-> "succeeded", result |-> got'[u]]
  BY <1>3, <1>5, <1>6, <1>7, <1>10
<1> QED
  BY <1>6, <1>7, <1>8, <1>9, <1>10, <1>11, ThreadWInv

\* _refine_hierarchy: the scenes whose batches all came back are saved.
LEMMA SaveWInv == ASSUME IInv, WInv, NEW j \in Job, Save(j) PROVE WInv'
<1>1. PICK now : now = [s \in Scene |-> IF Accepted(j, s)
                                        THEN [b \in BatchesOf(s) |-> got[<<j, b>>]] ELSE Kept]
  OBVIOUS
<1>2. /\ saved' = [saved EXCEPT ![j] = now] /\ job' = [job EXCEPT ![j] = "persisted"]
      /\ UNCHANGED <<pc, got, retries, ckpt, runs, faults, crashes>>
  BY <1>1 DEF Save
<1>3. DOMAIN saved' = Job /\ saved'[j] = now /\ \A k \in Job : k # j => saved'[k] = saved[k]
  BY <1>2 DEF WInv, OtherTypes
<1>4. ASSUME NEW s \in Scene, now[s] # Kept
      PROVE  /\ DOMAIN now[s] = BatchesOf(s)
             /\ \A b \in BatchesOf(s) : now[s][b] = got[<<j, b>>] /\ pc[<<j, b>>] = "returned"
  BY <1>1, <1>4 DEF Accepted
<1>5. DOMAIN Kept = {} /\ \A s \in Scene : DOMAIN now[s] \subseteq BatchesOf(s)
  BY <1>1 DEF Kept
<1>6. OtherTypes'
  <2>1. \A k \in Job, s \in Scene : DOMAIN saved'[k][s] \subseteq Batch
    BY <1>3, <1>5 DEF BatchesOf, WInv, OtherTypes
  <2>2. job' \in [Job -> JobState]
    BY <1>2 DEF WInv, OtherTypes, JobState
  <2> QED
    BY <1>2, <1>3, <2>1, <2>2 DEF WInv, OtherTypes
<1>7. RunIsOpened' /\ AnswerIsRecorded' /\ ReturnedIsDone'
  BY <1>2 DEF WInv, RunIsOpened, AnswerIsRecorded, ReturnedIsDone
<1>8. SavedIsSettled'
  <2> SUFFICES ASSUME NEW k \in Job, NEW s \in Scene, NEW b \in DOMAIN saved'[k][s]
               PROVE  \E i \in DOMAIN runs[<<k, b>>] :
                        /\ runs[<<k, b>>][i] = [status |-> "succeeded", result |-> saved'[k][s][b]]
                        /\ pc[<<k, b>>] \in Active => i < Len(runs[<<k, b>>])
    BY <1>2 DEF SavedIsSettled
  <2>1. CASE k # j
    BY <1>3, <2>1 DEF WInv, SavedIsSettled
  <2>2. CASE k = j
    <3>1. saved'[k][s] = now[s] /\ now[s] # Kept /\ b \in BatchesOf(s)
      BY <1>3, <1>5, <2>2
    <3>2. pc[<<k, b>>] = "returned" /\ saved'[k][s][b] = got[<<k, b>>] /\ <<k, b>> \in Unit
      BY <1>4, <2>2, <3>1 DEF Unit, BatchesOf
    <3>3. /\ runs[<<k, b>>][Len(runs[<<k, b>>])] = [status |-> "succeeded", result |-> saved'[k][s][b]]
          /\ runs[<<k, b>>] # <<>> /\ runs[<<k, b>>] \in Seq(RunRow)
      BY <3>2 DEF WInv, AnswerIsRecorded, RunIsOpened, OtherTypes, Idle
    <3>4. Len(runs[<<k, b>>]) \in DOMAIN runs[<<k, b>>]
      BY <3>3, EmptySeq, LenProperties
    <3>5. pc[<<k, b>>] \notin Active
      BY <3>2 DEF Active, Over, Returned
    <3> QED
      BY <3>3, <3>4, <3>5
  <2> QED
    BY <2>1, <2>2
<1>9. RefinedInFull'
  <2> SUFFICES ASSUME NEW k \in Job, NEW s \in Scene, saved'[k][s] # Kept, NEW b \in BatchesOf(s)
               PROVE  ckpt[<<k, b>>] = "done" /\ b \in DOMAIN saved'[k][s]
    BY <1>2 DEF RefinedInFull
  <2>1. CASE k # j
    BY <1>3, <2>1 DEF WInv, RefinedInFull
  <2>2. CASE k = j
    <3>1. saved'[k][s] = now[s] /\ pc[<<k, b>>] = "returned" /\ b \in DOMAIN now[s] /\ <<k, b>> \in Unit
      BY <1>3, <1>4, <2>2 DEF Unit, BatchesOf
    <3> QED
      BY <3>1 DEF WInv, ReturnedIsDone
  <2> QED
    BY <2>1, <2>2
<1> QED
  BY <1>6, <1>7, <1>8, <1>9 DEF WInv

\* Steps that change no more than the state of jobs.
LEMMA JobWInv ==
  ASSUME WInv, OtherTypes', UNCHANGED <<pc, got, ckpt, runs, saved>>
  PROVE  WInv'
BY DEF WInv, RunIsOpened, AnswerIsRecorded, ReturnedIsDone, SavedIsSettled, RefinedInFull

LEMMA CrashWInv == ASSUME IInv, WInv, Crash PROVE WInv'
<1>1. \A u \in Unit : \/ pc'[u] = Idle
                      \/ pc'[u] = pc[u] /\ got'[u] = got[u]
  BY DEF Crash
<1>2. UNCHANGED <<ckpt, runs, saved>>
  BY DEF Crash
<1>3. OtherTypes'
  <2>1. crashes' \in 0..MaxCrashes /\ faults' \in 0..MaxFaults
    BY PoolAssumption DEF Crash, WInv, OtherTypes
  <2>2. retries' \in [Unit -> 0..(MaxAttempts - 1)]
    BY DEF Crash, WInv, OtherTypes, MaxAttempts
  <2>3. job' \in [Job -> JobState]
    BY DEF Crash, WInv, OtherTypes, JobState
  <2> QED
    BY <1>2, <2>1, <2>2, <2>3 DEF WInv, OtherTypes
<1>4. RunIsOpened' /\ AnswerIsRecorded' /\ ReturnedIsDone'
  BY <1>1, <1>2 DEF WInv, RunIsOpened, AnswerIsRecorded, ReturnedIsDone, Idle
<1>5. SavedIsSettled'
  <2>1. \A j \in Job, s \in Scene : \A b \in DOMAIN saved[j][s] : <<j, b>> \in Unit
    BY DEF WInv, OtherTypes, Unit
  <2>2. Idle \notin Active
    BY DEF Active
  <2> QED
    BY <1>1, <1>2, <2>1, <2>2 DEF WInv, SavedIsSettled
<1>6. RefinedInFull'
  BY <1>2 DEF WInv, RefinedInFull
<1> QED
  BY <1>3, <1>4, <1>5, <1>6 DEF WInv

LEMMA NextWInv == IInv /\ WInv /\ [Next]_vars => WInv'
<1> SUFFICES ASSUME IInv, WInv, [Next]_vars PROVE WInv'
  OBVIOUS
<1>1. ASSUME NEW j \in Job, Request(j) \/ Resume(j) \/ JobFails(j) \/ Finish(j) PROVE WInv'
  <2>1. PICK state \in JobState : job' = [job EXCEPT ![j] = state]
    BY <1>1 DEF Request, Resume, JobFails, Finish, JobState
  <2>2. OtherTypes'
    BY <1>1, <2>1 DEF Request, Resume, JobFails, Finish, WInv, OtherTypes
  <2> QED
    BY <1>1, <2>2, JobWInv DEF Request, Resume, JobFails, Finish
<1>2. ASSUME NEW j \in Job, Save(j) PROVE WInv'
  BY <1>2, SaveWInv
<1>3. ASSUME NEW u \in Unit, Thread(u) \/ WriteFails(u) \/ ThreadBreaks(u) PROVE WInv'
  <2> USE DEF Goto
  <2>1. /\ pc \in [Unit -> Stage] /\ got \in [Unit -> Answer \cup {NoAnswer}] /\ ckpt \in [Unit -> CkptState]
        /\ OtherTypes /\ MissIsNotDone
    BY DEF IInv, WInv, Types
  <2>2. CASE OpenRun(u)
    BY <2>2, OpenWInv
  <2>3. CASE CacheHit(u) \/ (\E a \in Answer : Answered(u, a))
    <3>1. OtherTypes'
      BY <2>1, <2>3 DEF CacheHit, Answered, OtherTypes
    <3> QED
      BY <2>1, <2>3, <3>1, MoveWInv DEF CacheHit, Answered, Active, Stage, Over, Returned, Idle
  <2>4. CASE CacheMiss(u) \/ Infer(u) \/ InferFails(u)
    <3>1. OtherTypes'
      BY <2>1, <2>4 DEF CacheMiss, Infer, InferFails, OtherTypes
    <3> QED
      BY <2>1, <2>4, <3>1, MoveWInv DEF CacheMiss, Infer, InferFails, Active, Stage, Over, Returned, Idle
  <2>5. CASE MarkRunning(u) \/ MarkFailed(u)
    <3>1. OtherTypes'
      BY <2>1, <2>5 DEF MarkRunning, MarkFailed, OtherTypes
    <3>2. ckpt[u] # "done"
      BY <2>1, <2>5 DEF MarkRunning, MarkFailed, MissIsNotDone, MissPath
    <3> QED
      BY <2>1, <2>5, <3>1, <3>2, MoveWInv
         DEF MarkRunning, MarkFailed, Mark, Active, Stage, Over, Returned, Idle
  <2>6. CASE Invalid(u)
    <3>1. retries' \in [Unit -> 0..(MaxAttempts - 1)]
      BY <2>1, <2>6 DEF Invalid, OtherTypes, MaxAttempts
    <3>2. OtherTypes'
      BY <2>1, <2>6, <3>1 DEF Invalid, OtherTypes
    <3>3. PICK stage \in {"asking", "failing"} : pc' = [pc EXCEPT ![u] = stage]
      BY <2>6 DEF Invalid
    <3> QED
      BY <2>1, <2>6, <3>2, <3>3, MoveWInv DEF Invalid, Active, Stage, Over, Returned, Idle
  <2>7. CASE PutCache(u)
    <3>1. OtherTypes'
      BY <2>1, <2>7 DEF PutCache, OtherTypes
    <3> QED
      BY <2>1, <2>7, <3>1, MoveWInv DEF PutCache, Active, Stage, Over, Returned, Idle
  <2>8. CASE CompleteRun(u)
    <3>1. PICK row \in RunRow : row = [status |-> "succeeded", result |-> got[u]]
      BY <2>1 DEF RunRow
    <3>2. PICK stage \in {"closed", "completed"} : pc' = [pc EXCEPT ![u] = stage]
      BY <2>8 DEF CompleteRun
    <3> QED
      BY <2>8, <3>1, <3>2, CloseWInv DEF CompleteRun, CloseRun, Active, Stage, Over, Returned, Idle
  <2>9. CASE MarkDone(u)
    <3>1. OtherTypes'
      BY <2>1, <2>9 DEF MarkDone, OtherTypes
    <3> QED
      BY <2>1, <2>9, <3>1, MoveWInv DEF MarkDone, Mark, Active, Stage, Over, Returned, Idle
  <2>10. CASE FailRun(u)
    <3>1. PICK row \in RunRow : row = [status |-> "failed", result |-> NoAnswer]
      BY DEF RunRow
    <3> QED
      BY <2>10, <3>1, CloseWInv DEF FailRun, CloseRun, Active, Stage, Over, Returned, Idle
  <2>11. CASE WriteFails(u) \/ ThreadBreaks(u)
    <3>1. faults' \in 0..MaxFaults
      BY <2>1, <2>11, PoolAssumption DEF WriteFails, ThreadBreaks, OtherTypes
    <3>2. OtherTypes'
      BY <2>1, <2>11, <3>1 DEF WriteFails, ThreadBreaks, OtherTypes
    <3>3. CASE WriteFails(u)
      BY <2>1, <3>2, <3>3, MoveWInv DEF WriteFails, Active, Stage, Over, Returned, Idle
    <3>4. CASE ThreadBreaks(u)
      BY <2>1, <3>2, <3>4, MoveWInv DEF ThreadBreaks, Active, Stage, Over, Returned, Idle
    <3> QED
      BY <2>11, <3>3, <3>4
  <2> QED
    BY <1>3, <2>2, <2>3, <2>4, <2>5, <2>6, <2>7, <2>8, <2>9, <2>10, <2>11 DEF Thread
<1>4. CASE Crash
  BY <1>4, CrashWInv
<1>5. CASE UNCHANGED vars
  BY <1>5, JobWInv DEF vars, WInv, OtherTypes
<1> QED
  BY <1>1, <1>2, <1>3, <1>4, <1>5 DEF Next, Driver

\* What a saved scene is built from stays recorded while its job is cut off,
\* run again and faulted.
THEOREM SceneInvariance == Spec => []WInv
<1>1. Init => IInv /\ WInv
  BY InitIInv, InitWInv
<1>2. IInv /\ WInv /\ [Next]_vars => (IInv /\ WInv)'
  BY NextIInv, NextWInv
<1> QED
  BY <1>1, <1>2, PTL DEF Spec

\* Every variable keeps its type: states, stages, attempts, checkpoints, run
\* rows, and the batches of saved scenes.
THEOREM TypeCorrect == Spec => []TypeOK
<1>1. IInv /\ WInv => TypeOK
  BY DEF IInv, WInv, Types, OtherTypes, TypeOK
<1> QED
  BY <1>1, Invariance, SceneInvariance, PTL

\* A scene is refined as a whole from batches that are done, and every answer
\* in it goes back to a succeeded llm_runs row of its own job, whatever later
\* faults, crashes and resumptions do to the rows of these batches.
THEOREM ScenesAreTraced == Spec => []RefinedIsWhole
<1>1. WInv => RefinedIsWhole
  BY DEF WInv, SavedIsSettled, RefinedIsWhole, RefinedIsAccounted
<1> QED
  BY <1>1, SceneInvariance, PTL
=============================================================================
