---------------------------- MODULE LlmExtraction ----------------------------
(***************************************************************************)
(* LocalLlmService.extract under StructureService._refine_hierarchy: each  *)
(* job takes its scenes one after the other, sends the batches of a scene  *)
(* to the model on a few threads, and keeps a checkpoint per (job, batch), *)
(* an inference cache that all jobs share and an llm_runs row per call.    *)
(* A scene whose batches all came through is refined, another keeps the    *)
(* parser's segments, and at the end the structure is saved.               *)
(*                                                                         *)
(* Every write goes through the single writer and is one step.  A job cut  *)
(* off by a crash is run again if it left a checkpoint (see JobRunner),    *)
(* and is failed if it did not.                                            *)
(***************************************************************************)
EXTENDS Naturals, Sequences, FiniteSets

CONSTANTS
  Job,         \* structure.extract jobs
  SceneOf,     \* the scene of each batch, in document order; the cache key
               \* of a batch is the same in every job
  Answer,      \* answers that satisfy the schema
  Usable,      \* ... and that _validated_atom_refinement accepts
  NoAnswer,
  LlmWorkers,  \* size of the llm pool
  MaxFaults,   \* bound: writes that fail
  MaxCrashes   \* bound: crashes of the engine

ASSUME BatchesAssumption ==
  /\ SceneOf \in Seq(Nat)
  /\ \A b, c \in DOMAIN SceneOf : b < c => SceneOf[b] <= SceneOf[c]
ASSUME AnswersAssumption == Usable \subseteq Answer /\ NoAnswer \notin Answer
ASSUME PoolAssumption == LlmWorkers \in Nat \ {0} /\ {MaxFaults, MaxCrashes} \subseteq Nat

VARIABLES
  job,      \* state of each job
  pc,       \* where the thread of each (job, batch) is
  got,      \* the answer the thread holds
  retries,  \* calls of this thread that were rejected by the schema
  ckpt,     \* job_checkpoints, by unit
  cache,    \* inference_cache, by batch
  runs,     \* llm_runs rows of each unit, oldest first
  saved,    \* what the job saved for each scene: its answers by batch
  faults, crashes

vars == <<job, pc, got, retries, ckpt, cache, runs, saved, faults, crashes>>

Batch == DOMAIN SceneOf
Scene == {SceneOf[b] : b \in Batch}
Unit == Job \X Batch
MaxAttempts == 2

BatchesOf(s) == {b \in Batch : SceneOf[b] = s}
UnitsOf(j) == {j} \X Batch

\* "queued": to be run again.  "persisted": the structure is saved and the
\* row still RUNNING.  "lost": a QUEUED row no engine runs.
JobState == {"new", "queued", "lost", "running", "persisted", "succeeded", "failed"}
CkptState == {"none", "running", "done", "failed"}
RunRow == [status : {"running", "succeeded", "failed"}, result : Answer \cup {NoAnswer}]

Idle == "idle"
\* A thread ends with a result, a ValueError, or another exception.
Returned == {"returned", "rejected"}
Over == Returned \cup {"broken"}
Stage == {Idle, "opened", "hit", "closed", "missed", "asking", "inferring", "answered",
          "cached", "completed", "failing", "marked"} \cup Over

\* A scene nobody refined keeps the parser's segments.
Kept == [b \in {} |-> NoAnswer]

TypeOK ==
  /\ job \in [Job -> JobState]
  /\ pc \in [Unit -> Stage]
  /\ got \in [Unit -> Answer \cup {NoAnswer}]
  /\ retries \in [Unit -> 0..(MaxAttempts - 1)]
  /\ ckpt \in [Unit -> CkptState]
  /\ cache \in [Batch -> Answer \cup {NoAnswer}]
  /\ runs \in [Unit -> Seq(RunRow)]
  /\ \A j \in Job, s \in Scene : DOMAIN saved[j][s] \subseteq Batch
  /\ faults \in 0..MaxFaults /\ crashes \in 0..MaxCrashes

Init ==
  /\ job = [j \in Job |-> "new"]
  /\ pc = [u \in Unit |-> Idle]
  /\ got = [u \in Unit |-> NoAnswer]
  /\ retries = [u \in Unit |-> 0]
  /\ ckpt = [u \in Unit |-> "none"]
  /\ cache = [b \in Batch |-> NoAnswer]
  /\ runs = [u \in Unit |-> <<>>]
  /\ saved = [j \in Job |-> [s \in Scene |-> Kept]]
  /\ faults = 0 /\ crashes = 0
-----------------------------------------------------------------------------
Goto(u, stage) == pc' = [pc EXCEPT ![u] = stage]
Mark(u, status) == ckpt' = [ckpt EXCEPT ![u] = status]

\* The thread's run row is the last of its unit.
CloseRun(u, status, result) ==
  runs' = [runs EXCEPT ![u][Len(runs[u])] = [status |-> status, result |-> result]]

Request(j) ==
  /\ job[j] = "new"
  /\ job' = [job EXCEPT ![j] = "running"]
  /\ UNCHANGED <<pc, got, retries, ckpt, cache, runs, saved, faults, crashes>>

Resume(j) ==
  /\ job[j] = "queued"
  /\ job' = [job EXCEPT ![j] = "running"]
  /\ UNCHANGED <<pc, got, retries, ckpt, cache, runs, saved, faults, crashes>>

Busy(j) == {v \in UnitsOf(j) : pc[v] \notin {Idle} \cup Over}

\* A worker of the scene's executor takes the next batch.
NextBatch(u) ==
  /\ job[u[1]] = "running"
  /\ pc[u] = Idle
  /\ Cardinality(Busy(u[1])) < LlmWorkers
  /\ \A b \in 1..(u[2] - 1) :
       pc[<<u[1], b>>] \in IF SceneOf[b] < SceneOf[u[2]] THEN Returned ELSE Stage \ {Idle}

OpenRun(u) ==
  /\ NextBatch(u)
  /\ runs' = [runs EXCEPT ![u] = Append(@, [status |-> "running", result |-> NoAnswer])]
  /\ Goto(u, "opened")
  /\ UNCHANGED <<job, got, retries, ckpt, cache, saved, faults, crashes>>

CacheHit(u) ==
  /\ pc[u] = "opened"
  /\ cache[u[2]] # NoAnswer
  /\ got' = [got EXCEPT ![u] = cache[u[2]]]
  /\ Goto(u, "hit")
  /\ UNCHANGED <<job, retries, ckpt, cache, runs, saved, faults, crashes>>

\* Variant of CacheMiss: the cache is not asked.
CacheMissBlind(u) ==
  /\ pc[u] = "opened"
  /\ Goto(u, "missed")
  /\ UNCHANGED <<job, got, retries, ckpt, cache, runs, saved, faults, crashes>>

CacheMiss(u) ==
  /\ pc[u] = "opened"
  /\ cache[u[2]] = NoAnswer
  /\ Goto(u, "missed")
  /\ UNCHANGED <<job, got, retries, ckpt, cache, runs, saved, faults, crashes>>

MarkRunning(u) ==
  /\ pc[u] = "missed"
  /\ Mark(u, "running")
  /\ Goto(u, "asking")
  /\ UNCHANGED <<job, got, retries, cache, runs, saved, faults, crashes>>

\* The call waits for a worker of the llm pool.
Infer(u) ==
  /\ pc[u] = "asking"
  /\ Cardinality({v \in Unit : pc[v] = "inferring"}) < LlmWorkers
  /\ Goto(u, "inferring")
  /\ UNCHANGED <<job, got, retries, ckpt, cache, runs, saved, faults, crashes>>

Answered(u, answer) ==
  /\ pc[u] = "inferring"
  /\ got' = [got EXCEPT ![u] = answer]
  /\ Goto(u, "answered")
  /\ UNCHANGED <<job, retries, ckpt, cache, runs, saved, faults, crashes>>

\* Variant of Invalid: the loop gives no attempt up.
InvalidForever(u) ==
  /\ pc[u] = "inferring"
  /\ Goto(u, "asking")
  /\ UNCHANGED <<job, got, retries, ckpt, cache, runs, saved, faults, crashes>>

\* Variant of Invalid: one attempt too many.
InvalidOnceMore(u) ==
  /\ pc[u] = "inferring"
  /\ IF retries[u] < MaxAttempts
     THEN Goto(u, "asking") /\ retries' = [retries EXCEPT ![u] = @ + 1]
     ELSE Goto(u, "failing") /\ UNCHANGED retries
  /\ UNCHANGED <<job, got, ckpt, cache, runs, saved, faults, crashes>>

\* The answer breaks the schema: ask once more, then give up.
Invalid(u) ==
  /\ pc[u] = "inferring"
  /\ IF retries[u] + 1 < MaxAttempts
     THEN Goto(u, "asking") /\ retries' = [retries EXCEPT ![u] = @ + 1]
     ELSE Goto(u, "failing") /\ UNCHANGED retries
  /\ UNCHANGED <<job, got, ckpt, cache, runs, saved, faults, crashes>>

\* The provider raises: unreachable, timeout, no JSON.
InferFails(u) ==
  /\ pc[u] = "inferring"
  /\ Goto(u, "failing")
  /\ UNCHANGED <<job, got, retries, ckpt, cache, runs, saved, faults, crashes>>

\* Variant of PutCache: the entry is not written.
PutCacheSkipped(u) ==
  /\ pc[u] = "answered"
  /\ Goto(u, "cached")
  /\ UNCHANGED <<job, got, retries, ckpt, cache, runs, saved, faults, crashes>>

PutCache(u) ==
  /\ pc[u] = "answered"
  /\ cache' = [cache EXCEPT ![u[2]] = got[u]]
  /\ Goto(u, "cached")
  /\ UNCHANGED <<job, got, retries, ckpt, runs, saved, faults, crashes>>

\* llm_runs.complete, after a miss or a hit.
CompleteRun(u) ==
  /\ pc[u] \in {"cached", "hit"}
  /\ CloseRun(u, "succeeded", got[u])
  /\ Goto(u, IF pc[u] = "hit" THEN "closed" ELSE "completed")
  /\ UNCHANGED <<job, got, retries, ckpt, cache, saved, faults, crashes>>

MarkDone(u) ==
  /\ pc[u] \in {"completed", "closed"}
  /\ Mark(u, "done")
  /\ Goto(u, "returned")
  /\ UNCHANGED <<job, got, retries, cache, runs, saved, faults, crashes>>

MarkFailed(u) ==
  /\ pc[u] = "failing"
  /\ Mark(u, "failed")
  /\ Goto(u, "marked")
  /\ UNCHANGED <<job, got, retries, cache, runs, saved, faults, crashes>>

FailRun(u) ==
  /\ pc[u] = "marked"
  /\ CloseRun(u, "failed", NoAnswer)
  /\ Goto(u, "rejected")
  /\ UNCHANGED <<job, got, retries, ckpt, cache, saved, faults, crashes>>

\* A file or a write of the try block raises.
WriteFails(u) ==
  /\ faults < MaxFaults
  /\ pc[u] \in {"answered", "cached", "completed"}
  /\ faults' = faults + 1
  /\ Goto(u, "failing")
  /\ UNCHANGED <<job, got, retries, ckpt, cache, runs, saved, crashes>>

\* A write outside it raises, in the handler included: the exception is no
\* ValueError and leaves refine_batch.
ThreadBreaks(u) ==
  /\ faults < MaxFaults
  /\ NextBatch(u) \/ pc[u] \in {"opened", "missed", "hit", "closed", "failing", "marked"}
  /\ faults' = faults + 1
  /\ Goto(u, "broken")
  /\ UNCHANGED <<job, got, retries, ckpt, cache, runs, saved, crashes>>

\* The executor waits for its other threads before the exception ends the job.
JobFails(j) ==
  /\ job[j] = "running"
  /\ \E b \in Batch :
       /\ pc[<<j, b>>] = "broken"
       /\ \A c \in BatchesOf(SceneOf[b]) : pc[<<j, c>>] \in Over
  /\ job' = [job EXCEPT ![j] = "failed"]
  /\ UNCHANGED <<pc, got, retries, ckpt, cache, runs, saved, faults, crashes>>

\* Variant of Accepted: the answers of rejected batches are not missed.
AcceptedUnchecked(j, s) == \A b \in BatchesOf(s) : got[<<j, b>>] \in Usable

\* Every batch of the scene came back with an answer that validates.
Accepted(j, s) ==
  \A b \in BatchesOf(s) : pc[<<j, b>>] = "returned" /\ got[<<j, b>>] \in Usable

\* The scenes are decided one by one and saved together.
Save(j) ==
  /\ job[j] = "running"
  /\ \A u \in UnitsOf(j) : pc[u] \in Returned
  /\ saved' = [saved EXCEPT ![j] =
       [s \in Scene |-> IF Accepted(j, s)
                        THEN [b \in BatchesOf(s) |-> got[<<j, b>>]] ELSE Kept]]
  /\ job' = [job EXCEPT ![j] = "persisted"]
  /\ UNCHANGED <<pc, got, retries, ckpt, cache, runs, faults, crashes>>

Finish(j) ==
  /\ job[j] = "persisted"
  /\ job' = [job EXCEPT ![j] = "succeeded"]
  /\ UNCHANGED <<pc, got, retries, ckpt, cache, runs, saved, faults, crashes>>

\* Threads are gone; reconcile_interrupted settles the RUNNING rows.
Crash ==
  /\ crashes < MaxCrashes
  /\ crashes' = crashes + 1
  /\ LET Interrupted == {j \in Job : job[j] \in {"running", "persisted"}}
         Fresh(f, value) == [u \in Unit |-> IF u[1] \in Interrupted THEN value ELSE f[u]]
     IN /\ job' = [j \in Job |->
                    IF job[j] = "queued" THEN "lost"
                    ELSE IF j \notin Interrupted THEN job[j]
                    ELSE IF \E u \in UnitsOf(j) : ckpt[u] # "none" THEN "queued"
                    ELSE "failed"]
        /\ pc' = Fresh(pc, Idle)
        /\ got' = Fresh(got, NoAnswer)
        /\ retries' = Fresh(retries, 0)
  /\ UNCHANGED <<ckpt, cache, runs, saved, faults>>
-----------------------------------------------------------------------------
Thread(u) ==
  \/ OpenRun(u) \/ CacheHit(u) \/ CacheMiss(u)
  \/ MarkRunning(u)
  \/ Infer(u) \/ (\E a \in Answer : Answered(u, a)) \/ Invalid(u) \/ InferFails(u)
  \/ PutCache(u) \/ CompleteRun(u) \/ MarkDone(u)
  \/ MarkFailed(u) \/ FailRun(u)

Driver(j) == Resume(j) \/ JobFails(j) \/ Save(j) \/ Finish(j)

Next ==
  \/ \E j \in Job : Request(j) \/ Driver(j)
  \/ \E u \in Unit : Thread(u) \/ WriteFails(u) \/ ThreadBreaks(u)
  \/ Crash

Spec == Init /\ [][Next]_vars

\* Threads are scheduled and every call to the provider has a timeout.
FairSpec ==
  /\ Spec
  /\ \A u \in Unit : WF_vars(Thread(u))
  /\ \A j \in Job : WF_vars(Driver(j))
-----------------------------------------------------------------------------
\* A unit whose checkpoint says done has its answer in the cache, so that a
\* resumed job finds it there: extract writes the cache first, and no failure
\* or crash between the two writes may turn the order around.
DoneIsCached == \A u \in Unit : ckpt[u] = "done" => cache[u[2]] # NoAnswer

\* A unit that was done is not sent to the model again when its job is
\* resumed (resume.py: the stages skip units that already completed).
DoneStaysDone == [][\A u \in Unit : ckpt[u] = "done" => ckpt'[u] = "done"]_vars

\* Each answer a refined scene is built from is the result of a succeeded
\* llm_runs row of that batch (the llmRunId in the evidence of its segments):
\* a later fault may not fail the row, nor another job's answer replace it.
RefinedIsAccounted ==
  \A j \in Job, s \in Scene : \A b \in DOMAIN saved[j][s] :
    \E i \in DOMAIN runs[<<j, b>>] :
      runs[<<j, b>>][i] = [status |-> "succeeded", result |-> saved[j][s][b]]

\* A scene is refined as a whole or not at all, and its batches are done also
\* while the job is run again (_refine_hierarchy: one rejected batch keeps the
\* parser's segments of the scene).
RefinedInFull ==
  \A j \in Job, s \in Scene :
    saved[j][s] # Kept =>
      \A b \in BatchesOf(s) : ckpt[<<j, b>>] = "done" /\ b \in DOMAIN saved[j][s]

\* A saved scene is complete and every answer in it can be traced to its run.
RefinedIsWhole == RefinedInFull /\ RefinedIsAccounted

\* A job that runs ends, or is cut off by a crash and then run again, failed or
\* lost: two attempts per batch, no thread waits for ever for the pool.
JobsEnd ==
  \A j \in Job : job[j] \in {"running", "queued", "persisted"} ~>
                   job[j] \in {"succeeded", "failed", "lost"}
=============================================================================
