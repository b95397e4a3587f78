----------------------------- MODULE JobRunner -----------------------------
(***************************************************************************)
(* InProcessJobRunner, the job rows it moves and the reconciliation that   *)
(* build_container runs at start-up.                                       *)
(*                                                                         *)
(* A job is a row in the database and, in the engine that created it, an   *)
(* operation waiting in the executor's queue or held by a worker.  The row *)
(* survives a crash, the operation does not: reconcile_interrupted reads   *)
(* the rows left RUNNING, decides from the checkpoints which can resume,   *)
(* writes all of them, and only then are the resumable ones submitted.     *)
(***************************************************************************)
EXTENDS Naturals, Sequences, FiniteSets, SequencesExt

CONSTANTS
  Job,         \* job ids
  Resumable,   \* jobs whose type is in RESUME_REGISTRY
  Engine,      \* API processes sharing the database file
  MaxWorkers,  \* ECHODRAFT_MAX_CONCURRENT_JOBS
  MaxCrashes   \* bound: engine crashes

ASSUME JobsAssumption == Resumable \subseteq Job
ASSUME WorkersAssumption == MaxWorkers \in Nat \ {0} /\ MaxCrashes \in Nat

VARIABLES
  row,       \* JobRecord.status, "none" before the row exists
  ckpt,      \* jobs with orchestrator checkpoints
  phase,     \* how far each engine is in build_container
  found,     \* rows an engine's reconciliation read as RUNNING
  toResume,  \* those it re-queues
  queue,     \* each engine's executor queue, oldest first
  held,      \* where an engine's threads are with each job
  overlap,   \* whether two engines were ever up at once (history)
  crashes

vars == <<row, ckpt, phase, found, toResume, queue, held, overlap, crashes>>

Status == {"none", "queued", "running", "succeeded", "failed"}
Terminal == {"succeeded", "failed"}

\* created: the request thread has the row but has not called submit yet.
Working == {"taken", "running", "returned", "raised"}
Stage == {"none", "created", "waiting"} \cup Working

Phase == {"down", "read", "decided", "resuming", "serving"}

TypeOK ==
  /\ row \in [Job -> Status]
  /\ ckpt \subseteq Job
  /\ phase \in [Engine -> Phase]
  /\ found \in [Engine -> SUBSET Job]
  /\ toResume \in [Engine -> SUBSET Job]
  /\ queue \in [Engine -> Seq(Job)]
  /\ held \in [Engine -> [Job -> Stage]]
  /\ overlap \in BOOLEAN
  /\ crashes \in 0..MaxCrashes

Init ==
  /\ row = [j \in Job |-> "none"]
  /\ ckpt = {}
  /\ phase = [e \in Engine |-> "down"]
  /\ found = [e \in Engine |-> {}]
  /\ toResume = [e \in Engine |-> {}]
  /\ queue = [e \in Engine |-> <<>>]
  /\ held = [e \in Engine |-> [j \in Job |-> "none"]]
  /\ overlap = FALSE
  /\ crashes = 0
-----------------------------------------------------------------------------
\* JobRepository.transition's table of allowed targets.
Allowed(status) ==
  CASE status = "queued"  -> {"running"}
    [] status = "running" -> Terminal
    [] OTHER              -> {}

Transition(j, status) ==
  /\ status \in Allowed(row[j])
  /\ row' = [row EXCEPT ![j] = status]

Move(e, j, stage) == held' = [held EXCEPT ![e][j] = stage]

Workers(e) == Cardinality({j \in Job : held[e][j] \in Working})

\* enqueue: the row is committed as QUEUED.
Create(e, j) ==
  /\ phase[e] = "serving"
  /\ row[j] = "none"
  /\ row' = [row EXCEPT ![j] = "queued"]
  /\ Move(e, j, "created")
  /\ UNCHANGED <<ckpt, phase, found, toResume, queue, overlap, crashes>>

\* submit, submit_with_job: the operation goes to the executor.
Submit(e, j) ==
  /\ held[e][j] = "created"
  /\ queue' = [queue EXCEPT ![e] = Append(@, j)]
  /\ Move(e, j, "waiting")
  /\ UNCHANGED <<row, ckpt, phase, found, toResume, overlap, crashes>>

\* A free worker takes the oldest entry.
Take(e) ==
  /\ queue[e] # <<>>
  /\ Workers(e) < MaxWorkers
  /\ Move(e, Head(queue[e]), "taken")
  /\ queue' = [queue EXCEPT ![e] = Tail(@)]
  /\ UNCHANGED <<row, ckpt, phase, found, toResume, overlap, crashes>>

\* run_inline
Start(e, j) ==
  /\ held[e][j] = "taken"
  /\ Transition(j, "running")
  /\ Move(e, j, "running")
  /\ UNCHANGED <<ckpt, phase, found, toResume, queue, overlap, crashes>>

\* The refused transition's ValueError ends in the future nobody reads.
StartRefused(e, j) ==
  /\ held[e][j] = "taken"
  /\ "running" \notin Allowed(row[j])
  /\ Move(e, j, "none")
  /\ UNCHANGED <<row, ckpt, phase, found, toResume, queue, overlap, crashes>>

\* The operation upserts its first checkpoint; jobs of any type may.
Checkpoint(e, j) ==
  /\ held[e][j] = "running"
  /\ j \notin ckpt
  /\ ckpt' = ckpt \cup {j}
  /\ UNCHANGED <<row, phase, found, toResume, queue, held, overlap, crashes>>

\* Variant of OperationEnds: no except clause around the operation.
OperationEscapes(e, j) ==
  /\ held[e][j] = "running"
  /\ \E outcome \in {"returned", "none"} : Move(e, j, outcome)
  /\ UNCHANGED <<row, ckpt, phase, found, toResume, queue, overlap, crashes>>

OperationEnds(e, j) ==
  /\ held[e][j] = "running"
  /\ \E outcome \in {"returned", "raised"} : Move(e, j, outcome)
  /\ UNCHANGED <<row, ckpt, phase, found, toResume, queue, overlap, crashes>>

Outcome(e, j) == IF held[e][j] = "returned" THEN "succeeded" ELSE "failed"

Finish(e, j) ==
  /\ held[e][j] \in {"returned", "raised"}
  /\ Transition(j, Outcome(e, j))
  /\ Move(e, j, "none")
  /\ UNCHANGED <<ckpt, phase, found, toResume, queue, overlap, crashes>>

FinishRefused(e, j) ==
  /\ held[e][j] \in {"returned", "raised"}
  /\ Outcome(e, j) \notin Allowed(row[j])
  /\ Move(e, j, "none")
  /\ UNCHANGED <<row, ckpt, phase, found, toResume, queue, overlap, crashes>>
-----------------------------------------------------------------------------
\* Variant of ReconcileRead: every row, not only those RUNNING.
ReconcileReadAll(e) ==
  /\ phase[e] = "down"
  /\ phase' = [phase EXCEPT ![e] = "read"]
  /\ found' = [found EXCEPT ![e] = {j \in Job : row[j] # "none"}]
  /\ overlap' = (overlap \/ \E f \in Engine \ {e} : phase[f] # "down")
  /\ UNCHANGED <<row, ckpt, toResume, queue, held, crashes>>

\* reconcile_interrupted, phase 1: the ids of the RUNNING rows.
ReconcileRead(e) ==
  /\ phase[e] = "down"
  /\ phase' = [phase EXCEPT ![e] = "read"]
  /\ found' = [found EXCEPT ![e] = {j \in Job : row[j] = "running"}]
  /\ overlap' = (overlap \/ \E f \in Engine \ {e} : phase[f] # "down")
  /\ UNCHANGED <<row, ckpt, toResume, queue, held, crashes>>

\* Variant of ReconcileDecide: the type alone decides.
ReconcileDecideByType(e) ==
  /\ phase[e] = "read"
  /\ phase' = [phase EXCEPT ![e] = "decided"]
  /\ toResume' = [toResume EXCEPT ![e] = found[e] \cap Resumable]
  /\ UNCHANGED <<row, ckpt, found, queue, held, overlap, crashes>>

\* Phase 2: which of them have a resumable type and checkpoints.
ReconcileDecide(e) ==
  /\ phase[e] = "read"
  /\ phase' = [phase EXCEPT ![e] = "decided"]
  /\ toResume' = [toResume EXCEPT ![e] = found[e] \cap Resumable \cap ckpt]
  /\ UNCHANGED <<row, ckpt, found, queue, held, overlap, crashes>>

\* Variant of ReconcileApply: only the jobs to resume are written.
ReconcileApplyResumed(e) ==
  /\ phase[e] = "decided"
  /\ phase' = [phase EXCEPT ![e] = "resuming"]
  /\ row' = [j \in Job |-> IF j \in toResume[e] THEN "queued" ELSE row[j]]
  /\ found' = [found EXCEPT ![e] = {}]
  /\ UNCHANGED <<ckpt, toResume, queue, held, overlap, crashes>>

\* Phase 3: one transaction writes them all, whatever their status is by now.
ReconcileApply(e) ==
  /\ phase[e] = "decided"
  /\ phase' = [phase EXCEPT ![e] = "resuming"]
  /\ row' = [j \in Job |->
       IF j \in toResume[e] THEN "queued"
       ELSE IF j \in found[e] THEN "failed"
       ELSE row[j]]
  /\ found' = [found EXCEPT ![e] = {}]
  /\ UNCHANGED <<ckpt, toResume, queue, held, overlap, crashes>>

\* build_container's loop over the re-queued jobs.
Resume(e, j) ==
  /\ phase[e] = "resuming"
  /\ j \in toResume[e]
  /\ toResume' = [toResume EXCEPT ![e] = @ \ {j}]
  /\ queue' = [queue EXCEPT ![e] = Append(@, j)]
  /\ Move(e, j, "waiting")
  /\ UNCHANGED <<row, ckpt, phase, found, overlap, crashes>>

Serve(e) ==
  /\ phase[e] = "resuming"
  /\ toResume[e] = {}
  /\ phase' = [phase EXCEPT ![e] = "serving"]
  /\ UNCHANGED <<row, ckpt, found, toResume, queue, held, overlap, crashes>>

\* The process dies with its threads and its queue.
Crash(e) ==
  /\ phase[e] # "down"
  /\ crashes < MaxCrashes
  /\ crashes' = crashes + 1
  /\ phase' = [phase EXCEPT ![e] = "down"]
  /\ found' = [found EXCEPT ![e] = {}]
  /\ toResume' = [toResume EXCEPT ![e] = {}]
  /\ queue' = [queue EXCEPT ![e] = <<>>]
  /\ held' = [held EXCEPT ![e] = [j \in Job |-> "none"]]
  /\ UNCHANGED <<row, ckpt, overlap>>
-----------------------------------------------------------------------------
Handle(e, j) ==
  \/ Submit(e, j)
  \/ Start(e, j)
  \/ StartRefused(e, j)
  \/ OperationEnds(e, j)
  \/ Finish(e, j)
  \/ FinishRefused(e, j)

Boot(e) ==
  \/ ReconcileRead(e)
  \/ ReconcileDecide(e)
  \/ ReconcileApply(e)
  \/ \E j \in Job : Resume(e, j)
  \/ Serve(e)

EngineStep(e) ==
  \/ Boot(e)
  \/ Take(e)
  \/ \E j \in Job : Create(e, j) \/ Handle(e, j) \/ Checkpoint(e, j)
  \/ Crash(e)

Next == \E e \in Engine : EngineStep(e)

Spec == Init /\ [][Next]_vars

\* Threads are scheduled, operations return or raise (their provider calls
\* time out), and an engine that is down is started again.
Fairness ==
  \A e \in Engine :
    /\ WF_vars(Boot(e))
    /\ WF_vars(Take(e))
    /\ \A j \in Job : WF_vars(Handle(e, j))

FairSpec == Spec /\ Fairness
-----------------------------------------------------------------------------
Up(e) == phase[e] \in {"resuming", "serving"}

(***************************************************************************)
(* Once reconciliation is over, a RUNNING row has a worker in this engine: *)
(* no crash leaves a job "running" for ever (container.py 74-81).  Like    *)
(* the next two, it needs the engine to have the database to itself.       *)
(***************************************************************************)
RunningIsHeld ==
  ~overlap => \A e \in Engine : Up(e) =>
    \A j \in Job : row[j] = "running" =>
      held[e][j] \in {"running", "returned", "raised"}

(***************************************************************************)
(* What a thread has in hand agrees with the row, so that no transition is *)
(* ever refused: a refusal is silent, its ValueError stays in the future.  *)
(***************************************************************************)
RowMatchesThread ==
  ~overlap => \A e \in Engine, j \in Job :
    /\ held[e][j] \in {"created", "waiting", "taken"} => row[j] = "queued"
    /\ held[e][j] \in {"running", "returned", "raised"} => row[j] = "running"

(***************************************************************************)
(* jobs.py 12-13: "jobs beyond the limit stay queued (JobState.QUEUED)     *)
(* until a worker is free and run_inline transitions them to RUNNING", so  *)
(* a QUEUED row has an operation that will run: until an engine dies, for  *)
(* reconcile_interrupted never looks at the rows that were QUEUED then.    *)
(***************************************************************************)
QueuedIsHeld ==
  ~overlap /\ crashes = 0 => \A j \in Job : row[j] = "queued" =>
    \E e \in Engine : held[e][j] \in {"created", "waiting", "taken"}

(***************************************************************************)
(* Rows and threads agree, in both directions, with one engine at work.    *)
(***************************************************************************)
RowsMatchThreads ==
  /\ TypeOK
  /\ RunningIsHeld
  /\ RowMatchesThread
  /\ QueuedIsHeld

(***************************************************************************)
(* A finished job stays as it finished, although the last phase of the     *)
(* reconciliation writes status without looking at it.                     *)
(***************************************************************************)
TerminalIsFinal ==
  [][~overlap' => \A j \in Job : row[j] \in Terminal => row'[j] = row[j]]_vars

(***************************************************************************)
(* Only an interrupted job with checkpoints is queued again; every other   *)
(* interrupted job fails closed (repository.py 475-482).                   *)
(***************************************************************************)
OnlyCheckpointedResume ==
  [][\A j \in Job :
       row[j] = "running" /\ row'[j] = "queued" => j \in Resumable \cap ckpt]_vars

\* Reconciliation moves a row back only where a resumed job can go on from it.
RowsMoveForward == TerminalIsFinal /\ OnlyCheckpointedResume

\* No row stays RUNNING: the worker or a restarted engine settles it.
RunningIsSettled ==
  \A j \in Job : row[j] = "running" ~> row[j] # "running"

\* A job handed to the pool ends, unless its engine dies first.
HeldJobEnds ==
  \A e \in Engine, j \in Job : held[e][j] # "none" ~> held[e][j] = "none"

\* Nothing a user waits for hangs: not the row, not the thread behind it.
JobsSettle == RunningIsSettled /\ HeldJobEnds
=============================================================================
