--------------------------- MODULE JobRunnerProofs ---------------------------
(***************************************************************************)
(* Rows, threads and reconciliation of JobRunner, for any jobs, resumable  *)
(* types, engines, pool size and number of crashes.                        *)
(***************************************************************************)
EXTENDS JobRunner, TLAPS

\* Until two engines have been up at once, at most one is up.
OneEngine ==
  ~overlap => \A e, f \in Engine : e # f => phase[e] = "down" \/ phase[f] = "down"

\* An engine runs nothing before its reconciliation has been written.
BootIsIdle ==
  \A e \in Engine : ~Up(e) =>
    /\ queue[e] = <<>>
    /\ \A j \in Job : held[e][j] = "none"

\* What reconciliation works on exists only in the phases that use it.
BootLists ==
  \A e \in Engine :
    /\ phase[e] \notin {"read", "decided"} => found[e] = {}
    /\ phase[e] \notin {"decided", "resuming"} => toResume[e] = {}

\* Executor entries are the waiting operations, each once.
QueueIsWaiting ==
  \A e \in Engine :
    /\ \A i \in 1..Len(queue[e]) : held[e][queue[e][i]] = "waiting"
    /\ \A i, k \in 1..Len(queue[e]) : queue[e][i] = queue[e][k] => i = k

\* A job still to be resumed is in no thread's hands, and may resume.
ToResumeIsFree ==
  \A e \in Engine : \A j \in toResume[e] :
    held[e][j] = "none" /\ j \in Resumable \cap ckpt

\* What is found or in hand has a row.
RowExists ==
  \A e \in Engine, j \in Job :
    held[e][j] # "none" \/ j \in found[e] \cup toResume[e] => row[j] # "none"

\* Alone with the database, reconciliation's lists stay true until written.
ListsAreTrue ==
  ~overlap => \A e \in Engine :
    /\ phase[e] \in {"read", "decided"} => found[e] = {j \in Job : row[j] = "running"}
    /\ phase[e] = "decided" => toResume[e] \subseteq found[e]
    /\ phase[e] = "resuming" => \A j \in toResume[e] : row[j] = "queued"

\* The first engine finds no rows, so it has nothing to reconcile.
FirstBootIsClean ==
  crashes = 0 =>
    /\ (\A e \in Engine : phase[e] = "down") => \A j \in Job : row[j] = "none"
    /\ ~overlap => \A e \in Engine : found[e] = {} /\ toResume[e] = {}

IInv ==
  /\ TypeOK
  /\ OneEngine
  /\ BootIsIdle
  /\ BootLists
  /\ QueueIsWaiting
  /\ ToResumeIsFree
  /\ RowExists
  /\ ListsAreTrue
  /\ FirstBootIsClean
  /\ RunningIsHeld
  /\ RowMatchesThread
  /\ QueuedIsHeld
-----------------------------------------------------------------------------
\* Alone with the database, an engine at work is the only one that is up.
LEMMA Alone ==
  ASSUME IInv, ~overlap, NEW e \in Engine, Up(e)
  PROVE  \A f \in Engine : f # e =>
           phase[f] = "down" /\ ~Up(f) /\ \A j \in Job : held[f][j] = "none"
BY DEF IInv, OneEngine, BootIsIdle, Up

\* Only an engine that is up has operations in hand.
LEMMA BusyIsUp ==
  ASSUME IInv, NEW e \in Engine, NEW j \in Job, held[e][j] # "none"
  PROVE  Up(e)
BY DEF IInv, BootIsIdle

\* The first allowed transition of a row, and the second.
LEMMA AllowedRows ==
  \A status : /\ "running" \in Allowed(status) <=> status = "queued"
              /\ status \in {"queued", "running"} \/ Allowed(status) = {}
              /\ Allowed("running") = Terminal
BY DEF Allowed, Terminal

\* enqueue commits a QUEUED row that this thread has in hand.
LEMMA CreateIInv ==
  ASSUME IInv, NEW e \in Engine, NEW j \in Job, Create(e, j)
  PROVE  IInv'
<1> USE DEF IInv, TypeOK, Create, Move
<1>1. TypeOK'
  BY DEF Status, Stage, Working
<1>2. OneEngine' /\ BootLists'
  BY DEF OneEngine, BootLists
<1>3. BootIsIdle'
  BY DEF BootIsIdle, Up
<1>4. QueueIsWaiting'
  BY DEF QueueIsWaiting, RowExists
<1>5. ToResumeIsFree'
  BY DEF ToResumeIsFree, BootLists
<1>6. RowExists'
  BY DEF RowExists
<1>7. ListsAreTrue'
  BY DEF ListsAreTrue
<1>8. FirstBootIsClean'
  BY DEF FirstBootIsClean
<1>9. RunningIsHeld'
  BY DEF RunningIsHeld, Up
<1>10. RowMatchesThread'
  BY DEF RowMatchesThread
<1>11. QueuedIsHeld'
  BY DEF QueuedIsHeld
<1> QED
  BY <1>1, <1>2, <1>3, <1>4, <1>5, <1>6, <1>7, <1>8, <1>9, <1>10, <1>11

\* The operation joins the executor's queue.
LEMMA SubmitIInv ==
  ASSUME IInv, NEW e \in Engine, NEW j \in Job, Submit(e, j)
  PROVE  IInv'
<1> USE DEF IInv, TypeOK, Submit, Move
<1>1. TypeOK'
  BY DEF Stage, Working
<1>2. OneEngine' /\ BootLists' /\ ListsAreTrue' /\ FirstBootIsClean'
  BY DEF OneEngine, BootLists, ListsAreTrue, FirstBootIsClean
<1>3. BootIsIdle'
  BY DEF BootIsIdle, Up
<1>4. QueueIsWaiting'
  BY DEF QueueIsWaiting
<1>5. ToResumeIsFree'
  BY DEF ToResumeIsFree
<1>6. RowExists'
  BY DEF RowExists
<1>7. RunningIsHeld'
  BY DEF RunningIsHeld, Up
<1>8. RowMatchesThread'
  BY DEF RowMatchesThread
<1>9. QueuedIsHeld'
  BY DEF QueuedIsHeld
<1> QED
  BY <1>1, <1>2, <1>3, <1>4, <1>5, <1>6, <1>7, <1>8, <1>9

\* A worker takes the oldest entry, which was waiting.
LEMMA TakeIInv ==
  ASSUME IInv, NEW e \in Engine, Take(e)
  PROVE  IInv'
<1> USE DEF IInv, TypeOK, Take, Move
<1>0. Head(queue[e]) \in Job /\ held[e][Head(queue[e])] = "waiting"
  BY DEF QueueIsWaiting
<1>1. TypeOK'
  BY DEF Stage, Working
<1>2. OneEngine' /\ BootLists' /\ ListsAreTrue' /\ FirstBootIsClean'
  BY DEF OneEngine, BootLists, ListsAreTrue, FirstBootIsClean
<1>3. BootIsIdle'
  BY DEF BootIsIdle, Up
<1>4. QueueIsWaiting'
  BY DEF QueueIsWaiting
<1>5. ToResumeIsFree'
  BY <1>0 DEF ToResumeIsFree
<1>6. RowExists'
  BY <1>0 DEF RowExists
<1>7. RunningIsHeld'
  BY <1>0 DEF RunningIsHeld, RowMatchesThread, Up
<1>8. RowMatchesThread'
  BY <1>0 DEF RowMatchesThread
<1>9. QueuedIsHeld'
  BY <1>0 DEF QueuedIsHeld
<1> QED
  BY <1>1, <1>2, <1>3, <1>4, <1>5, <1>6, <1>7, <1>8, <1>9

\* run_inline makes the row RUNNING, and no other engine is at work.
LEMMA StartIInv ==
  ASSUME IInv, NEW e \in Engine, NEW j \in Job, Start(e, j)
  PROVE  IInv'
<1> USE DEF IInv, TypeOK, Start, Move, Transition, Allowed
<1>0. ~overlap => \A f \in Engine : f # e =>
        phase[f] = "down" /\ ~Up(f) /\ \A i \in Job : held[f][i] = "none"
  BY Alone, BusyIsUp
<1>1. TypeOK'
  BY DEF Status, Stage, Working
<1>2. OneEngine' /\ BootLists'
  BY DEF OneEngine, BootLists
<1>3. BootIsIdle'
  BY DEF BootIsIdle, Up
<1>4. QueueIsWaiting'
  BY DEF QueueIsWaiting
<1>5. ToResumeIsFree'
  BY DEF ToResumeIsFree
<1>6. RowExists'
  BY DEF RowExists
<1>7. ListsAreTrue'
  BY <1>0, BusyIsUp DEF ListsAreTrue, Up, BootLists, ToResumeIsFree
<1>8. FirstBootIsClean'
  BY DEF FirstBootIsClean
<1>9. RunningIsHeld'
  BY <1>0 DEF RunningIsHeld, Up
<1>10. RowMatchesThread'
  BY <1>0 DEF RowMatchesThread, Up
<1>11. QueuedIsHeld'
  BY <1>0 DEF QueuedIsHeld, Up
<1> QED
  BY <1>1, <1>2, <1>3, <1>4, <1>5, <1>6, <1>7, <1>8, <1>9, <1>10, <1>11

\* A transition to RUNNING is refused only when two engines share the row.
LEMMA StartRefusedIInv ==
  ASSUME IInv, NEW e \in Engine, NEW j \in Job, StartRefused(e, j)
  PROVE  IInv'
<1> USE DEF IInv, TypeOK, StartRefused, Move
<1>0. overlap
  BY AllowedRows DEF RowMatchesThread
<1>1. TypeOK'
  BY DEF Stage, Working
<1>2. OneEngine' /\ BootLists' /\ ListsAreTrue' /\ FirstBootIsClean'
  BY DEF OneEngine, BootLists, ListsAreTrue, FirstBootIsClean
<1>3. BootIsIdle'
  BY DEF BootIsIdle, Up
<1>4. QueueIsWaiting'
  BY DEF QueueIsWaiting
<1>5. ToResumeIsFree'
  BY DEF ToResumeIsFree
<1>6. RowExists'
  BY DEF RowExists
<1>7. RunningIsHeld'
  BY <1>0 DEF RunningIsHeld
<1>8. RowMatchesThread'
  BY <1>0 DEF RowMatchesThread
<1>9. QueuedIsHeld'
  BY <1>0 DEF QueuedIsHeld
<1> QED
  BY <1>1, <1>2, <1>3, <1>4, <1>5, <1>6, <1>7, <1>8, <1>9

\* The operation returns or raises; the row is not yet written.
LEMMA OperationEndsIInv ==
  ASSUME IInv, NEW e \in Engine, NEW j \in Job, OperationEnds(e, j)
  PROVE  IInv'
<1> USE DEF IInv, TypeOK, OperationEnds, Move
<1>1. TypeOK'
  BY DEF Stage, Working
<1>2. OneEngine' /\ BootLists' /\ ListsAreTrue' /\ FirstBootIsClean'
  BY DEF OneEngine, BootLists, ListsAreTrue, FirstBootIsClean
<1>3. BootIsIdle'
  BY DEF BootIsIdle, Up
<1>4. QueueIsWaiting'
  BY DEF QueueIsWaiting
<1>5. ToResumeIsFree'
  BY DEF ToResumeIsFree
<1>6. RowExists'
  BY DEF RowExists
<1>7. RunningIsHeld'
  BY DEF RunningIsHeld, Up
<1>8. RowMatchesThread'
  BY DEF RowMatchesThread
<1>9. QueuedIsHeld'
  BY SMTT(30) DEF QueuedIsHeld, ListsAreTrue
<1> QED
  BY <1>1, <1>2, <1>3, <1>4, <1>5, <1>6, <1>7, <1>8, <1>9

\* The row ends and the thread lets it go.
LEMMA FinishIInv ==
  ASSUME IInv, NEW e \in Engine, NEW j \in Job, Finish(e, j)
  PROVE  IInv'
<1> USE DEF IInv, TypeOK, Finish, Move, Transition, Allowed
<1>0. ~overlap => \A f \in Engine : f # e =>
        phase[f] = "down" /\ ~Up(f) /\ \A i \in Job : held[f][i] = "none"
  BY Alone, BusyIsUp
<1>1. TypeOK'
  BY DEF Status, Terminal, Stage, Working, Phase
<1>2. OneEngine' /\ BootLists'
  BY DEF OneEngine, BootLists
<1>3. BootIsIdle'
  BY DEF BootIsIdle, Up
<1>4. QueueIsWaiting'
  BY DEF QueueIsWaiting
<1>5. ToResumeIsFree'
  BY DEF ToResumeIsFree
<1>6. RowExists'
  BY AllowedRows DEF RowExists, Outcome
<1>7. ListsAreTrue'
  BY <1>0, BusyIsUp DEF ListsAreTrue, Up, BootLists, ToResumeIsFree, Outcome, Terminal
<1>8. FirstBootIsClean'
  BY DEF FirstBootIsClean
<1>9. RunningIsHeld'
  BY <1>0 DEF RunningIsHeld, Up, Outcome, Terminal
<1>10. RowMatchesThread'
  BY <1>0 DEF RowMatchesThread, Up, Outcome, Terminal
<1>11. QueuedIsHeld'
  BY <1>0 DEF QueuedIsHeld, Up, Outcome, Terminal
<1> QED
  BY <1>1, <1>2, <1>3, <1>4, <1>5, <1>6, <1>7, <1>8, <1>9, <1>10, <1>11

\* A terminal transition is refused only when two engines share the row.
LEMMA FinishRefusedIInv ==
  ASSUME IInv, NEW e \in Engine, NEW j \in Job, FinishRefused(e, j)
  PROVE  IInv'
<1> USE DEF IInv, TypeOK, FinishRefused, Move
<1>0. overlap
  BY AllowedRows DEF RowMatchesThread, Outcome, Terminal
<1>1. TypeOK'
  BY DEF Stage, Working
<1>2. OneEngine' /\ BootLists' /\ ListsAreTrue' /\ FirstBootIsClean'
  BY DEF OneEngine, BootLists, ListsAreTrue, FirstBootIsClean
<1>3. BootIsIdle'
  BY DEF BootIsIdle, Up
<1>4. QueueIsWaiting'
  BY DEF QueueIsWaiting
<1>5. ToResumeIsFree'
  BY DEF ToResumeIsFree
<1>6. RowExists'
  BY DEF RowExists
<1>7. RunningIsHeld'
  BY <1>0 DEF RunningIsHeld
<1>8. RowMatchesThread'
  BY <1>0 DEF RowMatchesThread
<1>9. QueuedIsHeld'
  BY <1>0 DEF QueuedIsHeld
<1> QED
  BY <1>1, <1>2, <1>3, <1>4, <1>5, <1>6, <1>7, <1>8, <1>9

\* Checkpoints are only added.
LEMMA CheckpointIInv ==
  ASSUME IInv, NEW e \in Engine, NEW j \in Job, Checkpoint(e, j)
  PROVE  IInv'
<1> USE DEF IInv, TypeOK, Checkpoint
<1>1. TypeOK'
  OBVIOUS
<1>2. OneEngine' /\ BootIsIdle' /\ BootLists' /\ QueueIsWaiting' /\ RowExists' /\ ListsAreTrue' /\ FirstBootIsClean' /\ RunningIsHeld' /\ RowMatchesThread' /\ QueuedIsHeld'
  BY DEF Up, OneEngine, BootIsIdle, BootLists, QueueIsWaiting, RowExists, ListsAreTrue, FirstBootIsClean, RunningIsHeld, RowMatchesThread, QueuedIsHeld
<1>3. ToResumeIsFree'
  BY DEF ToResumeIsFree
<1> QED
  BY <1>1, <1>2, <1>3

\* Reading the RUNNING rows: alone, or marked as an overlap.
LEMMA ReconcileReadIInv ==
  ASSUME IInv, NEW e \in Engine, ReconcileRead(e)
  PROVE  IInv'
<1> USE DEF IInv, TypeOK, ReconcileRead
<1>1. TypeOK'
  BY DEF Phase
<1>2. QueueIsWaiting' /\ ToResumeIsFree'
  BY DEF QueueIsWaiting, ToResumeIsFree
<1>3. OneEngine'
  BY DEF OneEngine
<1>4. BootIsIdle'
  BY DEF BootIsIdle, Up
<1>5. BootLists'
  BY DEF BootLists
<1>6. RowExists'
  BY DEF RowExists
<1>7. ListsAreTrue'
  BY DEF ListsAreTrue
<1>8. FirstBootIsClean'
  BY DEF FirstBootIsClean
<1>9. RunningIsHeld'
  BY DEF RunningIsHeld, Up
<1>10. RowMatchesThread'
  BY DEF RowMatchesThread
<1>11. QueuedIsHeld'
  BY DEF QueuedIsHeld
<1> QED
  BY <1>1, <1>2, <1>3, <1>4, <1>5, <1>6, <1>7, <1>8, <1>9, <1>10, <1>11

\* Deciding which may resume.
LEMMA ReconcileDecideIInv ==
  ASSUME IInv, NEW e \in Engine, ReconcileDecide(e)
  PROVE  IInv'
<1> USE DEF IInv, TypeOK, ReconcileDecide
<1>1. TypeOK'
  BY DEF Phase
<1>2. QueueIsWaiting' /\ RowMatchesThread' /\ QueuedIsHeld'
  BY DEF QueueIsWaiting, RowMatchesThread, QueuedIsHeld
<1>3. OneEngine'
  BY DEF OneEngine
<1>4. BootIsIdle'
  BY DEF BootIsIdle, Up
<1>5. BootLists'
  BY DEF BootLists
<1>6. ToResumeIsFree'
  BY DEF ToResumeIsFree, BootIsIdle, Up
<1>7. RowExists'
  BY DEF RowExists
<1>8. ListsAreTrue'
  BY DEF ListsAreTrue
<1>9. FirstBootIsClean'
  BY DEF FirstBootIsClean
<1>10. RunningIsHeld'
  BY DEF RunningIsHeld, Up
<1> QED
  BY <1>1, <1>2, <1>3, <1>4, <1>5, <1>6, <1>7, <1>8, <1>9, <1>10

\* The write that moves rows back: alone, they are still RUNNING.
LEMMA ReconcileApplyIInv ==
  ASSUME IInv, NEW e \in Engine, ReconcileApply(e)
  PROVE  IInv'
<1> USE DEF IInv, TypeOK, ReconcileApply
<1>0. ~overlap => \A f \in Engine, i \in Job : held[f][i] = "none"
  BY ZenonT(60), Alone, BusyIsUp DEF Up, BootIsIdle, OneEngine
<1>1. TypeOK'
  BY DEF Status, Terminal, Stage, Working, Phase
<1>2. QueueIsWaiting' /\ ToResumeIsFree'
  BY DEF QueueIsWaiting, ToResumeIsFree
<1>3. OneEngine'
  BY DEF OneEngine
<1>4. BootIsIdle'
  BY DEF BootIsIdle, Up
<1>5. BootLists'
  BY DEF BootLists
<1>6. RowExists'
  BY DEF RowExists
<1>7. ListsAreTrue'
  BY DEF ListsAreTrue, OneEngine
<1>8. FirstBootIsClean'
  BY DEF FirstBootIsClean
<1>9. RunningIsHeld'
  BY DEF RunningIsHeld, ListsAreTrue, Up
<1>10. RowMatchesThread'
  BY <1>0 DEF RowMatchesThread
<1>11. QueuedIsHeld'
  BY DEF QueuedIsHeld, FirstBootIsClean
<1> QED
  BY <1>1, <1>2, <1>3, <1>4, <1>5, <1>6, <1>7, <1>8, <1>9, <1>10, <1>11

\* A re-queued job joins the executor's queue.
LEMMA ResumeIInv ==
  ASSUME IInv, NEW e \in Engine, NEW j \in Job, Resume(e, j)
  PROVE  IInv'
<1> USE DEF IInv, TypeOK, Resume, Move
<1>1. TypeOK'
  BY DEF Stage, Working
<1>2. OneEngine'
  BY DEF OneEngine
<1>3. BootIsIdle'
  BY DEF BootIsIdle, Up
<1>4. BootLists'
  BY DEF BootLists
<1>5. QueueIsWaiting'
  BY DEF QueueIsWaiting, ToResumeIsFree
<1>6. ToResumeIsFree'
  BY DEF ToResumeIsFree
<1>7. RowExists'
  BY DEF RowExists
<1>8. ListsAreTrue'
  BY DEF ListsAreTrue
<1>9. FirstBootIsClean'
  BY DEF FirstBootIsClean
<1>10. RunningIsHeld'
  BY DEF RunningIsHeld, ListsAreTrue, Up
<1>11. RowMatchesThread'
  BY DEF RowMatchesThread, ListsAreTrue
<1>12. QueuedIsHeld'
  BY DEF QueuedIsHeld
<1> QED
  BY <1>1, <1>2, <1>3, <1>4, <1>5, <1>6, <1>7, <1>8, <1>9, <1>10, <1>11, <1>12

\* Nothing is left to resume.
LEMMA ServeIInv ==
  ASSUME IInv, NEW e \in Engine, Serve(e)
  PROVE  IInv'
<1> USE DEF IInv, TypeOK, Serve
<1>1. TypeOK'
  BY DEF Phase
<1>2. QueueIsWaiting' /\ ToResumeIsFree' /\ RowExists' /\ RowMatchesThread' /\ QueuedIsHeld'
  BY DEF QueueIsWaiting, ToResumeIsFree, RowExists, RowMatchesThread, QueuedIsHeld
<1>3. OneEngine'
  BY DEF OneEngine
<1>4. BootIsIdle'
  BY DEF BootIsIdle, Up
<1>5. BootLists'
  BY DEF BootLists
<1>6. ListsAreTrue'
  BY DEF ListsAreTrue
<1>7. FirstBootIsClean'
  BY DEF FirstBootIsClean
<1>8. RunningIsHeld'
  BY DEF RunningIsHeld, Up
<1> QED
  BY <1>1, <1>2, <1>3, <1>4, <1>5, <1>6, <1>7, <1>8

\* Threads and queue go, the rows stay.
LEMMA CrashIInv ==
  ASSUME IInv, NEW e \in Engine, Crash(e)
  PROVE  IInv'
<1> USE DEF IInv, TypeOK, Crash
<1>1. TypeOK'
  BY WorkersAssumption DEF Phase, Stage
<1>2. OneEngine'
  BY DEF OneEngine
<1>3. BootIsIdle'
  BY DEF BootIsIdle, Up
<1>4. BootLists'
  BY DEF BootLists
<1>5. QueueIsWaiting'
  BY DEF QueueIsWaiting
<1>6. ToResumeIsFree'
  BY DEF ToResumeIsFree
<1>7. RowExists'
  BY DEF RowExists
<1>8. ListsAreTrue'
  BY DEF ListsAreTrue
<1>9. FirstBootIsClean'
  BY DEF FirstBootIsClean
<1>10. RunningIsHeld'
  BY DEF RunningIsHeld, Up
<1>11. RowMatchesThread'
  BY DEF RowMatchesThread
<1>12. QueuedIsHeld'
  BY DEF QueuedIsHeld
<1> QED
  BY <1>1, <1>2, <1>3, <1>4, <1>5, <1>6, <1>7, <1>8, <1>9, <1>10, <1>11, <1>12
-----------------------------------------------------------------------------
\* Nothing exists before the first engine boots.
LEMMA InitIInv == Init => IInv
<1> SUFFICES ASSUME Init PROVE IInv
  OBVIOUS
<1> USE DEF Init
<1>1. TypeOK
  <2>1. crashes \in 0..MaxCrashes
    BY WorkersAssumption
  <2>2. queue \in [Engine -> Seq(Job)]
    OBVIOUS
  <2>3. held \in [Engine -> [Job -> Stage]] /\ row \in [Job -> Status]
    BY DEF Stage, Status
  <2> QED
    BY <2>1, <2>2, <2>3 DEF TypeOK, Phase
<1>2. OneEngine /\ BootIsIdle /\ BootLists /\ QueueIsWaiting
  BY DEF OneEngine, BootIsIdle, BootLists, QueueIsWaiting, Up
<1>3. ToResumeIsFree /\ RowExists /\ ListsAreTrue /\ FirstBootIsClean
  BY DEF ToResumeIsFree, RowExists, ListsAreTrue, FirstBootIsClean
<1>4. RunningIsHeld /\ RowMatchesThread /\ QueuedIsHeld
  BY DEF RunningIsHeld, RowMatchesThread, QueuedIsHeld
<1> QED
  BY <1>1, <1>2, <1>3, <1>4 DEF IInv

\* Every step keeps the invariant.
LEMMA NextIInv == IInv /\ [Next]_vars => IInv'
<1> SUFFICES ASSUME IInv, [Next]_vars PROVE IInv'
  OBVIOUS
<1>1. ASSUME NEW e \in Engine, Boot(e) PROVE IInv'
  BY <1>1, ReconcileReadIInv, ReconcileDecideIInv, ReconcileApplyIInv, ResumeIInv, ServeIInv
     DEF Boot
<1>2. ASSUME NEW e \in Engine, NEW j \in Job, Handle(e, j) PROVE IInv'
  BY <1>2, SubmitIInv, StartIInv, StartRefusedIInv, OperationEndsIInv, FinishIInv,
     FinishRefusedIInv DEF Handle
<1>3. ASSUME NEW e \in Engine, EngineStep(e) PROVE IInv'
  BY <1>1, <1>2, <1>3, TakeIInv, CreateIInv, CheckpointIInv, CrashIInv DEF EngineStep
<1>4. CASE UNCHANGED vars
  BY <1>4 DEF vars, IInv, TypeOK, OneEngine, BootIsIdle, BootLists, QueueIsWaiting,
     ToResumeIsFree, RowExists, ListsAreTrue, FirstBootIsClean, RunningIsHeld,
     RowMatchesThread, QueuedIsHeld, Up
<1> QED
  BY <1>3, <1>4 DEF Next

\* The invariant holds in every reachable state.
THEOREM Invariance == Spec => []IInv
<1>1. Init => IInv
  BY InitIInv
<1>2. IInv /\ [Next]_vars => IInv'
  BY NextIInv
<1> QED
  BY <1>1, <1>2, PTL DEF Spec

\* container.py 74-81 with run_inline: with one engine at a time, every RUNNING
\* row has a worker once reconciliation is over, no transition a thread makes is
\* refused, and until a first crash every QUEUED row has an operation to run it.
THEOREM RowsFollowThreads == Spec => []RowsMatchThreads
<1>1. IInv => RowsMatchThreads
  BY DEF IInv, RowsMatchThreads
<1> QED
  BY <1>1, Invariance, PTL

-----------------------------------------------------------------------------
\* What one step does to a row, as the two action properties see it.
LEMMA RowStep ==
  ASSUME IInv, Next
  PROVE  /\ ~overlap' => \A j \in Job : row[j] \in Terminal => row'[j] = row[j]
         /\ \A j \in Job :
              row[j] = "running" /\ row'[j] = "queued" => j \in Resumable \cap ckpt
<1> DEFINE Kept ==
      /\ ~overlap' => \A j \in Job : row[j] \in Terminal => row'[j] = row[j]
      /\ \A j \in Job :
           row[j] = "running" /\ row'[j] = "queued" => j \in Resumable \cap ckpt
<1> SUFFICES Kept
  OBVIOUS
<1> USE DEF IInv, TypeOK, Terminal
<1>1. ASSUME UNCHANGED row PROVE Kept
  BY <1>1
<1>2. ASSUME NEW e \in Engine, NEW j \in Job, Create(e, j) PROVE Kept
  BY <1>2 DEF Create
<1>3. ASSUME NEW e \in Engine, NEW j \in Job, Start(e, j) PROVE Kept
  BY <1>3, AllowedRows DEF Start, Transition
<1>4. ASSUME NEW e \in Engine, NEW j \in Job, Finish(e, j) PROVE Kept
  BY <1>4, AllowedRows DEF Finish, Transition, Outcome
<1>5. ASSUME NEW e \in Engine, ReconcileApply(e) PROVE Kept
  <2>1. \A j \in toResume[e] : j \in Resumable \cap ckpt
    BY DEF ToResumeIsFree
  <2>2. ~overlap => \A j \in found[e] \cup toResume[e] : row[j] = "running"
    BY <1>5 DEF ReconcileApply, ListsAreTrue
  <2> QED
    BY <1>5, <2>1, <2>2 DEF ReconcileApply
<1> HIDE DEF Kept
<1>6. PICK e \in Engine : EngineStep(e)
  BY DEF Next
<1>7. CASE Boot(e)
  <2>1. ReconcileApply(e) \/ UNCHANGED row
    BY <1>7 DEF Boot, ReconcileRead, ReconcileDecide, Resume, Serve
  <2> QED
    BY <1>1, <1>5, <2>1
<1>8. CASE Take(e) \/ Crash(e)
  BY <1>1, <1>8 DEF Take, Crash
<1>9. ASSUME NEW j \in Job, Create(e, j) \/ Handle(e, j) \/ Checkpoint(e, j) PROVE Kept
  BY <1>1, <1>2, <1>3, <1>4, <1>9
     DEF Handle, Submit, StartRefused, OperationEnds, FinishRefused, Checkpoint
<1> QED
  BY <1>6, <1>7, <1>8, <1>9 DEF EngineStep

\* repository.py 475-482: with one engine at a time a finished job stays as it
\* finished, and whatever else happens only an interrupted job of a resumable
\* type with checkpoints is queued again.
THEOREM RowsNeverGoBack == Spec => RowsMoveForward
<1>1. IInv /\ [Next]_vars =>
        [~overlap' => \A j \in Job : row[j] \in Terminal => row'[j] = row[j]]_vars
  BY RowStep
<1>2. IInv /\ [Next]_vars =>
        [\A j \in Job :
           row[j] = "running" /\ row'[j] = "queued" => j \in Resumable \cap ckpt]_vars
  BY RowStep
<1> QED
  BY <1>1, <1>2, Invariance, PTL
     DEF Spec, RowsMoveForward, TerminalIsFinal, OnlyCheckpointedResume
=============================================================================
