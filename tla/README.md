# Echodraft, modelled in TLA+

Echodraft turns a manuscript into an audiobook on one machine: a FastAPI engine
imports a source, extracts its structure, casts voices, renders every segment
with a local text-to-speech engine, assembles chapters, checks them and exports
a package. State lives in one SQLite file and in an artifact directory; work
runs in threads of the engine. This directory holds TLA+ modules of that
engine, the TLC configurations that check them and TLAPS proofs.

Paths below are relative to `src/`; `api` is
`apps/api/src/echodraft_api` and `db` is `libs/db/src/echodraft_db`.

## 1. The system

| component | state it keeps | operations | what is hard |
|---|---|---|---|
| Segment renderer (`api/rendering.py`) | `segment_renders` rows, audio files, one lock per segment and process | `render`, `compare`, `history` | key computed before the lock; cache checked twice; one writer per database, many processes; QA after the commit |
| Job runner (`api/jobs.py`, `db/repository.py` 424-574) | `jobs` rows, the executor's queue, its workers | `enqueue`, `submit`, `run_inline`, `resume` | the row survives a crash and the operation does not |
| Start-up (`api/container.py`, `api/resume.py`) | none of its own | `reconcile_interrupted`, the resume loop | three phases, each may be the last thing an engine does |
| Chapter production (`api/production.py`) | settings, overrides, `render_queue_items` | `status`, `produce` | inputs read once, segments rendered one by one |
| Assembly (`api/assembly.py`) | `chapter_renders`, one lock per chapter | `assemble`, `active` | inputs resolved row by row while renders land |
| Patching and QA (`api/review.py`, `db/review.py`) | `issues`, `patch_attempts` | `patch_segment`, `qa_segment`, `qa_chapter` | several transactions per request |
| Review workbench (`api/review_workbench.py`, `api/issue_actions.py`) | `issues`, `chapter_approvals` | timeline, issue actions, `approve_chapter` | what was heard against what is active |
| Readiness and export (`api/readiness.py`, `api/exporting.py`) | reports, packages, a staging directory | `run`, `plan`, `export` | plan, files, rename and record are separate steps |
| Local LLM (`api/local_llm.py`, `api/orchestrator`) | `llm_runs`, `inference_cache`, `job_checkpoints` | `extract` | retry, cache and checkpoint written one after the other |
| Pools (`api/orchestrator/pools.py`) | thread pools, one writer lock, model leases nothing takes | `run` | a bounded pool in front of a blocking pipe |
| Structure rows (`api/structure.py`, `db/repository.py` 785-1195) | chapters, scenes, segments, locks | `replace`, `split`, `merge`, `update`, `set_lock` | renumbering; rows other tables point at |
| Structure from text (`api/structure_parsing.py`, `api/structure_v2.py`) | none | lines to chapters and scenes, text to atoms and segments, chunks, seams, coverage | no piece of the text may be lost or told twice |
| TTS workers (`api/tts_worker.py`) | hosts, a subprocess per worker and its pipe | `synthesize`, `stop`, `stop_all` | restart, retry and new settings at the same time |
| Casting (`api/cast_discovery.py`, `api/automatic_casting.py`, `api/cast_v2.py`) | characters, aliases, voices, decisions | discovery, merge, cast | merges of merges, locked voices |
| Attribution (`api/speaker_attribution.py`, `api/attribution_v2.py`, `api/confidence.py`) | attributions, review tasks | rules, votes, repairs, tiers, propagation | what a person confirmed must survive a rerun |
| Direction and sound (`api/direction.py`, `api/sound_planner.py`, `api/atmosphere.py`) | directions, profiles, cues | inference, plans, mutes | a plan works from what it read long ago |
| Ingestion (`api/ingestion.py`, `api/cleaning.py`) | sources, pages, clean text | import, reparse | passes that see each other's work; two imports of one project |
| Event stream (`api/main.py` 813-880) | `job_events` | SSE with a cursor | rows written between two reads |
| Local AI setup, database layer, web UI | | | tools, schema, a client |

Interaction. Request threads and job workers call the services directly; there
is no message bus. They meet in the database (every repository call is one
short transaction, and under SQLite every `SELECT` outside a write transaction
sees its own snapshot), in two tables of in-process locks (segments and
chapters), in the worker pools and in the artifact directory. A job is created
by a request, run by a pool thread, and observed by polling or by the event
stream. `produce` and `patch_segment` call the renderer, then the assembler;
the renderer and the assembler call QA; readiness, approval and export read
what the others have committed.

What makes it hard: steps of two threads between two transactions of one
request; a crash between any two of them, after which start-up repairs only job
rows; a cache that answers with a row which is not the latest, while everything
downstream reads the latest.

`PROJECT.json` lists every component with its status, and every hazard at the
line where it bites.

## 2. Modules

### SegmentRender, RenderHistory

`SegmentRender` is `SegmentRenderer.render` for one segment.

| code | model |
|---|---|
| `segment_renders` rows with status `succeeded`, in `created_at` order | `renders`, a sequence of rows `id`, `key`, `parent` |
| render directory `.../{render_id}/` with `speech.wav` | membership of the id in `files` |
| `_render_locks[segment_id]` in each process | `lock[p]` |
| lines 40-69: read the segment, hash the payload | `Prepare` (after `Resolve`, the caller's part) |
| 70-85 | `EnterHit`, `EnterMiss`: take the lock, first cache check |
| 86-123 | `Synthesize` |
| 124-144, `BEGIN IMMEDIATE` to commit | `CommitHit`, `CommitInsert`, one step each |
| an exception between the two cache checks and the commit | `SynthesisFails`: the lock is given back |
| 147 | `QaSegment`, after the lock is released: it checks the row, returns before it has (`api/review.py` 62, `api/asr_verification.py` 92) or raises |
| a process that dies | `Crash(p)`: threads and locks go, rows and files stay |

The key is abstracted to revision, inputs and nonce: the payload's other fields
are functions of these, and a forced request carries a fresh `uuid4`. Audio,
metadata and resampling are data. What QA finds is not part of the module: the row is there whether QA ran,
returned early or raised. Commit order and `created_at` order are the
same because the timestamp is taken at the flush inside the write transaction;
a wall clock set back between two renders is not modelled.

`RenderHistory` is what a reader of the table may rely on: a log that only
grows, where every entry names its predecessor and no key comes twice.
`RefinesHistory` says that `SegmentRender` implements it with `log <- renders`.

### JobRunner

Job rows, the executor of each engine (a FIFO queue and `MaxWorkers` threads)
and the three phases of `reconcile_interrupted`, each a step of its own because
each runs in its own session, followed by the resume loop of `build_container`
and by `Serve`. `StartRefused` and `FinishRefused` are the `ValueError` that
`transition` raises into a future nobody reads. Jobs of any type may record
checkpoints; only those in `RESUME_REGISTRY` resume. `CANCELLED` is in the
transition table but nothing in the engine moves a job there, so it is left
out, as are progress payloads and error texts.

`overlap` is a history variable: whether two engines were ever up on the
database at once. `RowsMatchThreads` and `RowsMoveForward` are stated while it
is false: reconciliation cannot tell a dead engine from another live one, and
fails, or queues again, what the live one is running. That a QUEUED row has a
thread to run it is stated up to the first crash only: a job that waited when
the engine died stays `queued`.

### ChapterProduction

`produce` and `patch_segment` over a chapter of `N` segments, with the
renderer at the grain its callers see: `RenderKey` (the segment row is read)
and `RenderReturns` (the cached row, or a new one, in one step). Assembly takes
the chapter's lock, reads the segment rows once (`AssembleBegin`), then the
newest render of each segment in a query of its own (`AssembleInput`), and
refuses a segment with no render or with a render of another revision
(`AssembleFails`); `AssembleCommit` stands for the files and the row. The
chapter has one scene. Failures before anything is written (no narrator voice,
provider not ready) are left out, and so are the mastering and the checks of
the WAV; the layout of the mix is in `SoundMix`.

### StructureEdit

The segments of one chapter and everything that edits them. The canonical text
is a sequence of atoms; `Parse` is the set of hierarchies the parser and the
LLM may make of it.

| code | model |
|---|---|
| `segments` rows | `segs`, by id; a parser's id is the span it covers (`stable_id` hashes source, offsets and text), a split's is fresh |
| `scenes` rows | `scenes`, spans in reading order |
| succeeded renders of a segment | `renders[i]`: text spoken, revision |
| rows of other tables that point at a segment | `attributed` |
| `update_segment`, `set_lock`, `split_segment`, `merge_segments` | actions of the same names, one transaction each |
| `replace` 789-835, before the first write | `ReplaceRead`: rows loaded |
| `replace` 836-938, first write to commit | `ReplaceCommit`, or `ReplaceFails` when a loaded row is gone or a row still refers to a scene to delete |

Python's `sqlite3` opens the transaction at the first write, so what `replace`
has loaded may be out of date when it writes; SQLAlchemy updates only the
columns that differ from what was loaded (`Changed`). `raced` and `rewound` are
history variables: whether an edit committed inside a replace, and whether a
replace set a revision back. The order in which the query for locked rows
returns them is not defined and is a choice (`turn`). Titles, speaker hints,
revision snapshots, offsets inside a text and direction rows are left out.

### LlmExtraction

`LocalLlmService.extract`, called by one thread per batch under
`StructureService._refine_hierarchy`.

| code | model |
|---|---|
| `jobs.status` of a `structure.extract` | `job[j]`; `persisted` is RUNNING with the structure saved |
| where the thread of a batch is in `extract` | `pc`, `got`, `retries` |
| `job_checkpoints` | `ckpt`, by (job, batch) |
| `inference_cache` | `cache`, by batch: model, schema and seed are fixed, the prompt is the batch |
| `llm_runs` | `runs`, the rows each unit opened |
| lines 250-261; 287-329; 330-381; 383-401 | `OpenRun`; `CacheHit`, `CompleteRun`, `MarkDone`; `CacheMiss` to `MarkDone`; `MarkFailed`, `FailRun` |
| `_refine_hierarchy` 252-390 and `replace` | `NextBatch`, `Accepted`, `Save` |

Each write is a step, and each may raise: inside the `try` the thread goes to
the handler (`WriteFails`), elsewhere, the handler included, the exception is
no `ValueError` and the job fails (`ThreadBreaks`, `JobFails`). An answer either
satisfies the schema or not, and one that does may still be refused by
`_validated_atom_refinement` (`Usable`). After a crash reconciliation is the
step `JobRunner` models in detail, and a job it queued again is resumed.
Progress rows, the prompt and response files, and refusals before the run row
exists (no source, model not installed) are left out; what the structure-v2
pipeline makes of its answers is in `StructureMap`.

### TtsWorkers

The resident speech workers. `HostForKey` is `_host_for_key`, `Assign` and
`PoolTakes` are `EngineHost.run` and `AdaptiveWorkerPool.run`, `EnsureStarted`
to `Finish` are `ManagedKokoroWorker.synthesize` with its lock, its two
attempts and the pipe; `StopAll` and `Adapt` are the two halves of saving
settings. `stop` takes no lock, so it is two steps (`StopReads`, `StopKills`)
that any thread may take at any time. `Serve` and `Fault` are the process: it
answers, refuses, dies, or writes a line that is no JSON.

`WorkersAreSafe` says that an answer is the answer to one's own text, that one
thread reads a pipe, and which processes may be alive: those of the current
host, those on their way out, and those of a host that was retired while a call
was using it, which is the one case where a process outlives everybody who
could stop it.

### ReviewDesk, AudioQa

Issue rows, readiness runs, approvals and exports. A readiness run collects its
verdicts from one reading of the project (`Drafts`, in the order of the code)
and then takes one step per database session: `Refresh`, `Reopen`,
`LookInVain`, `Insert`, `LookPassed`, `Resolve`, `Store`. Reviewers, other
runs, renders, exports and crashes act in between. The facts a check queries
(is there a narrator, is the toolchain there) are values of `world` that the
rest of the program may change at any time. An export is `PlanExport`, `Stage`,
`Fill`, `Publish` (the rename) and `Record` (the row).

`AudioQa` is what the program decides from one decoded file: silent and
dead-air ranges, the findings of a chapter and of a segment, the readiness
checks of a chapter and the verdict on a transcript.

### SoundDesk, SoundPlan, SoundMix

`SoundDesk` is a chapter between direction and mix. A plan reads profiles and
the timeline, then the cue rows, then works row by row (`PlanBegin`,
`PlanFill`, `PlanRead`, `PlaceCue`, `PlaceWrite`, `PlanEnd`); profiles and
directions are read, inferred and written in the same way.

| code | model |
|---|---|
| `upsert` of a direction, up to its first write | `UpsertDirection`: the row and its lock are read, `write[w]` is what is to be committed |
| its `commit` | `CommitDirection`: the columns that differ from what was read (`Merged`); a second insert of one segment is refused |
| `segment_direction` (a GET) | `ReadDirection`, then `CreateDirection`, which reads again and writes a manual default |
| `session.get` and the lock check of `_materialize` 530-532 | `Reread`, in the step of `PlaceCue` |
| `_apply_cue` and its `commit` | `PlaceWrite`; a row deleted meanwhile makes the plan fail |
| the delete by ids of 560-562 | `PlanEnd` |

`met`, `alone` and `twice` are history: whether two plans were ever at work at
once, whether another plan wrote while this one did, and whether a plan ever
had two cues of one key, which is what a profile that names a sound twice in a
sentence gives. `by_key` is made once, so such a plan inserts two rows.

`SoundPlan` chooses (profiles, anchors of effects, cues, pauses, windows of
direction inference), `SoundMix` lays out (speech stem, timeline, tiles, gains,
batches). Levels of samples are not modelled; lengths, fades and cuts are.

### CastBook, CastNames, CastRules, CastSolver

`CastBook` is the cast and its voices, with the discoveries of any number of
callers (`run[r]`, `Discover` to `ApplyIssue`), automatic casting (`BeginAuto`
to `AutoAssign`) and people (create, rename, change aliases, lock, merge, split,
rule, assign, delete, issue actions) whose sessions interleave. Discovery reads
the character it adds to in `ApplyMerge` and writes what it read, and adds, in
`WriteObservations`, as `_merge_character_observations` does in two sessions.
Handlers whose sessions no property tells apart are one step.

`struck` and `raced` are history: names that people took from a character, and
aliases written to a row between the read and the write of a discovery, which
its write takes away. `auto.kept` is the assignments before a casting prepared
them, and `auto.opened` those whose lock it then took away (`LosesLock`).

`CastNames` and `CastRules` decide who is who: mentions are filtered, grouped
or clustered, candidates compared with the characters there are. `CastSolver`
chooses voices: eligibility, scores, greedy choice, backtracking for majors,
pools for minors, relaxation when voices run out. A name is the sequence of its
words; which words are spelling variants of each other is a table.

### SpeakerDesk, SpeakerRules

`SpeakerDesk` is an attribution run (rules line by line, the model's answers
applied from a snapshot, repairs, tiers, review tasks) with a reviewer who
edits, locks, confirms and closes tasks between any two of its steps, and a run
that may stop anywhere. A session that changes attributions is two steps,
because the `SELECT` that checks the lock opens no write transaction: `Upsert`,
`Tier`, `Link`, `Edit` and `Propagate` read and leave what they will write in
`session`, and `Commit` writes it, the columns that differ from what was read
(`Changed`), whatever became of the rows meanwhile. There are three sessions,
the run's, the reviewer's, and one for confirmations on their way to other
rows. `SpeakerRules` is how a line gets its speaker: hints
from lines around it, the deterministic decision, the windows a model reads,
the vote, the repair of alternations, the tiers.

### SourceText, ChapterParse, SegmentParse, StructureMap

What becomes of a manuscript, each step a function over small alphabets that
keep what the code distinguishes. `SourceText`: text out of DOCX, EPUB and PDF,
the cleaning passes in their order, normalisation, the spans of pages.
`ChapterParse`: lines to chapters and scenes, with the headings a container
announces. `SegmentParse`: the text of a scene to atoms and segments, the
warnings, and the exact-slice validator. `StructureMap`: chunks, the reduction
of the claims of many model answers, seams, the hierarchy built from them, and
its verification and repair.

### MC modules

`MCSegmentRender`, `MCJobRunner`, `MCChapterProduction`, `MCStructureEdit`,
`MCLlmExtraction`, `MCTtsWorkers`, `MCReviewDesk`, `MCSoundDesk`, `MCCastBook`
and `MCSpeakerDesk` name the model values and small instances. `MCAlgorithms`
instantiates the modules without state: its one variable is an input, its
initial states are all the inputs of the bounds, and its invariants compare
what the algorithm makes of the input with a definition that says what it is
for.

A definition whose comment begins with "Variant of" is a plausible mistake in
the code it sits beside. No specification uses it; it serves to see that a
property would notice.

## 3. Runs

| run | question | bounds | result |
|---|---|---|---|
| SegmentRender | can callers in two processes fork or duplicate the history, lose audio, keep a lock? does every call return while providers answer? do the rows implement `RenderHistory`? | 3 callers, 2 processes, 3 requests (forced or not), 2 revisions, 1 crash | holds |
| JobRunner | do rows and threads agree over crashes and restarts? does a row ever move back? is anything forgotten? | 2 jobs (one resumable), 2 engines, 1 worker each, 2 crashes | holds |
| ChapterProduction | does the active chapter ever fall back, does a patch reach it, do jobs end? | 2 segments, 2 threads, 2 jobs, 2 revisions, 2 rows per segment, 1 crash | holds |
| StructureEdit | do edits, locks and extractions keep the order dense, the text whole and audio matched to text? | 3 atoms, 2 parses, 3 edits (at most one inside a replace), 2 extractions, 1 render | holds |
| StructureRewind | does assembly refuse audio of another text? | 3 atoms, 1 parse | violated |
| LlmExtraction | do cache, checkpoint and run rows agree over faults, a crash and the resumed job? does the job end? | 1 job, scenes of 2 and 1 batches, 2 workers, 1 fault, 1 crash | holds |
| Workers | does every call get its own answer, whatever is stopped or dies? which processes are left? | 2 callers, 1 settings thread, 2 keys; 1 worker and 2 calls with a save and a fault, 2 workers and 3 calls with a fault, 2 workers and 2 calls with a save | holds |
| ReviewDesk | is a ready report earned? do fixed findings clear and failing ones come back? does a package row name a whole directory? | 1 chapter, 2 readiness requests, 1 followed check, 1 render, 1 reported issue, 1 export, crashes without bound | holds |
| SoundDesk | does a plan leave what it planned, and what a user silenced or locked? what can inference do to a direction that is locked while it is at work? | 2 scenes of 1 segment, profiles that name a sound twice; 2 plans of either mode with 1 touch, 1 mix and 1 inference, or 2 requests on directions with 2 edits and 3 inferences or reads | holds |
| CastBook | is anybody lost, a character left without a voice or a locked one revoiced, a voice named that is gone? | 2 characters and 2 lines at first, 4 characters, 3 voices and a custom one, 2 callers of discovery; two of people, casting and discovery at a time, two discoveries, or two of a line each with a person | holds |
| SpeakerDesk | do locks hold once no session that read the row before is still to write? is what is unsure queued? | 3 lines told in 3 ways, 2 characters; 1 run and 2 edits, or 2 runs and 1 edit | holds |
| Algorithms | do the algorithms without state do what they are for? | all inputs of the sizes in `MCAlgorithms`: texts of up to 5-9 pieces, 4 lines, 3-4 pages, 3-5 turns, 4 ballots, 3 characters and 4 voices, crowds of 9 and 13 on up to 3 voices, 7 windows, transcripts of up to 4 words and misreadings of up to 20 | holds |

The properties, beyond the type invariants that some of them include:

* `LinearHistory`, `KeysUnique`, `AudioBeforeRow`, `Serialised`,
  `RendersFinish`, `RefinesHistory`: one chain of rows, one row per key, audio
  before its row, one caller at a time; locks given back on every path, and
  every call over, provided that providers answer.
* `RowsMatchThreads`, `RowsMoveForward`, `JobsSettle`.
* `ChaptersFollowRows`: a chapter assembled later holds no older audio of a
  segment than one before, and the chapter of a patch holds the patch;
  `JobsEnd`.
* `Consistent`, `TextIsKept`, `LockedSurvives`, `CheckedAudioIsText`: dense
  order, no text lost by anything but an edit or an extraction, locked rows as
  they were, and current audio is audio of the current text as long as no
  extraction set a revision back.
* `DoneIsCached`, `RefinedIsWhole`, `DoneStaysDone`, `JobsEnd`.
* `WorkersAreSafe`, `CallsEnd`.
* `DeskIsTrue`, `FixedFindingClears`, `FailingIsFlagged`: the last two say that
  if readiness is run again and again, a check that is fixed for good ends up
  resolved, accepted risks included, and one that fails for good cannot stay
  behind a "resolved" mark.
* `SilenceIsKept`, `PlanIsCarriedOut`, `LockHolds` of `SoundDesk`: no planned cue
  exists twice while plans do not overlap, but for one a profile names twice;
  a muted bed or piece of music is not replaced; what a plan or an inference may
  still do to a row locked after it was read, and never the lifting of the lock.
* `VoicesInUseExist`, `NobodyIsLost`, `CastIsVoiced`: the second excepts names
  that people took away and those a stale write replaced, the third voices given
  by hand after a decision that is still open. Both exceptions are recorded in
  the state when they happen; `ObservationsAreKept` and `LockedVoicesAreFixed`,
  below, are without them.
* `UnsureIsQueued`, `LockHolds` of `SpeakerDesk`: a lock is settled when no
  session that read the row unlocked is still to write, and then only the
  reviewer changes the row.
* `VerdictsAreSound`, `LayoutIsSound`, `CastIsSound`, `SpeakersAreSound`,
  `TextIsAccounted`: each a conjunction over the kinds of input, one named part
  per algorithm, in the module of the algorithm.

Why the bounds are enough. A fork of the history needs two callers that both
passed the first cache check, and a third row to show the chain; a duplicate
key needs two unforced requests with the same key in two processes. Job rows
interact only through the queue and the reconciliation: a job that waits and
one that runs cover both, and the second crash falls anywhere inside the start
that follows the first. Two assemblies and two segments are what it takes to
read a mixture of old and new renders. Three atoms make a segment that can be
split next to one that cannot, and two parses that disagree about every
boundary; two extractions show what the first leaves for the second. Two
batches of a scene on two threads and one of a later scene cover the order
inside and between scenes, and one fault and one crash cut every pair of writes
apart. Two callers on one worker fill the pool and queue at the lock; three
calls on two workers bring the turn round. Two readiness runs are the older and
the newer one of every race about an issue, which has one row per check, so one
check is followed. Two plans are what it takes to disturb one, and a scene of
one line is enough for a cue of each kind. Discovery, casting and people meet
in rows of single characters; three at a time are more than a run can hold, so
each pair is run, and two discoveries with a person. Thirteen who share a
voice are more than the seven paces there are. A misreading of one word among
ten is the first that passes as an agreement of nine tenths. Two requests on one
direction, each reading before it commits, are the older and the newer of every
race about it. A ballot of four has every tie, a conversation of five turns
every repair, and the texts are long enough for every construct the parsers
look for to stand before, in and after another.

Fairness. `FairSpec` of the renderer and of the production module asks weak
fairness of the steps of a started call: Python threads are scheduled. In the
renderer a call that waits for its provider is not part of it, because
`api/tts_worker.py` 188 waits for the worker's line without a timeout; that
providers answer is a premise of `RendersFinish` (`ProvidersAnswer`), and one of
`JobsEnd` of `ChapterProduction` through its `FairSpec`. `Workers` looks at the
one provider that waits for another process: there too threads are scheduled,
and the process is assumed to answer or die; `CallsEnd` is worth as much as
that. Nothing is asked of new
requests, edits, faults or crashes. In `JobRunner` an engine that is down is
started again, which is the user's part: without it nothing after a crash would
be settled. In `LlmExtraction` the thread of a batch and the job's own thread
go on; nothing chooses between an answer, an invalid one and an error. In
`ReviewDesk` a request that was accepted is carried on; that readiness is run
again is a premise of its two liveness properties. The other modules have no
liveness property.

Atomicity. A step is one database session or less. SQLite has one writer, and a
session that only reads sees one snapshot; where a handler reads in one session
and writes in another, the two are separate steps, except in `CastBook` for the
sessions of one small request no property tells apart. A session that reads a
row and then writes it opens its transaction at the write: in `SpeakerDesk`,
`SoundDesk` and `StructureEdit`, whose properties are about what lands in
between, the reading and the commit are two steps, and the commit writes the
columns that differ from what was read. Elsewhere such a session is one step.

`CHECK_DEADLOCK FALSE` in every run with bounds on requests, jobs and crashes:
they let a run stop.

### Sentences of the documents the code does not keep

Each formula states a sentence of a document or a comment. The first is the run
StructureRewind, and `PROJECT.json` quotes the sentence. The others stand in
their modules beside the passing property that says what the code keeps
instead. They belong to no run; TLC finds each violated when it takes the
place of the properties of the configuration named.

| formula | configuration | sentence | code |
|---|---|---|---|
| `StaleAudioIsRefused` | `StructureRewind.cfg` | `api/tests/test_assembly.py` 345 | `repository.py` 900 |
| `SpansAreCanonical` | `Algorithms.cfg` | `docs/pipeline/ingestion/pdf-ocr-ingestion.md` 37 | `ingestion.py` 646 |
| `LockedRowsAreNotOverwritten` | `SpeakerDesk.cfg` | `docs/pipeline/casting/speaker-attribution.md` 39 | `repository.py` 1288 |
| `LockedDirectionsArePreserved` | `SoundDesk.cfg` | `docs/pipeline/direction/direction-studio.md` 16 | `repository.py` 2284 |
| `LockedCuesAreUntouched` | `SoundDesk.cfg` | `docs/pipeline/assembly/generative-sound-design.md` 750 | `sound_planner.py` 561 |
| `ObservationsAreKept` | `CastBook.cfg` | `docs/architecture/end-to-end-workflow-architecture.md` 149 | `cast_discovery.py` 1552 |
| `LockedVoicesAreFixed` | `CastBook.cfg` | `docs/pipeline/casting/automatic-casting-v2.md` 393 | `repository.py` 2026 |

* `StaleAudioIsRefused`: an edited segment is rendered at revision 2, the text is
  extracted again (revision 1, the renders stay), and the next edit is revision 2
  again: the check passes and the old audio is assembled.
* `SpansAreCanonical`: the spans of pages are looked up in the text as extracted,
  before the cleaning passes drop lines and join wraps, and not written again.
* `LockedRowsAreNotOverwritten`, `LockedDirectionsArePreserved`,
  `LockedCuesAreUntouched`: a run, an inference or a plan looks at the lock, the
  user sets it, and the write that follows goes over the locked row (or deletes
  the cue). The passing `LockHolds` of both modules bound what it can do.
* `ObservationsAreKept`: two discoveries add an alias to one character; the later
  write is a list read before the earlier one. `NobodyIsLost` excepts the names
  of `raced`.
* `LockedVoicesAreFixed`: a voice given by hand after an automatic casting is
  linked to the decision that is still open, takes its lock over, which is none,
  and is replaced by the next casting. No interleaving is needed. `CastIsVoiced`
  excepts the characters of `auto.opened`.

### What else the models show

These are behaviours of the code that no document contradicts plainly enough
for a run of their own; the hazards in `PROJECT.json` give the lines.

* Settings A, then B, then A again: the unforced render is a hit on A's old
  row, nothing is inserted, B's row stays the latest, and assembly reads the
  latest.
* A job that was QUEUED at a crash is never run.
* A locked half of a split has an id the parser never makes, and is put behind
  every other segment of its scene by the next extraction.
* A profile that names a sound twice in one sentence makes two cue rows of one
  key, and every later plan keeps both.
* A row may stay unchecked by QA with its process alive: QA may raise or return
  early, and a later request is a cache hit before QA.
* The eighth character who shares a voice gets the pace of the first.
* The cleaning drops a paragraph equal to the one before it, which
  `docs/pipeline/ingestion/clean-text-review.md` 18 says it does.
* Two merges in opposite directions hide both characters.
* A GET of a direction that does not exist may overwrite one saved and locked
  meanwhile.
* Chunks may advance by one character when a paragraph break lies inside the
  overlap and a long paragraph follows.
* A readiness run counts the blocker it has itself opened.

## 4. Proofs

Each theorem below is proved by TLAPS for every value of the constants that the
named assumptions allow: any numbers of threads, engines, chapters, requests,
faults and crashes. Every invariant was checked by TLC before it was proved. A
proof module has the shape: the parts of `IInv`, lemmas about what the actions
are made of, one lemma per action, `Invariance`, and the theorems that follow.

| module | theorems | property of a run |
|---|---|---|
| `RenderCastProofs` | `TypeCorrect`, `NoFork`, `IndexNeverTrips`, `RowsHaveAudio`, `RendersSerialised`, `RendererImplementsHistory` | `TypeOK`, `LinearHistory`, `KeysUnique`, `AudioBeforeRow`, `Serialised`, `RefinesHistory` |
| | `VoicesStay`, `NobodyLost`, `EverybodyVoiced` | `VoicesInUseExist`, `NobodyIsLost`, `CastIsVoiced` |
| `LlmExtractionProofs` | `DoneHasAnswer`, `NeverAskedAgain`, `TypeCorrect`, `ScenesAreTraced` | `DoneIsCached`, `DoneStaysDone`, `TypeOK`, `RefinedIsWhole` |
| `JobRunnerProofs` | `RowsFollowThreads`, `RowsNeverGoBack` | `RowsMatchThreads`, `RowsMoveForward` |
| `ChapterSoundProofs` | `ChaptersKeepUp` | `ChaptersFollowRows` |
| | `LocksHold`, `PlansCarriedOut`, `SilenceKept` | `LockHolds`, `PlanIsCarriedOut`, `SilenceIsKept` |
| `TtsWorkersProofs` | `WorkersStaySafe` | `WorkersAreSafe` |
| `StructureEditProofs` | `RowsStayConsistent`, `CheckedAudioSpeaksText`, `LocksSurvive`, `TextStays` | `Consistent`, `CheckedAudioIsText`, `LockedSurvives`, `TextIsKept` |
| `SpeakerDeskProofs` | `UnsureRowsAreQueued`, `LocksHold` | `UnsureIsQueued`, `LockHolds` |
| `ReviewDeskProofs` | `DeskStaysTrue` | `DeskIsTrue` |

`RenderCastProofs` is about `SegmentRender` and `CastBook`, `ChapterSoundProofs`
about `ChapterProduction` and `SoundDesk`: two components each that share no
variable. `CastBook` and `SoundDesk` therefore call their formulas `CastInit`,
`CastNext`, `CastSpec`, `SoundInit`, `SoundNext`, `SoundSpec`.

Every invariant and action property that a passing run of a component with
state checks is proved. Three of the theorems, `NobodyLost`, `EverybodyVoiced`
and `SilenceKept`, have a hypothesis about an algorithm without state, of the form
`Spec /\ []Hypothesis => []Property`; each is stated and justified below.

### SegmentRender

Assumptions: `CallersAssumption` (every caller runs in a process, the owner of
a free lock is no caller) and `BoundsAssumption`.

`LinearHistory` is not inductive: a new row is attached to the tip, and the tip
is the last row only if the parents form a chain of distinct ids. `IInv`
therefore adds that the calls in flight have numbers of their own
(`CallsOwnNumbers`), that ids in the table are distinct, already issued, and
owned by no caller that has yet to insert (`RowsOwnNumbers`), that a keyed call
has read a revision (`KeyedHasRevision`), and that a caller about to commit has
written its audio (`WrittenHasAudio`). `TipOfLinear` is the lemma the rest turns
on: in a linear history the only childless row is the last one. `InsertExtends`
turns a commit into an append of the abstract log.

### LlmExtraction

Assumptions: `AnswersAssumption` (`NoAnswer` is no answer), and for the types
and the scenes `BatchesAssumption` and `PoolAssumption`.

`IInv` is about units: a thread about to write the cache holds an answer, one
that may still mark its unit done has seen or made the entry
(`PastCacheIsCached`), and one on the miss path has a unit that was never done
(`MissIsNotDone`), which keeps `MarkRunning` and `MarkFailed` away from a
finished checkpoint. `WInv` is about scenes, and uses `IInv`. A crash and the
resumed job run every batch of a scene once more, so the row that a saved answer
came from is in general not the last row of its unit. `SavedIsSettled` says what
keeps it: a succeeded row with that answer exists which no thread can still
close, that is, one before the row the unit's thread has open.

### JobRunner

Assumptions: `JobsAssumption`, `WorkersAssumption`.

`RowMatchesThread` fails without knowing what reconciliation holds in its hands.
`IInv` adds that an engine runs nothing before its reconciliation is written
(`BootIsIdle`), that the executor's entries are the waiting operations, each
once (`QueueIsWaiting`), that a job still to be resumed is in no thread's hands
(`ToResumeIsFree`), and that, alone with the database, what reconciliation has
read stays true until it writes (`ListsAreTrue`). `OneEngine` turns `~overlap`
into "no other engine is up".

### ChapterProduction

Assumptions: `SizesAssumption`, `ThreadAssumption`. The constant of the values a
request may give `force` is called `ForceValues`.

A chapter row never falls back because two assemblies never overlap and each
resolves the newest row of a segment at a time when nothing newer is in a
chapter: `PicksAreNewest` says so of the segments already resolved, of a thread
that holds the lock. `OwnChapter` ties a patch to the one row its job commits.

### TtsWorkers

Assumptions: `KeyAssumption` (there are settings), `EnginesAssumption`.

That an answer is one's own needs the whole life of a pipe: it is empty whenever
nobody holds the worker (`PipesAreClean`), the thread that holds it reads from
the process started for that worker (`ProcessIsOwn`, `ReadsOwnPipe`), and one
thread holds it at a time (`OneHolds`). That no process is left behind rests on
the two steps of a stop: between reading the process and killing it nobody
changes it (`VictimIsCurrent`), because a host is retired by one thread
(`OneRetires`) and nobody uses a host that is not the manager's unless it was
`overtaken` (`UsersAreCounted`).

### StructureEdit

Assumptions: `ParseAssumption` (a parse is not empty, nor is a chapter of it,
and its spans are in reading order and share no atom, which is what the
validator of the parser demands) and `BoundsAssumption`. `Parse` is otherwise any set.

Orders stay dense (`Dense`) while no edit committed inside a replace; the proof
counts ranks, with `InjectionFills` and the lemmas on ranks of a finite set.
Audio matches text because a revision number stands for one text while
`~rewound`: `AudioIsOfText` for the rows, `FirstIsSource` for those a replace
may set back, and `ReadingIsSound` for what a replace in flight has read, which
edits may have overtaken. `Fresh(w)` (the rows a replace inserts) and
`RowsHaveScenes` have names so that the proofs can speak of them.

`TextStays` needs one assumption more, `CoverAssumption`: each span of a parse
begins where the one before it ended. The code refuses a hierarchy whose atoms,
put end to end, are not the atoms of the source (`api/structure.py` 442), and
`TextIsPartitioned` in run Algorithms checks it of what the parser makes. The
argument goes through what a scene reads. Its rows in reading order are its rows
by their number, because the order is dense (`Rising`, `InReadingOrder`: there is
one such sequence). A split hands one piece over in two, which `FlattenSeq` does
not see (`FlattenHalved`, by a least counterexample over `FlattenPrefixes`,
because induction with an operator is not to be had); a merge is a split seen
from behind (`HandedOver`). An extraction over no locked row lays out the rows
of the parse and no others, and stretches of atoms that follow each other join
to one stretch (`FlattenAtoms`).

### SpeakerDesk

Assumptions: none beyond what the module says of its constants.

`UnsureIsQueued` speaks of a finished run; in the middle of one, rows are
flagged and listed nowhere. `FlaggedAreKnown` says that the run has them all in
hand, those its open session is about to flag included, `TaskIsReady` that the
task it links them to has them as members, and `ClaimsHold` that a row's task
never drops it, as the row is and as the run's commit will leave it
(`OwnColumns`: no other session writes these columns). `UnsureStays` is what makes
an approval somebody's doing.

`LockHolds` follows step by step: a session that opens after the lock is settled
reads the lock and plans no write of a decision column (`Decided`), and a commit
of one that plans none leaves them.

### ReviewDesk

Assumption: `ReviewAssumption`.

A report is computed from three sets a request carries between its sessions.
`Counted` says that while nothing active is counted every failing check was
accepted; it is kept because a verdict that fails blocks or warns and nothing
else (`Draft`; `DraftsTyped` shows it of whatever a run collects, by induction
on the length for `FlattenSeq`), and because a request that left a session to
reopen, insert or resolve comes back with the same verdict in hand (`InHand`)
however the row was marked meanwhile. `RecordedIsComplete` needs that an export's
directory has no row until it is in place (`ExportIsOwn`).

### CastBook

Assumption: `CastAssumption` (the characters at first are numbered as their rows
are, 0 is no voice, and the catalogue has one for a narrator, without which
`auto_cast` refuses to start).

`VoicesInUseExist` is kept with `Rows`, which says that `cast` and `desk` are of
one length and every place has its fields: a merge then hands over the seat of
somebody who exists (`ByNameIsSomebody`), and a creation adds a free one.

`NobodyIsLost` is proved for any number of discoveries at once. `Lasting` is the
names of everybody together with those known to have gone, taken by people
(`struck`) or by a stale write (`raced`); no step makes it smaller (`Grown`), and
findings are only refreshed or closed (`Filing`). `Known` says of each discovery
that the row it is about to write over is one it has read, whose names were
lasting (`ReadIsKnown`), and that whoever it has settled is in a finding, lasting
or held (`PastIsKnown`). The write of a discovery replaces the aliases of a row
by those it read and the candidate's, and what was added to the row since goes
to `raced`. `CleanHolds` opens the fold that cleans a list of aliases. Hypothesis
`FoundAreNamed`: the candidates a discovery comes up with have a name. Grouping
and clustering go through `SelectSeq` and folds, which the provers cannot expand;
`GroupsAreWhole` in run Algorithms checks their results.

`CastIsVoiced` is about a casting nobody disturbs, during which discoveries go
on. `CastingInv` says that a locked row has a voice (`LockedAreVoiced`), that
what is left of the plan gives voices to characters that are not locked
(`PlanIsGiven`), that whoever was locked before the rows were prepared still is,
or has lost the lock to an open decision (`KeptIsKnown`), that locked rows keep
their voices (`LockedAreKept`), and that everybody who was there has a voice or
a turn to come (`AllHaveTurns`). Hypothesis `PlansAreWhole`: the plan names every
active character that is not locked, and a voice for each. It is the promise of
the solver, which sorts and folds; `EveryoneIsVoiced` in run Algorithms checks
it.

TLC finds both hypotheses true in every state of the instance of run CastBook.

### SoundDesk

Assumption: `SoundAssumption`.

`RowsAreWhole` and `DirectionsAreWhole` give rows, plans and requests their
fields; with the type invariant they are `Base`. `LockHolds` needs that a row an
update is about to write was unlocked when it was read and sets no mute
(`IsWrite`), and that a plan at work has every row it read, locked where it was
(`Standing`); `CommitDirection` and `PlaceWrite` then leave lock and silence,
because they write only what differs from what was read (`Merged`).

For `PlanIsCarriedOut`, `PlansFollow` says of a plan that was `alone` so far that
every row is one it found or has made, that the update it is about to make is of
a row it found (`Recollects`), and that every cue it has placed has a row, but
for those it passed over because a locked row holds their place (`Followed`).
When it ends, it deletes the unlocked rows whose key it did not want
(`EndsAsWanted`).

`SilenceIsKept` needs, as long as plans never `met`, that a row says what its
key says, that no key comes twice (no key of a bed or piece of music, once a
plan had one key `twice`), and that the rows a plan has read held one bed and
one piece of music a scene (`Quiet`): then the place of a locked row is the only
one of its kind in the scene when the plan has cleaned up (`EndsQuiet`).
Hypothesis `FoundAreLaid`: the plan of the chapter as it is has one bed and one
piece of music a scene, and kinds that go with the rules (`Served` carries that
to a plan at work). It says nothing of sounds named twice, which the code does
not exclude. It is checked for every input of run Algorithms, profiles that name
a sound twice included, and TLC finds it true in every state of the instance of
run SoundDesk.

### What stays with TLC

* The liveness properties (`RendersFinish`, `JobsSettle`, both `JobsEnd`,
  `CallsEnd`, `FixedFindingClears`, `FailingIsFlagged`): fairness and ENABLED
  are out of the prover's reach.
* The five properties of `Algorithms`, what folds, sorts and recursive
  functions make of every input: the library's induction theorems need an
  operator as parameter. Induction by a least counterexample works for single
  facts, as in `FlattenTyped`, `FlattenHalved` and `CleanHolds`.
* The hypotheses `FoundAreNamed`, `PlansAreWhole` and `FoundAreLaid`, for the
  same reason.
* The formulas of section 3 that the code does not keep.

## 5. Plan

What would add most from here: the three hypotheses as theorems about
`CastRules`, `CastSolver` and `SoundPlan`, once the sorts and selections these
use are stated by what they return, as `ReadingOrder` is in `StructureEdit`; and
a refinement, that `SegmentRender` implements the two-step renderer
`ChapterProduction` uses.

## 6. Not modelled

* Signal processing: mastering, resampling, waveform measurement, the samples
  of a mix. A finite model says nothing of it.
* The contents of prompts, the HTTP of the model providers, and the lexical
  lists and regular expressions of the parsers, which the alphabets of the text
  modules stand for.
* The rows and files of imports: `import_source` stages a file and then reads
  the latest source, and `canonical.md` is one file for all sources of a
  project. One writer at a time makes both harmless; what two at once should do
  is described nowhere, so there is nothing to check them against.
* The event stream (`api/main.py` 813-880): the job is the only writer of its
  events and writes them before it ends, and the stream drains once more after
  it saw the end.
* `VramBudgetModelLoader`: nothing in `src/` calls `touch`.
* Installers and downloads, the schema and its migrations, the routes, which
  translate requests, and the web UI, which keeps no state beyond a page.

`PROJECT.json` says for each component what is left out and why.
